----------------------------- MODULE Publication -----------------------------
(***************************************************************************)
(* The pages of one tenant from their draft to their verified publication: *)
(* denzo/publication.py (attempts, daily limit, verification),             *)
(* denzo/editorial.py (approval), the trigger revoke_changed_approval of   *)
(* denzo/migrations.py and the two publishers of layer4_publishing, which  *)
(* send the approved text to GitHub or WordPress.                          *)
(*                                                                         *)
(* One SQLite transaction, or one request to the provider, is one action.  *)
(* A verification fetches the public page between two transactions; the    *)
(* scheduler and the publishers verify at the same time.                   *)
(*                                                                         *)
(* That jobs writing content exclude each other is Exclusion of AgentJobs; *)
(* here a job holds that right from its start until it ends or lapses,     *)
(* that is, until recovery ends its lease while its process lives on.      *)
(* External and modelled from their use: the provider, the public site.    *)
(***************************************************************************)
EXTENDS Integers, FiniteSets

CONSTANTS
    Pages,
    NoPage,
    Attempts,       \* the pool of uuids: how many reservations a run may make
    NoAttempt,
    Publishers,     \* processes that run a publisher agent
    Schedulers,     \* processes that only reconcile publications
    GitHub,         \* TRUE: the publishers write files; FALSE: WordPress posts
    MaxText,        \* bound: different texts a page may have
    MaxPerDay,      \* publish_velocity.max_per_day
    MaxFaults       \* bound: lost or lapsed processes and requests that raise

ASSUME PublicationAssumption ==
    /\ NoPage \notin Pages /\ NoAttempt \notin Attempts /\ IsFiniteSet(Attempts)
    /\ Publishers \cap Schedulers = {}
    /\ GitHub \in BOOLEAN
    /\ MaxText \in Nat \ {0} /\ MaxPerDay \in Nat \ {0} /\ MaxFaults \in Nat

VARIABLES
    pages,          \* table pages: status, text, good (quality_score >= 70), approved
    attempts,       \* table publication_attempts
    manifest,       \* table managed_paths: whose file the page's path is
    remote,         \* the text the provider stores for a page, 0 if none
    site,           \* the text its public URL serves
    posts,          \* how many posts WordPress created for a page
    flight,         \* requests whose answer was lost and that may still arrive
    editing,        \* the page a content-writing agent works on
    pc,             \* where a publisher is in run()
    batch,          \* the pages it has still to publish, with the text it rendered
    item,           \* the page it publishes
    att,            \* the attempt it reserved
    known,          \* whether its lookup found a post of that page
    check,          \* the attempt a process verifies
    sees,           \* whether it found the marker of that attempt
    lapsed,         \* publishers whose job was recovered while they live on
    found,          \* history: texts a verification found on the public page
    received,       \* history: attempts whose text the provider took
    erred,          \* history: attempts that were once marked error
    doubt,          \* history: a publisher lapsed, or a refused post was created
    faults          \* history: faults so far

tables == <<pages, attempts, manifest>>
world == <<remote, site, posts, flight>>
work == <<pc, batch, item, att, known, lapsed>>
verif == <<check, sees>>
hist == <<found, received, erred, doubt, faults>>
vars == <<pages, attempts, manifest, remote, site, posts, flight, editing, pc, batch,
          item, att, known, check, sees, lapsed, found, received, erred, doubt, faults>>

Checkers == Publishers \cup Schedulers
Texts == 1 .. MaxText
Items == [page : Pages, text : Texts]
Nothing == [page |-> NoPage, text |-> 0]

Statuses == {"draft", "ready", "publishing", "published"}
NewPage == [status |-> "draft", text |-> 0, good |-> FALSE, approved |-> 0]
NewAttempt(s, p, t) == [status |-> s, page |-> p, text |-> t, recent |-> TRUE]

Init ==
    /\ pages = [p \in Pages |-> NewPage]
    /\ attempts = [a \in Attempts |-> NewAttempt("free", NoPage, 0)]
    /\ manifest = [p \in Pages |-> "unknown"]
    /\ remote = [p \in Pages |-> 0] /\ site = [p \in Pages |-> 0]
    /\ posts = [p \in Pages |-> 0] /\ flight = {}
    /\ editing = NoPage
    /\ pc = [w \in Publishers |-> "off"]
    /\ batch = [w \in Publishers |-> {}]
    /\ item = [w \in Publishers |-> Nothing]
    /\ att = [w \in Publishers |-> NoAttempt]
    /\ known = [w \in Publishers |-> FALSE]
    /\ check = [x \in Checkers |-> NoAttempt]
    /\ sees = [x \in Checkers |-> FALSE]
    /\ lapsed = {}
    /\ found = {} /\ received = {} /\ erred = {} /\ doubt = FALSE /\ faults = 0

Fault == faults < MaxFaults /\ faults' = faults + 1

-----------------------------------------------------------------------------
(* Approval: editorial.py and the triggers. *)

\* Operators marked "mutant" are faulty variants of the definition that follows
\* them; nothing in the specification uses them.

InProgressOnceSent == {"awaiting_deploy"}                           \* mutant
InProgressUnsent == {"reserved"}                                    \* mutant
InProgress == {"reserved", "awaiting_deploy"}

InProgressFor(p) == {a \in Attempts : attempts[a].status \in InProgress
                                      /\ attempts[a].page = p}

WriterEdits == editing # NoPage                                     \* mutant
\* A job of CONTENT_WRITERS, the publishers among them, is queued or running.
WriterActive ==
    editing # NoPage \/ \E w \in Publishers : pc[w] # "off" /\ w \notin lapsed

Publishable(p) ==
    /\ pages[p].status = "ready" /\ pages[p].text # 0 /\ pages[p].good
    /\ pages[p].approved = pages[p].text

MayReview(p) == InProgressFor(p) = {} /\ ~WriterActive

Approve(p) ==
    /\ MayReview(p)
    /\ pages[p].status \in {"ready", "published"} /\ pages[p].text # 0 /\ pages[p].good
    /\ pages' = [pages EXCEPT ![p].status = "ready", ![p].approved = pages[p].text]
    /\ UNCHANGED <<attempts, manifest, world, editing, work, verif, hist>>

\* regenerate, reject and request_changes.
SendBack(p) ==
    /\ MayReview(p)
    /\ pages' = [pages EXCEPT ![p].status = "draft", ![p].good = FALSE, ![p].approved = 0]
    /\ UNCHANGED <<attempts, manifest, world, editing, work, verif, hist>>

\* A content agent takes a page, works on it, and writes by its id.
BeginEdit(p) ==
    /\ ~WriterActive
    /\ pages[p].status \in {"draft", "ready", "published"}
    /\ editing' = p
    /\ UNCHANGED <<tables, world, work, verif, hist>>

\* The row after an update of its text that asks for status s.
Revoked(r, t, s) == [status |-> IF s = "published" THEN "ready" ELSE s,
                     text |-> t, good |-> FALSE, approved |-> 0]

\* Some agents set the status ready with the text, others leave it alone.
Rewrite(p) ==
    /\ editing = p /\ editing' = NoPage
    /\ \E t \in Texts \ {pages[p].text}, s \in {"ready", pages[p].status} \ {"draft"} :
         pages' = [pages EXCEPT ![p] = Revoked(pages[p], t, s)]
    /\ UNCHANGED <<attempts, manifest, world, work, verif, hist>>

\* The Content Optimizer scores a page it does not rewrite.
Score(p) ==
    /\ editing = p /\ editing' = NoPage
    /\ pages[p].status # "draft" /\ ~pages[p].good
    /\ pages' = [pages EXCEPT ![p].good = TRUE]
    /\ UNCHANGED <<attempts, manifest, world, work, verif, hist>>

\* The GEO Gap Closer queues a published page again, its approval kept.
Requeue(p) ==
    /\ editing = p /\ editing' = NoPage
    /\ pages[p].status = "published"
    /\ pages' = [pages EXCEPT ![p].status = "ready"]
    /\ UNCHANGED <<attempts, manifest, world, work, verif, hist>>

\* The agent leaves the page as it is, or is lost.
EndEdit ==
    /\ editing # NoPage /\ editing' = NoPage
    /\ UNCHANGED <<tables, world, work, verif, hist>>

-----------------------------------------------------------------------------
(* A publisher's run. *)

StartRun(w) ==
    /\ pc[w] = "off" /\ ~WriterActive
    /\ pc' = [pc EXCEPT ![w] = "start"]
    /\ UNCHANGED <<tables, world, editing, batch, item, att, known, lapsed, verif, hist>>

\* The approved pages, read at once; each is rendered from this copy.
SelectPages(w) ==
    /\ pc[w] = "start" /\ check[w] = NoAttempt
    /\ batch' = [batch EXCEPT ![w] =
                   {[page |-> p, text |-> pages[p].text] : p \in {q \in Pages : Publishable(q)}}]
    /\ pc' = [pc EXCEPT ![w] = "next"]
    /\ UNCHANGED <<tables, world, editing, item, att, known, lapsed, verif, hist>>

\* _find_wp_page_by_slug
HasPost(p) == posts[p] > 0

\* The next page of the batch; one that fails the quality checks is skipped.  A
\* lapsed job is told to stop (should_stop).
TakePage(w) ==
    /\ pc[w] = "next" /\ w \notin lapsed
    /\ \E i \in batch[w] :
         /\ batch' = [batch EXCEPT ![w] = @ \ {i}]
         /\ \/ UNCHANGED <<pc, item, known>>
            \/ /\ pc' = [pc EXCEPT ![w] = "reserve"]
               /\ item' = [item EXCEPT ![w] = i]
               /\ known' = [known EXCEPT ![w] = HasPost(i.page)]
    /\ UNCHANGED <<tables, world, editing, att, lapsed, verif, hist>>

\* run() leaves, whatever was left of the batch.
Leaves(w) ==
    /\ pc' = [pc EXCEPT ![w] = "off"]
    /\ batch' = [batch EXCEPT ![w] = {}]
    /\ item' = [item EXCEPT ![w] = Nothing]
    /\ att' = [att EXCEPT ![w] = NoAttempt]
    /\ known' = [known EXCEPT ![w] = FALSE]
    /\ lapsed' = lapsed \ {w}

\* No page is left, or should_stop.
EndRun(w) ==
    /\ pc[w] = "next" /\ Leaves(w)
    /\ UNCHANGED <<tables, world, editing, verif, hist>>

\* On to the next page.
Skips(w) ==
    /\ pc' = [pc EXCEPT ![w] = "next"]
    /\ item' = [item EXCEPT ![w] = Nothing]
    /\ att' = [att EXCEPT ![w] = NoAttempt]
    /\ known' = [known EXCEPT ![w] = FALSE]

PublishedBefore(p, t) ==                                            \* mutant
    \E a \in Attempts : attempts[a].status = "published" /\ attempts[a].page = p
PublishedAs(p, t) ==
    \E a \in Attempts : /\ attempts[a].status = "published"
                        /\ attempts[a].page = p /\ attempts[a].text = t

CountedInProgress == InProgress                                     \* mutant
\* The attempts of the last 24 hours that count against the daily limit.
Counted == InProgress \cup {"published"}
QuotaReached(limit) ==
    Cardinality({a \in Attempts : attempts[a].status \in Counted /\ attempts[a].recent}) >= limit

\* reserve_publication: ValueError, the limit being 1 for a scheduled tenant; that
\* no uuid is left is the bound's doing.
ReserveRefused(w) ==
    LET p == item[w].page IN
    /\ pc[w] = "reserve"
    /\ \/ ~Publishable(p)
       \/ InProgressFor(p) # {}
       \/ /\ ~PublishedAs(p, pages[p].text)
          /\ \/ \E limit \in {1, MaxPerDay} : QuotaReached(limit)
             \/ \A a \in Attempts : attempts[a].status # "free"
    /\ Skips(w)
    /\ UNCHANGED <<tables, world, editing, batch, lapsed, verif, hist>>

\* reserve_publication: this revision is already published.
AlreadyPublished(w) ==
    LET p == item[w].page IN
    /\ pc[w] = "reserve"
    /\ Publishable(p) /\ InProgressFor(p) = {} /\ PublishedAs(p, pages[p].text)
    /\ pages' = [pages EXCEPT ![p].status = "published"]
    /\ Skips(w)
    /\ UNCHANGED <<attempts, manifest, world, editing, batch, lapsed, verif, hist>>

\* The publisher compares the revision it reserved with the one it rendered.
SameRevision(t, u) == t = u

Reserved(w) ==
    LET p == item[w].page IN
    /\ pc[w] = "reserve"
    /\ Publishable(p) /\ InProgressFor(p) = {} /\ ~PublishedAs(p, pages[p].text)
    /\ ~QuotaReached(MaxPerDay)
    /\ \E a \in Attempts :
         /\ attempts[a].status = "free"
         /\ attempts' = [attempts EXCEPT ![a] = NewAttempt("reserved", p, pages[p].text)]
         /\ att' = [att EXCEPT ![w] = a]
    /\ pc' = [pc EXCEPT ![w] = IF SameRevision(pages[p].text, item[w].text) THEN "send" ELSE "fail"]
    /\ UNCHANGED <<pages, manifest, world, editing, batch, item, known, lapsed, verif, hist>>

\* should_stop before the write.
StopBeforeSend(w) ==
    /\ pc[w] = "send"
    /\ pc' = [pc EXCEPT ![w] = "fail"]
    /\ batch' = [batch EXCEPT ![w] = {}]
    /\ UNCHANGED <<tables, world, editing, item, att, known, lapsed, verif, hist>>

GoOn(w) ==
    /\ pc[w] = "send" /\ w \notin lapsed
    /\ pc' = [pc EXCEPT ![w] = "put"]
    /\ UNCHANGED <<tables, world, editing, batch, item, att, known, lapsed, verif, hist>>

-----------------------------------------------------------------------------
(* The write to the provider: _publish_file, or the POST to WordPress. *)

\* The provider takes the text t for page p, as a new post if asked to.
Takes(p, t, new) ==
    /\ remote' = [remote EXCEPT ![p] = t]
    /\ posts' = [posts EXCEPT ![p] = IF new THEN @ + 1 ELSE @]

NewPost(w) == ~GitHub /\ ~known[w]
SendsItem(w) == Takes(item[w].page, item[w].text, NewPost(w)) /\ received' = received \cup {att[w]}

\* A file at this path that the manifest does not have.
Unowned(p) == GitHub /\ manifest[p] = "unknown" /\ remote[p] # 0
MayWrite(p) == ~GitHub \/ manifest[p] = "ours" \/ (manifest[p] = "unknown" /\ remote[p] = 0)

\* The provider took the text and said so; an unchanged file is not sent again.
Written(w) ==
    /\ pc[w] = "put" /\ MayWrite(item[w].page)
    /\ SendsItem(w)
    /\ manifest' = IF GitHub THEN [manifest EXCEPT ![item[w].page] = "ours"] ELSE manifest
    /\ pc' = [pc EXCEPT ![w] = "commit"]
    /\ UNCHANGED <<pages, attempts, site, flight, editing, batch, item, att, known, lapsed,
                   verif, found, erred, doubt, faults>>

\* The request is refused, or not even made: not our file, or no answer to the GET.
WriteRefused(w) ==
    /\ pc[w] = "put"
    /\ pc' = [pc EXCEPT ![w] = "fail"]
    /\ UNCHANGED <<tables, world, editing, batch, item, att, known, lapsed, verif, hist>>

\* GitHub: the path is marked as the client's; a stop requested meanwhile raises
\* AgentCancelled out of run() instead.
FoundUnowned(w) ==
    /\ pc[w] = "put" /\ Unowned(item[w].page)
    /\ \/ /\ manifest' = [manifest EXCEPT ![item[w].page] = "theirs"]
          /\ pc' = [pc EXCEPT ![w] = "fail"]
          /\ UNCHANGED <<batch, item, att, known, lapsed>>
       \/ Leaves(w) /\ UNCHANGED manifest
    /\ UNCHANGED <<pages, attempts, world, editing, verif, hist>>

\* GitHub: the file is written, but a stop requested meanwhile makes the write of
\* the manifest raise, which _publish_file answers like a failed PUT.
WrittenUnrecorded(w) ==
    /\ pc[w] = "put" /\ GitHub /\ MayWrite(item[w].page)
    /\ SendsItem(w)
    /\ pc' = [pc EXCEPT ![w] = "fail"]
    /\ UNCHANGED <<tables, site, flight, editing, batch, item, att, known, lapsed,
                   verif, found, erred, doubt, faults>>

\* WordPress: an error status although the post was written.
RefusedButDone(w) ==
    /\ pc[w] = "put" /\ ~GitHub /\ Fault
    /\ SendsItem(w) /\ doubt' = TRUE
    /\ pc' = [pc EXCEPT ![w] = "fail"]
    /\ UNCHANGED <<tables, site, flight, editing, batch, item, att, known, lapsed,
                   verif, found, erred>>

FailsWhenLost == "fail"                                             \* mutant
\* Where a publisher goes on when its request raises: WordPress' treats it as
\* sent and leaves it to verification, GitHub's as refused.
WhenLost == IF GitHub THEN "fail" ELSE "commit"

\* The request raises, a timeout for instance, and may still arrive.
AnswerLost(w) ==
    /\ pc[w] = "put" /\ MayWrite(item[w].page) /\ Fault
    /\ flight' = flight \cup {[page |-> item[w].page, text |-> item[w].text, att |-> att[w],
                               was |-> remote[item[w].page], new |-> NewPost(w)]}
    /\ pc' = [pc EXCEPT ![w] = WhenLost]
    /\ UNCHANGED <<tables, remote, site, posts, editing, batch, item, att, known, lapsed,
                   verif, found, received, erred, doubt>>

\* GitHub accepts a file only over the one the request names (its sha).
Arrives(f) ==
    /\ f \in flight /\ flight' = flight \ {f}
    /\ IF GitHub /\ remote[f.page] # f.was
       THEN UNCHANGED <<remote, posts, received>>
       ELSE Takes(f.page, f.text, f.new) /\ received' = received \cup {f.att}
    /\ UNCHANGED <<tables, site, editing, work, verif, found, erred, doubt, faults>>

IsLost(f) ==
    /\ f \in flight /\ flight' = flight \ {f}
    /\ UNCHANGED <<tables, remote, site, posts, editing, work, verif, hist>>

Deploy(p) ==
    /\ site[p] # remote[p]
    /\ site' = [site EXCEPT ![p] = remote[p]]
    /\ UNCHANGED <<tables, remote, posts, flight, editing, work, verif, hist>>

-----------------------------------------------------------------------------
(* The outcome of an attempt: publication.py. *)

Approves(p, t) == pages[p].approved = t

\* failed, which does not ask what became of the attempt.
Failed(w) ==
    /\ pc[w] = "fail"
    /\ attempts' = [attempts EXCEPT ![att[w]].status = "error"]
    /\ erred' = erred \cup {att[w]}
    /\ Skips(w)
    /\ UNCHANGED <<pages, manifest, world, editing, batch, lapsed, verif, found, received, doubt, faults>>

\* Another attempt of the page is in progress: idx_publication_active.
Clash(w) == InProgressFor(attempts[att[w]].page) \ {att[w]} # {}

\* committed
Committed(w) ==
    LET p == attempts[att[w]].page IN
    /\ pc[w] = "commit" /\ ~Clash(w)
    /\ attempts' = [attempts EXCEPT ![att[w]].status = "awaiting_deploy"]
    /\ pages' = IF Approves(p, attempts[att[w]].text)
                THEN [pages EXCEPT ![p].status = "publishing"] ELSE pages
    /\ pc' = [pc EXCEPT ![w] = "verify"]
    /\ UNCHANGED <<manifest, world, editing, batch, item, att, known, lapsed, verif, hist>>

\* committed raises IntegrityError, which WordPress' publisher may log.
CommitRaises(w) ==
    /\ pc[w] = "commit" /\ Clash(w)
    /\ Leaves(w) \/ (~GitHub /\ Skips(w) /\ UNCHANGED <<batch, lapsed>>)
    /\ UNCHANGED <<tables, world, editing, verif, hist>>

NextPage(w) ==
    /\ pc[w] = "verify" /\ check[w] = NoAttempt
    /\ Skips(w)
    /\ UNCHANGED <<tables, world, editing, batch, lapsed, verif, hist>>

\* The first transaction of verify_publication: by reconcile_publications of the
\* scheduler or at the start of a publisher, or for the attempt just committed.
BeginCheck(x, a) ==
    /\ check[x] = NoAttempt
    /\ x \in Publishers => pc[x] = "start" \/ (pc[x] = "verify" /\ att[x] = a)
    /\ attempts[a].status \in InProgress
    /\ check' = [check EXCEPT ![x] = a]
    /\ UNCHANGED <<tables, world, editing, work, sees, hist>>

\* The public page carries the marker of the attempt's revision.
FetchFinds(x) ==
    LET a == attempts[check[x]] IN
    /\ check[x] # NoAttempt /\ ~sees[x]
    /\ site[a.page] = a.text
    /\ sees' = [sees EXCEPT ![x] = TRUE]
    /\ found' = found \cup {<<a.page, a.text>>}
    /\ UNCHANGED <<tables, world, editing, work, check, received, erred, doubt, faults>>

\* It does not, or it cannot be fetched.
FetchMisses(x) ==
    /\ check[x] # NoAttempt /\ ~sees[x]
    /\ check' = [check EXCEPT ![x] = NoAttempt]
    /\ UNCHANGED <<tables, world, editing, work, sees, hist>>

ApprovesAny(p, t) == pages[p].approved # 0                          \* mutant
\* The page's row is updated only if its approval is that of the attempt.
Shows(p, t) == Approves(p, t)

\* The second transaction of verify_publication, whatever the attempt is by now.
Confirm(x) ==
    LET a == attempts[check[x]] IN
    /\ sees[x]
    /\ attempts' = [attempts EXCEPT ![check[x]].status = "published"]
    /\ pages' = IF Shows(a.page, a.text)
                THEN [pages EXCEPT ![a.page].status = "published"] ELSE pages
    /\ check' = [check EXCEPT ![x] = NoAttempt]
    /\ sees' = [sees EXCEPT ![x] = FALSE]
    /\ UNCHANGED <<manifest, world, editing, work, hist>>

-----------------------------------------------------------------------------
(* Time and losses. *)

DayPasses(a) ==
    /\ attempts[a].status # "free" /\ attempts[a].recent
    /\ attempts' = [attempts EXCEPT ![a].recent = FALSE]
    /\ UNCHANGED <<pages, manifest, world, editing, work, verif, hist>>

\* The job of a publisher that stalls is recovered as lost.
Lapse(w) ==
    /\ pc[w] # "off" /\ w \notin lapsed /\ Fault
    /\ lapsed' = lapsed \cup {w} /\ doubt' = TRUE
    /\ UNCHANGED <<tables, world, editing, pc, batch, item, att, known, verif,
                   found, received, erred>>

ForgetsCheck(x) ==
    /\ check' = [check EXCEPT ![x] = NoAttempt]
    /\ sees' = [sees EXCEPT ![x] = FALSE]

PublisherDies(w) ==
    /\ pc[w] # "off" /\ Fault
    /\ Leaves(w) /\ ForgetsCheck(w)
    /\ UNCHANGED <<tables, world, editing, found, received, erred, doubt>>

SchedulerDies(x) ==
    /\ check[x] # NoAttempt /\ Fault
    /\ ForgetsCheck(x)
    /\ UNCHANGED <<tables, world, editing, work, found, received, erred, doubt>>

-----------------------------------------------------------------------------
EditorNext(p) ==
    \/ Approve(p) \/ SendBack(p)
    \/ BeginEdit(p) \/ Rewrite(p) \/ Score(p) \/ Requeue(p)

PublisherNext(w) ==
    \/ StartRun(w) \/ SelectPages(w) \/ TakePage(w) \/ EndRun(w)
    \/ ReserveRefused(w) \/ AlreadyPublished(w) \/ Reserved(w)
    \/ StopBeforeSend(w) \/ GoOn(w)
    \/ Written(w) \/ WriteRefused(w) \/ FoundUnowned(w) \/ WrittenUnrecorded(w)
    \/ RefusedButDone(w) \/ AnswerLost(w)
    \/ Failed(w) \/ Committed(w) \/ CommitRaises(w) \/ NextPage(w)
    \/ Lapse(w) \/ PublisherDies(w)

CheckerNext(x) ==
    \/ \E a \in Attempts : BeginCheck(x, a)
    \/ FetchFinds(x) \/ FetchMisses(x) \/ Confirm(x)

Next ==
    \/ \E p \in Pages : EditorNext(p) \/ Deploy(p)
    \/ EndEdit
    \/ \E w \in Publishers : PublisherNext(w)
    \/ \E x \in Checkers : CheckerNext(x)
    \/ \E x \in Schedulers : SchedulerDies(x)
    \/ \E f \in flight : Arrives(f) \/ IsLost(f)
    \/ \E a \in Attempts : DayPasses(a)

Spec == Init /\ [][Next]_vars

-----------------------------------------------------------------------------
(* Fairness: GitHub and the build deploy what was committed; the scheduler's tick
   reconciles every attempt again and again, and is now and then able to fetch
   the page it asks for. *)

Fairness ==
    /\ \A p \in Pages : WF_vars(Deploy(p))
    /\ \A x \in Schedulers :
         /\ \A a \in Attempts : SF_vars(BeginCheck(x, a))
         /\ SF_vars(FetchFinds(x)) /\ WF_vars(FetchFinds(x) \/ FetchMisses(x))
         /\ WF_vars(Confirm(x))

LiveSpec == Spec /\ Fairness

-----------------------------------------------------------------------------
(* Properties. *)

PagesType ==
    /\ pages \in [Pages -> [status : Statuses, text : 0 .. MaxText, good : BOOLEAN,
                           approved : 0 .. MaxText]]
    /\ \A p \in Pages : pages[p].approved # 0 =>
                            pages[p].approved = pages[p].text /\ pages[p].good
AttemptsType ==
    /\ attempts \in [Attempts -> [status : InProgress \cup {"free", "published", "error"},
                                  page : Pages \cup {NoPage}, text : 0 .. MaxText,
                                  recent : BOOLEAN]]
    /\ \A a \in Attempts : attempts[a].status # "free" =>
                               attempts[a].page \in Pages /\ attempts[a].text \in Texts
WorldType ==
    /\ manifest \in [Pages -> {"unknown", "ours", "theirs"}]
    /\ remote \in [Pages -> 0 .. MaxText] /\ site \in [Pages -> 0 .. MaxText]
    /\ posts \in [Pages -> Nat]
    /\ flight \subseteq [page : Pages, text : Texts, att : Attempts,
                          was : 0 .. MaxText, new : BOOLEAN]
WorkType ==
    /\ editing \in Pages \cup {NoPage}
    /\ pc \in [Publishers -> {"off", "start", "next", "reserve", "send", "put",
                              "fail", "commit", "verify"}]
    /\ batch \in [Publishers -> SUBSET Items]
    /\ item \in [Publishers -> Items \cup {Nothing}]
    /\ att \in [Publishers -> Attempts \cup {NoAttempt}]
    /\ known \in [Publishers -> BOOLEAN] /\ lapsed \subseteq Publishers
    /\ \A w \in Publishers :
         /\ pc[w] \in {"reserve", "send", "put"} => item[w] \in Items
         /\ pc[w] \in {"send", "put", "fail", "commit", "verify"} =>
              att[w] \in Attempts /\ attempts[att[w]].status # "free"
VerifType ==
    /\ check \in [Checkers -> Attempts \cup {NoAttempt}]
    /\ sees \in [Checkers -> BOOLEAN]
    /\ \A x \in Checkers : check[x] # NoAttempt => attempts[check[x]].status # "free"
    /\ \A x \in Checkers : sees[x] => check[x] # NoAttempt
HistType ==
    /\ found \subseteq Pages \X Texts
    /\ received \subseteq Attempts /\ erred \subseteq Attempts
    /\ doubt \in BOOLEAN /\ faults \in 0 .. MaxFaults

\* Types.  Beyond them, an approval is always that of the text the page has, which
\* was found good (the trigger revoke_changed_approval), and whoever sends, settles
\* or verifies an attempt has one that was reserved.
TypeOK == PagesType /\ AttemptsType /\ WorldType /\ WorkType /\ VerifType /\ HistType

\* At most one attempt of a page is in progress (reserve_publication and the index
\* idx_publication_active).
OneInProgress ==
    \A a, b \in Attempts :
        /\ attempts[a].status \in {"reserved", "awaiting_deploy"}
        /\ attempts[b].status \in {"reserved", "awaiting_deploy"}
        /\ attempts[a].page = attempts[b].page
        => a = b

\* A page is shown as published only with its approved text, and only if that very
\* text was found on its public URL, however late the verification that says so
\* (verify_publication, reserve_publication).
PublishedWasFound ==
    \A p \in Pages : pages[p].status = "published" =>
        pages[p].approved = pages[p].text /\ <<p, pages[p].text>> \in found

\* The pages implement ReviewedPages.
TextOf == [p \in Pages |-> pages[p].text]
ApprovedOf == [p \in Pages |-> pages[p].approved # 0]
ShownOf == [p \in Pages |-> pages[p].status = "published"]
Review == INSTANCE ReviewedPages WITH
            text <- TextOf, approved <- ApprovedOf, shown <- ShownOf, seen <- found
ReviewSpec == Review!Spec

\* Whatever is sent under a reservation is the text that was reserved, never an
\* older one a stalled publisher rendered; and while the publisher has its job, it
\* is still the approved text of the page when it is sent (reserve_publication, the
\* publishers' comparison of revisions, CONTENT_WRITERS).
SendsWhatIsApproved ==
    \A w \in Publishers : pc[w] = "put" =>
        /\ item[w].page = attempts[att[w]].page
        /\ item[w].text = attempts[att[w]].text
        /\ w \notin lapsed => pages[item[w].page].approved = item[w].text

\* The daily limit: of the attempts of one day at most MaxPerDay are in progress or
\* published, apart from those once marked error (reserve_publication).
WithinQuota ==
    Cardinality({a \in Attempts \ erred :
        attempts[a].recent /\ attempts[a].status \in {"reserved", "awaiting_deploy", "published"}})
    <= MaxPerDay

\* An ambiguous answer of WordPress never leads to a second post of a page, unless
\* a publisher lapsed or WordPress reported an error for a post it wrote
\* (wordpress_publisher.py, the except branch).
CreatedOnce == ~doubt => \A p \in Pages : posts[p] <= 1

\* What was sent to GitHub and is awaited is settled in the end.
AwaitedIsSettled ==
    \A a \in Attempts : attempts[a].status = "awaiting_deploy" ~> attempts[a].status # "awaiting_deploy"

\* An attempt the provider received is kept for verification, never marked error
\* (docs/AGENT_RUNTIME_LIMITS.md:40).
ReservationKept ==
    \A a \in received : attempts[a].status # "error"

=============================================================================
