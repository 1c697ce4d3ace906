-------------------------- MODULE Publication_proofs --------------------------
(***************************************************************************)
(* Proofs about Publication: type correctness, that a page shown as        *)
(* published is approved and was found, that it implements ReviewedPages,  *)
(* that one attempt of a page is in progress, that a publisher with a job  *)
(* sends approved text, the daily limit, and that a page becomes one post. *)
(***************************************************************************)
EXTENDS Publication, FiniteSetTheorems, TLAPS

-----------------------------------------------------------------------------
(* Which steps touch which table. *)

LEMMA PagesChange ==
    [Next]_vars =>
        \/ UNCHANGED pages
        \/ \E p \in Pages : Approve(p) \/ SendBack(p) \/ Rewrite(p) \/ Score(p) \/ Requeue(p)
        \/ \E w \in Publishers : AlreadyPublished(w) \/ Committed(w)
        \/ \E x \in Checkers : Confirm(x)
BY DEF Next, EditorNext, PublisherNext, CheckerNext, vars, tables, BeginEdit, Deploy, EndEdit,
       StartRun, SelectPages, TakePage, EndRun, ReserveRefused, Reserved, StopBeforeSend, GoOn,
       Written, WriteRefused, FoundUnowned, WrittenUnrecorded, RefusedButDone, AnswerLost,
       Failed, CommitRaises, NextPage, Lapse, PublisherDies, BeginCheck, FetchFinds,
       FetchMisses, SchedulerDies, Arrives, IsLost, DayPasses

LEMMA AttemptsChange ==
    [Next]_vars =>
        \/ UNCHANGED attempts
        \/ \E w \in Publishers : Reserved(w) \/ Failed(w) \/ Committed(w)
        \/ \E x \in Checkers : Confirm(x)
        \/ \E a \in Attempts : DayPasses(a)
BY DEF Next, EditorNext, PublisherNext, CheckerNext, vars, tables, Approve, SendBack, BeginEdit,
       Rewrite, Score, Requeue, Deploy, EndEdit,
       StartRun, SelectPages, TakePage, EndRun, ReserveRefused, AlreadyPublished, StopBeforeSend,
       GoOn, Written, WriteRefused, FoundUnowned, WrittenUnrecorded, RefusedButDone, AnswerLost,
       CommitRaises, NextPage, Lapse, PublisherDies, BeginCheck, FetchFinds,
       FetchMisses, SchedulerDies, Arrives, IsLost

LEMMA VerifChange ==
    [Next]_vars =>
        \/ UNCHANGED <<check, sees, found>>
        \/ \E x \in Checkers :
             \/ \E a \in Attempts : BeginCheck(x, a)
             \/ FetchFinds(x) \/ FetchMisses(x) \/ Confirm(x)
        \/ \E w \in Publishers : PublisherDies(w)
        \/ \E x \in Schedulers : SchedulerDies(x)
BY DEF Next, EditorNext, PublisherNext, CheckerNext, vars, verif, hist, Approve, SendBack,
       BeginEdit, Rewrite, Score, Requeue, Deploy, EndEdit,
       StartRun, SelectPages, TakePage, EndRun, ReserveRefused, AlreadyPublished, Reserved,
       StopBeforeSend, GoOn, Written, WriteRefused, FoundUnowned, WrittenUnrecorded,
       RefusedButDone, AnswerLost, Failed, Committed, CommitRaises, NextPage, Lapse,
       Arrives, IsLost, DayPasses

\* The history of errors grows at Failed only.
LEMMA ErredChange ==
    [Next]_vars => UNCHANGED erred \/ \E w \in Publishers : Failed(w)
BY DEF Next, EditorNext, PublisherNext, CheckerNext, vars, hist, Approve, SendBack,
       BeginEdit, Rewrite, Score, Requeue, Deploy, EndEdit,
       StartRun, SelectPages, TakePage, EndRun, ReserveRefused, AlreadyPublished, Reserved,
       StopBeforeSend, GoOn, Written, WriteRefused, FoundUnowned, WrittenUnrecorded,
       RefusedButDone, AnswerLost, Committed, CommitRaises, NextPage, Lapse, PublisherDies,
       BeginCheck, FetchFinds, FetchMisses, Confirm, SchedulerDies, Arrives, IsLost, DayPasses

-----------------------------------------------------------------------------
(* Types. *)

PageRow == [status : Statuses, text : 0 .. MaxText, good : BOOLEAN, approved : 0 .. MaxText]
AttemptRow == [status : InProgress \cup {"free", "published", "error"},
               page : Pages \cup {NoPage}, text : 0 .. MaxText, recent : BOOLEAN]

\* One field of a row at a time.
LEMMA PageField ==
    ASSUME NEW r \in PageRow
    PROVE  /\ \A s \in Statuses : /\ [r EXCEPT !.status = s] \in PageRow
                                  /\ [r EXCEPT !.status = s].text = r.text
                                  /\ [r EXCEPT !.status = s].good = r.good
                                  /\ [r EXCEPT !.status = s].approved = r.approved
           /\ /\ [r EXCEPT !.good = FALSE] \in PageRow
              /\ [r EXCEPT !.good = FALSE].text = r.text
           /\ /\ [r EXCEPT !.good = TRUE] \in PageRow
              /\ [r EXCEPT !.good = TRUE].text = r.text
              /\ [r EXCEPT !.good = TRUE].good
              /\ [r EXCEPT !.good = TRUE].approved = r.approved
           /\ \A t \in 0 .. MaxText : /\ [r EXCEPT !.approved = t] \in PageRow
                                      /\ [r EXCEPT !.approved = t].text = r.text
                                      /\ [r EXCEPT !.approved = t].good = r.good
                                      /\ [r EXCEPT !.approved = t].approved = t
                                      /\ [r EXCEPT !.approved = t].status = r.status
BY DEF PageRow

LEMMA AttemptField ==
    ASSUME NEW r \in AttemptRow
    PROVE  /\ \A s \in {"reserved", "awaiting_deploy", "published", "error"} :
                /\ [r EXCEPT !.status = s] \in AttemptRow
                /\ [r EXCEPT !.status = s].status = s
                /\ [r EXCEPT !.status = s].page = r.page
                /\ [r EXCEPT !.status = s].text = r.text
                /\ [r EXCEPT !.status = s].recent = r.recent
           /\ /\ [r EXCEPT !.recent = FALSE] \in AttemptRow
              /\ [r EXCEPT !.recent = FALSE].status = r.status
              /\ [r EXCEPT !.recent = FALSE].page = r.page
              /\ [r EXCEPT !.recent = FALSE].text = r.text
              /\ [r EXCEPT !.recent = FALSE].recent = FALSE
BY DEF AttemptRow, InProgress

\* A row of pages is well formed.
PageOK(r) == r \in PageRow /\ (r.approved # 0 => r.approved = r.text /\ r.good)

LEMMA PagesAreRows ==
    PagesType <=> /\ pages \in [Pages -> PageRow]
                  /\ \A p \in Pages : PageOK(pages[p])
BY DEF PagesType, PageRow, PageOK

\* Whatever changes one row into a well-formed one keeps the table well formed.
LEMMA OnePage ==
    ASSUME PagesType, NEW p \in Pages, NEW r, PageOK(r), pages' = [pages EXCEPT ![p] = r]
    PROVE  PagesType'
<1>1. pages' \in [Pages -> PageRow] /\ \A q \in Pages : PageOK(pages'[q])
  BY PagesAreRows DEF PageOK
<1> QED
  BY <1>1 DEF PagesType, PageRow, PageOK

LEMMA PagesStep == TypeOK /\ [Next]_vars => PagesType'
<1> SUFFICES ASSUME TypeOK, [Next]_vars PROVE PagesType'
  OBVIOUS
<1> USE PublicationAssumption DEF PublicationAssumption
<1>0. /\ PagesType /\ AttemptsType /\ WorkType /\ VerifType
      /\ pages \in [Pages -> PageRow] /\ \A p \in Pages : PageOK(pages[p])
      /\ \A p \in Pages : pages[p] \in PageRow
  BY PagesAreRows DEF TypeOK
<1>1. CASE UNCHANGED pages
  BY <1>0, <1>1 DEF PagesType
<1>2. ASSUME NEW p \in Pages, Approve(p) PROVE PagesType'
  <2> DEFINE r == [pages[p] EXCEPT !.status = "ready"]
             q == [r EXCEPT !.approved = pages[p].text]
  <2>1. r \in PageRow /\ r.text = pages[p].text /\ r.good = pages[p].good
    BY <1>0, PageField DEF Statuses
  <2>2. pages[p].text \in 0 .. MaxText /\ pages[p].good
    BY <1>0, <1>2 DEF Approve, PageRow
  <2>3. PageOK(q)
    <3>1. q \in PageRow /\ q.text = r.text /\ q.approved = pages[p].text
      BY <2>1, <2>2, PageField
    <3>2. q.good
      BY <2>1, <2>2 DEF PageRow
    <3> QED
      BY <2>1, <3>1, <3>2 DEF PageOK
  <2>4. pages' = [pages EXCEPT ![p] = q]
    BY <1>0, <1>2 DEF Approve, PageRow
  <2> QED
    BY <1>0, <2>3, <2>4, OnePage
<1>3. ASSUME NEW p \in Pages, SendBack(p) PROVE PagesType'
  <2> DEFINE r == [pages[p] EXCEPT !.status = "draft"]
             g == [r EXCEPT !.good = FALSE]
             q == [g EXCEPT !.approved = 0]
  <2>1. r \in PageRow
    BY <1>0, PageField DEF Statuses
  <2>2. g \in PageRow
    BY <2>1, PageField
  <2>3. PageOK(q)
    <3>1. 0 \in 0 .. MaxText
      OBVIOUS
    <3>2. q \in PageRow /\ q.approved = 0
      BY <2>2, <3>1, PageField
    <3> QED
      BY <3>2 DEF PageOK
  <2>4. pages' = [pages EXCEPT ![p] = q]
    BY <1>0, <1>3 DEF SendBack, PageRow
  <2> QED
    BY <1>0, <2>3, <2>4, OnePage
<1>4. ASSUME NEW p \in Pages, Rewrite(p) PROVE PagesType'
  <2>1. PICK t \in Texts, s \in {"ready", pages[p].status} :
          pages' = [pages EXCEPT ![p] = Revoked(pages[p], t, s)]
    BY <1>4 DEF Rewrite
  <2>2. s \in Statuses /\ t \in 0 .. MaxText
    BY <1>0 DEF PageRow, Statuses, Texts
  <2>3. PageOK(Revoked(pages[p], t, s))
    BY <2>2 DEF Revoked, PageOK, PageRow, Statuses
  <2> QED
    BY <1>0, <2>1, <2>3, OnePage
<1>5. ASSUME NEW p \in Pages, Score(p) PROVE PagesType'
  <2> DEFINE q == [pages[p] EXCEPT !.good = TRUE]
  <2>1. q \in PageRow /\ q.text = pages[p].text /\ q.good /\ q.approved = pages[p].approved
    BY <1>0, PageField
  <2>2. PageOK(q)
    BY <1>0, <2>1 DEF PageOK
  <2> QED
    BY <1>0, <1>5, <2>2, OnePage DEF Score
<1>6. ASSUME NEW p \in Pages, NEW s \in Statuses,
             pages' = [pages EXCEPT ![p] = [pages[p] EXCEPT !.status = s]]
      PROVE  PagesType'
  <2> DEFINE q == [pages[p] EXCEPT !.status = s]
  <2>1. /\ q \in PageRow /\ q.text = pages[p].text
        /\ q.good = pages[p].good /\ q.approved = pages[p].approved
    BY <1>0, PageField
  <2>2. PageOK(q)
    BY <1>0, <2>1 DEF PageOK
  <2> QED
    BY <1>0, <1>6, <2>2, OnePage
<1>7. ASSUME NEW p \in Pages, Requeue(p) PROVE PagesType'
  BY <1>7, <1>6 DEF Requeue, Statuses
<1>8. ASSUME NEW w \in Publishers, AlreadyPublished(w) PROVE PagesType'
  <2>1. item[w].page \in Pages
    BY <1>0, <1>8 DEF AlreadyPublished, WorkType, Items
  <2> QED
    BY <1>8, <2>1, <1>6 DEF AlreadyPublished, Statuses
<1>9. ASSUME NEW w \in Publishers, Committed(w) PROVE PagesType'
  <2>1. attempts[att[w]].page \in Pages
    BY <1>0, <1>9 DEF Committed, WorkType, AttemptsType
  <2> QED
    BY <1>1, <1>9, <2>1, <1>6 DEF Committed, Statuses
<1>10. ASSUME NEW x \in Checkers, Confirm(x) PROVE PagesType'
  <2>1. attempts[check[x]].page \in Pages
    BY <1>0, <1>10 DEF Confirm, VerifType, AttemptsType
  <2> QED
    BY <1>1, <1>10, <2>1, <1>6 DEF Confirm, Statuses
<1> QED
  BY PagesChange, <1>1, <1>2, <1>3, <1>4, <1>5, <1>7, <1>8, <1>9, <1>10

\* An attempt, once reserved, keeps its page and its text.
AttemptOK(r) == r \in AttemptRow /\ (r.status # "free" => r.page \in Pages /\ r.text \in Texts)
AttemptKept(r, q) == r.status # "free" => /\ q.status # "free"
                                          /\ q.page = r.page /\ q.text = r.text
Kept == \A a \in Attempts : AttemptKept(attempts[a], attempts'[a])

LEMMA AttemptsAreRows ==
    AttemptsType <=> /\ attempts \in [Attempts -> AttemptRow]
                     /\ \A a \in Attempts : AttemptOK(attempts[a])
BY DEF AttemptsType, AttemptRow, AttemptOK

LEMMA OneAttempt ==
    ASSUME AttemptsType, NEW a \in Attempts, NEW r, AttemptOK(r), AttemptKept(attempts[a], r),
           attempts' = [attempts EXCEPT ![a] = r]
    PROVE  AttemptsType' /\ Kept
<1>1. /\ attempts' \in [Attempts -> AttemptRow]
      /\ \A b \in Attempts : AttemptOK(attempts'[b])
      /\ Kept
  BY AttemptsAreRows DEF AttemptOK, Kept, AttemptKept
<1> QED
  BY <1>1 DEF AttemptsType, AttemptRow, AttemptOK

LEMMA AttemptsStep == TypeOK /\ [Next]_vars => AttemptsType' /\ Kept
<1> SUFFICES ASSUME TypeOK, [Next]_vars PROVE AttemptsType' /\ Kept
  OBVIOUS
<1> USE PublicationAssumption DEF PublicationAssumption
<1>0. /\ PagesType /\ AttemptsType /\ WorkType /\ VerifType
      /\ pages \in [Pages -> PageRow]
      /\ attempts \in [Attempts -> AttemptRow] /\ \A a \in Attempts : AttemptOK(attempts[a])
      /\ \A a \in Attempts : attempts[a] \in AttemptRow
  BY PagesAreRows, AttemptsAreRows DEF TypeOK
<1>1. CASE UNCHANGED attempts
  BY <1>0, <1>1 DEF AttemptsType, Kept, AttemptKept
<1>2. ASSUME NEW a \in Attempts, attempts[a].status # "free",
             NEW s \in {"reserved", "awaiting_deploy", "published", "error"},
             attempts' = [attempts EXCEPT ![a] = [attempts[a] EXCEPT !.status = s]]
      PROVE  AttemptsType' /\ Kept
  <2> DEFINE q == [attempts[a] EXCEPT !.status = s]
  <2>1. /\ q \in AttemptRow /\ q.page = attempts[a].page /\ q.text = attempts[a].text
        /\ q.status = s
    <3>1. attempts[a] \in AttemptRow
      BY <1>0
    <3> QED
      BY <1>2, <3>1, AttemptField
  <2>2. AttemptOK(q) /\ AttemptKept(attempts[a], q)
    BY <1>0, <1>2, <2>1 DEF AttemptOK, AttemptKept
  <2> QED
    BY <1>0, <1>2, <2>2, OneAttempt
<1>3. ASSUME NEW w \in Publishers, Failed(w) PROVE AttemptsType' /\ Kept
  <2>1. att[w] \in Attempts /\ attempts[att[w]].status # "free"
    BY <1>0, <1>3 DEF Failed, WorkType
  <2> QED
    BY <1>2, <1>3, <2>1 DEF Failed
<1>4. ASSUME NEW w \in Publishers, Committed(w) PROVE AttemptsType' /\ Kept
  <2>1. att[w] \in Attempts /\ attempts[att[w]].status # "free"
    BY <1>0, <1>4 DEF Committed, WorkType
  <2> QED
    BY <1>2, <1>4, <2>1 DEF Committed
<1>5. ASSUME NEW x \in Checkers, Confirm(x) PROVE AttemptsType' /\ Kept
  <2>1. check[x] \in Attempts /\ attempts[check[x]].status # "free"
    BY <1>0, <1>5 DEF Confirm, VerifType
  <2> QED
    BY <1>2, <1>5, <2>1 DEF Confirm
<1>6. ASSUME NEW w \in Publishers, Reserved(w) PROVE AttemptsType' /\ Kept
  <2> DEFINE p == item[w].page
             q == NewAttempt("reserved", p, pages[p].text)
  <2>1. PICK a \in Attempts : /\ attempts[a].status = "free"
                              /\ attempts' = [attempts EXCEPT ![a] = q]
    BY <1>6 DEF Reserved
  <2>2. p \in Pages
    BY <1>0, <1>6 DEF Reserved, WorkType, Items
  <2>3. pages[p].text \in Texts
    BY <1>0, <1>6, <2>2 DEF Reserved, Publishable, PageRow, Texts
  <2>4. AttemptOK(q) /\ AttemptKept(attempts[a], q)
    BY <2>1, <2>2, <2>3 DEF AttemptOK, AttemptKept, NewAttempt, AttemptRow, InProgress, Texts
  <2> QED
    BY <1>0, <2>1, <2>4, OneAttempt
<1>7. ASSUME NEW a \in Attempts, DayPasses(a) PROVE AttemptsType' /\ Kept
  <2> DEFINE q == [attempts[a] EXCEPT !.recent = FALSE]
  <2>1. /\ q \in AttemptRow /\ q.page = attempts[a].page /\ q.text = attempts[a].text
        /\ q.status = attempts[a].status
    BY <1>0, AttemptField
  <2>2. AttemptOK(q) /\ AttemptKept(attempts[a], q)
    BY <1>0, <2>1 DEF AttemptOK, AttemptKept
  <2> QED
    BY <1>0, <1>7, <2>2, OneAttempt DEF DayPasses
<1> QED
  BY AttemptsChange, <1>1, <1>3, <1>4, <1>5, <1>6, <1>7

LEMMA VerifStep == TypeOK /\ [Next]_vars => VerifType' /\ found' \subseteq Pages \X Texts
<1> SUFFICES ASSUME TypeOK, [Next]_vars PROVE VerifType' /\ found' \subseteq Pages \X Texts
  OBVIOUS
<1> USE PublicationAssumption DEF PublicationAssumption
<1>0. AttemptsType /\ VerifType /\ found \subseteq Pages \X Texts /\ Kept
  BY AttemptsStep DEF TypeOK, HistType
<1>1. CASE UNCHANGED <<check, sees, found>>
  BY <1>0, <1>1 DEF VerifType, Kept, AttemptKept
<1>2. ASSUME NEW x \in Checkers, NEW a \in Attempts, BeginCheck(x, a)
      PROVE  VerifType' /\ found' \subseteq Pages \X Texts
  <2>1. attempts[a].status # "free"
    BY <1>2 DEF BeginCheck, InProgress
  <2> QED
    BY <1>0, <1>2, <2>1 DEF VerifType, BeginCheck, Kept, AttemptKept, hist
<1>3. ASSUME NEW x \in Checkers, FetchFinds(x)
      PROVE  VerifType' /\ found' \subseteq Pages \X Texts
  <2>1. check[x] \in Attempts /\ attempts[check[x]].status # "free"
    BY <1>0, <1>3 DEF FetchFinds, VerifType
  <2>2. <<attempts[check[x]].page, attempts[check[x]].text>> \in Pages \X Texts
    BY <1>0, <2>1 DEF AttemptsType
  <2>3. found' \subseteq Pages \X Texts
    BY <1>0, <1>3, <2>2 DEF FetchFinds
  <2> QED
    BY <1>0, <1>3, <2>3 DEF VerifType, FetchFinds, Kept, AttemptKept
<1>4. ASSUME NEW x \in Checkers, FetchMisses(x)
      PROVE  VerifType' /\ found' \subseteq Pages \X Texts
  BY <1>0, <1>4 DEF VerifType, FetchMisses, Kept, AttemptKept, hist
<1>5. ASSUME NEW x \in Checkers, Confirm(x)
      PROVE  VerifType' /\ found' \subseteq Pages \X Texts
  BY <1>0, <1>5 DEF VerifType, Confirm, Kept, AttemptKept, hist
<1>6. ASSUME NEW w \in Publishers, PublisherDies(w)
      PROVE  VerifType' /\ found' \subseteq Pages \X Texts
  BY <1>0, <1>6 DEF VerifType, PublisherDies, ForgetsCheck, Checkers, Kept, AttemptKept
<1>7. ASSUME NEW x \in Schedulers, SchedulerDies(x)
      PROVE  VerifType' /\ found' \subseteq Pages \X Texts
  BY <1>0, <1>7 DEF VerifType, SchedulerDies, ForgetsCheck, Checkers, Kept, AttemptKept
<1> QED
  BY VerifChange, <1>1, <1>2, <1>3, <1>4, <1>5, <1>6, <1>7

LEMMA WorldChange ==
    [Next]_vars =>
        \/ UNCHANGED <<manifest, remote, site, posts, flight>>
        \/ \E p \in Pages : Deploy(p)
        \/ \E w \in Publishers : \/ Written(w) \/ FoundUnowned(w) \/ WrittenUnrecorded(w)
                                 \/ RefusedButDone(w) \/ AnswerLost(w)
        \/ \E f \in flight : Arrives(f) \/ IsLost(f)
BY DEF Next, EditorNext, PublisherNext, CheckerNext, vars, tables, world, Approve, SendBack,
       BeginEdit, Rewrite, Score, Requeue, EndEdit,
       StartRun, SelectPages, TakePage, EndRun, ReserveRefused, AlreadyPublished, Reserved,
       StopBeforeSend, GoOn, WriteRefused, Failed, Committed, CommitRaises, NextPage, Lapse,
       PublisherDies, BeginCheck, FetchFinds, FetchMisses, Confirm, SchedulerDies, DayPasses

\* A write of the provider is well formed.
LEMMA TakesType ==
    ASSUME WorldType, NEW p \in Pages, NEW t \in Texts, NEW new \in BOOLEAN, Takes(p, t, new)
    PROVE  remote' \in [Pages -> 0 .. MaxText] /\ posts' \in [Pages -> Nat]
BY DEF WorldType, Takes, Texts

LEMMA WorldStep == TypeOK /\ [Next]_vars => WorldType'
<1> SUFFICES ASSUME TypeOK, [Next]_vars PROVE WorldType'
  OBVIOUS
<1>0. WorldType /\ WorkType
  BY DEF TypeOK
<1>1. CASE UNCHANGED <<manifest, remote, site, posts, flight>>
  BY <1>0, <1>1 DEF WorldType
<1>2. ASSUME NEW p \in Pages, Deploy(p) PROVE WorldType'
  BY <1>0, <1>2 DEF WorldType, Deploy, tables
<1>3. ASSUME NEW w \in Publishers, pc[w] = "put", SendsItem(w)
      PROVE  remote' \in [Pages -> 0 .. MaxText] /\ posts' \in [Pages -> Nat]
  <2>1. item[w].page \in Pages /\ item[w].text \in Texts
    BY <1>0, <1>3 DEF WorkType, Items
  <2>2. NewPost(w) \in BOOLEAN
    BY DEF NewPost
  <2> QED
    BY <1>0, <1>3, <2>1, <2>2, TakesType DEF SendsItem
<1>4. ASSUME NEW w \in Publishers, Written(w) PROVE WorldType'
  BY <1>0, <1>3, <1>4 DEF WorldType, Written
<1>5. ASSUME NEW w \in Publishers, FoundUnowned(w) PROVE WorldType'
  BY <1>0, <1>5 DEF WorldType, FoundUnowned, world
<1>6. ASSUME NEW w \in Publishers, WrittenUnrecorded(w) PROVE WorldType'
  BY <1>0, <1>3, <1>6 DEF WorldType, WrittenUnrecorded, tables
<1>7. ASSUME NEW w \in Publishers, RefusedButDone(w) PROVE WorldType'
  BY <1>0, <1>3, <1>7 DEF WorldType, RefusedButDone, tables
<1>8. ASSUME NEW w \in Publishers, AnswerLost(w) PROVE WorldType'
  <2>1. item[w].page \in Pages /\ item[w].text \in Texts /\ att[w] \in Attempts
    BY <1>0, <1>8 DEF AnswerLost, WorkType, Items
  <2>2. remote[item[w].page] \in 0 .. MaxText /\ NewPost(w) \in BOOLEAN
    BY <1>0, <2>1 DEF WorldType, NewPost
  <2> QED
    BY <1>0, <1>8, <2>1, <2>2 DEF WorldType, AnswerLost, tables
<1>9. ASSUME NEW f \in flight, Arrives(f) PROVE WorldType'
  <2>1. f.page \in Pages /\ f.text \in Texts /\ f.new \in BOOLEAN
    BY <1>0 DEF WorldType
  <2>2. remote' \in [Pages -> 0 .. MaxText] /\ posts' \in [Pages -> Nat]
    BY <1>0, <1>9, <2>1, TakesType DEF Arrives, WorldType
  <2> QED
    BY <1>0, <1>9, <2>2 DEF WorldType, Arrives, tables
<1>10. ASSUME NEW f \in flight, IsLost(f) PROVE WorldType'
  BY <1>0, <1>10 DEF WorldType, IsLost, tables
<1> QED
  BY WorldChange, <1>1, <1>2, <1>4, <1>5, <1>6, <1>7, <1>8, <1>9, <1>10

LEMMA HistStep == TypeOK /\ [Next]_vars => received' \subseteq Attempts /\ erred' \subseteq Attempts
                                            /\ doubt' \in BOOLEAN /\ faults' \in 0 .. MaxFaults
<1> SUFFICES ASSUME TypeOK, [Next]_vars
             PROVE  /\ received' \subseteq Attempts /\ erred' \subseteq Attempts
                    /\ doubt' \in BOOLEAN /\ faults' \in 0 .. MaxFaults
  OBVIOUS
<1> USE PublicationAssumption DEF PublicationAssumption
<1>0. WorldType /\ WorkType /\ HistType
  BY DEF TypeOK
<1>1. CASE UNCHANGED <<received, erred, doubt, faults>>
  BY <1>0, <1>1 DEF HistType
<1>2. Fault => faults' \in 0 .. MaxFaults
  BY <1>0 DEF HistType, Fault
<1>3. ASSUME NEW w \in Publishers,
             Written(w) \/ WrittenUnrecorded(w) \/ RefusedButDone(w) \/ AnswerLost(w) \/ Failed(w)
      PROVE  /\ received' \subseteq Attempts /\ erred' \subseteq Attempts
             /\ doubt' \in BOOLEAN /\ faults' \in 0 .. MaxFaults
  <2>1. att[w] \in Attempts
    BY <1>0, <1>3 DEF WorkType, Written, WrittenUnrecorded, RefusedButDone, AnswerLost, Failed
  <2>2. received' \subseteq Attempts /\ erred' \subseteq Attempts
    BY <1>0, <1>3, <2>1 DEF HistType, Written, WrittenUnrecorded, RefusedButDone,
       AnswerLost, Failed, SendsItem
  <2>3. doubt' \in BOOLEAN
    BY <1>0, <1>3 DEF HistType, Written, WrittenUnrecorded, RefusedButDone,
       AnswerLost, Failed
  <2>4. faults' = faults \/ Fault
    BY <1>3 DEF Written, WrittenUnrecorded, RefusedButDone, AnswerLost, Failed
  <2> QED
    BY <1>0, <1>2, <2>2, <2>3, <2>4 DEF HistType
<1>4. ASSUME NEW w \in Publishers, Lapse(w) \/ PublisherDies(w)
      PROVE  /\ received' \subseteq Attempts /\ erred' \subseteq Attempts
             /\ doubt' \in BOOLEAN /\ faults' \in 0 .. MaxFaults
  BY <1>0, <1>2, <1>4 DEF HistType, Lapse, PublisherDies
<1>5. ASSUME NEW x \in Schedulers, SchedulerDies(x)
      PROVE  /\ received' \subseteq Attempts /\ erred' \subseteq Attempts
             /\ doubt' \in BOOLEAN /\ faults' \in 0 .. MaxFaults
  BY <1>0, <1>2, <1>5 DEF HistType, SchedulerDies
<1>6. ASSUME NEW f \in flight, Arrives(f)
      PROVE  /\ received' \subseteq Attempts /\ erred' \subseteq Attempts
             /\ doubt' \in BOOLEAN /\ faults' \in 0 .. MaxFaults
  BY <1>0, <1>6 DEF WorldType, HistType, Arrives
<1>7. \/ UNCHANGED <<received, erred, doubt, faults>>
      \/ \E w \in Publishers : \/ Written(w) \/ WrittenUnrecorded(w) \/ RefusedButDone(w)
                               \/ AnswerLost(w) \/ Failed(w) \/ Lapse(w) \/ PublisherDies(w)
      \/ \E x \in Schedulers : SchedulerDies(x)
      \/ \E f \in flight : Arrives(f)
  BY DEF Next, EditorNext, PublisherNext, CheckerNext, vars, hist, Approve, SendBack,
       BeginEdit, Rewrite, Score, Requeue, EndEdit, Deploy,
       StartRun, SelectPages, TakePage, EndRun, ReserveRefused, AlreadyPublished, Reserved,
       StopBeforeSend, GoOn, WriteRefused, FoundUnowned, Committed, CommitRaises, NextPage,
       BeginCheck, FetchFinds, FetchMisses, Confirm, IsLost, DayPasses
<1> QED
  BY <1>1, <1>3, <1>4, <1>5, <1>6, <1>7

LEMMA WorkStep == TypeOK /\ [Next]_vars => WorkType'
<1> SUFFICES ASSUME TypeOK, [Next]_vars PROVE WorkType'
  OBVIOUS
<1> USE PublicationAssumption DEF PublicationAssumption
<1>0. WorkType /\ PagesType /\ AttemptsType /\ Kept
  BY AttemptsStep DEF TypeOK
<1>1. CASE UNCHANGED <<editing, work>>
  BY <1>0, <1>1 DEF WorkType, work, Kept, AttemptKept
<1>2. ASSUME editing' \in Pages \cup {NoPage}, UNCHANGED work PROVE WorkType'
  BY <1>0, <1>2 DEF WorkType, work, Kept, AttemptKept
<1>3. ASSUME NEW p \in Pages, BeginEdit(p) \/ Rewrite(p) \/ Score(p) \/ Requeue(p)
      PROVE  WorkType'
  BY <1>2, <1>3 DEF BeginEdit, Rewrite, Score, Requeue
<1>4. CASE EndEdit
  BY <1>2, <1>4 DEF EndEdit
<1>5. ASSUME NEW w \in Publishers, UNCHANGED editing, Leaves(w) PROVE WorkType'
  BY <1>0, <1>5 DEF WorkType, Leaves, Kept, AttemptKept
<1>6. ASSUME NEW w \in Publishers, UNCHANGED <<editing, batch, lapsed>>, Skips(w) PROVE WorkType'
  BY <1>0, <1>6 DEF WorkType, Skips, Kept, AttemptKept
\* A publisher that only moves on, with what it has.
<1>7. ASSUME NEW w \in Publishers,
             NEW c \in {"start", "next", "put", "fail", "commit", "verify"},
             c = "put" => item[w] \in Items,
             c \in {"put", "fail", "commit", "verify"} =>
                 att[w] \in Attempts /\ attempts[att[w]].status # "free",
             pc' = [pc EXCEPT ![w] = c], batch' \in [Publishers -> SUBSET Items],
             lapsed' \subseteq Publishers, UNCHANGED <<editing, item, att, known>>
      PROVE  WorkType'
  BY <1>0, <1>7 DEF WorkType, Kept, AttemptKept
<1>8. ASSUME NEW w \in Publishers, StartRun(w) PROVE WorkType'
  BY <1>0, <1>7, <1>8 DEF StartRun, WorkType
<1>9. ASSUME NEW w \in Publishers, SelectPages(w) PROVE WorkType'
  <2>1. \A q \in Pages : Publishable(q) => [page |-> q, text |-> pages[q].text] \in Items
    BY <1>0 DEF Publishable, PagesType, Items, Texts
  <2>2. batch' \in [Publishers -> SUBSET Items]
    BY <1>0, <1>9, <2>1 DEF SelectPages, WorkType
  <2> QED
    BY <1>0, <1>7, <1>9, <2>2 DEF SelectPages, WorkType
<1>10. ASSUME NEW w \in Publishers, TakePage(w) PROVE WorkType'
  <2>1. PICK i \in batch[w] :
          /\ batch' = [batch EXCEPT ![w] = @ \ {i}]
          /\ \/ UNCHANGED <<pc, item, known>>
             \/ /\ pc' = [pc EXCEPT ![w] = "reserve"]
                /\ item' = [item EXCEPT ![w] = i]
                /\ known' = [known EXCEPT ![w] = HasPost(i.page)]
    BY <1>10 DEF TakePage
  <2>2. i \in Items /\ batch' \in [Publishers -> SUBSET Items] /\ HasPost(i.page) \in BOOLEAN
    BY <1>0, <2>1 DEF WorkType, HasPost
  <2>3. UNCHANGED <<editing, att, lapsed>>
    BY <1>10 DEF TakePage
  <2>4. CASE UNCHANGED <<pc, item, known>>
    BY <1>0, <2>2, <2>3, <2>4 DEF WorkType, Kept, AttemptKept
  <2>5. CASE /\ pc' = [pc EXCEPT ![w] = "reserve"]
             /\ item' = [item EXCEPT ![w] = i]
             /\ known' = [known EXCEPT ![w] = HasPost(i.page)]
    BY <1>0, <2>2, <2>3, <2>5 DEF WorkType, Kept, AttemptKept
  <2> QED
    BY <2>1, <2>4, <2>5
<1>11. ASSUME NEW w \in Publishers,
              EndRun(w) \/ CommitRaises(w) \/ PublisherDies(w)
       PROVE  WorkType'
  BY <1>5, <1>6, <1>11 DEF EndRun, CommitRaises, PublisherDies
<1>12. ASSUME NEW w \in Publishers,
              ReserveRefused(w) \/ AlreadyPublished(w) \/ Failed(w) \/ NextPage(w)
       PROVE  WorkType'
  BY <1>6, <1>12 DEF ReserveRefused, AlreadyPublished, Failed, NextPage
<1>13. ASSUME NEW w \in Publishers, Reserved(w) PROVE WorkType'
  <2>1. PICK a \in Attempts :
          /\ attempts' = [attempts EXCEPT ![a] =
                            NewAttempt("reserved", item[w].page, pages[item[w].page].text)]
          /\ att' = [att EXCEPT ![w] = a]
    BY <1>13 DEF Reserved
  <2>2. attempts'[a].status # "free"
    BY <1>0, <2>1 DEF AttemptsType, NewAttempt
  <2>3. PICK c \in {"send", "fail"} : pc' = [pc EXCEPT ![w] = c]
    BY <1>13 DEF Reserved
  <2>4. item[w] \in Items
    BY <1>0, <1>13 DEF Reserved, WorkType
  <2>5. UNCHANGED <<editing, batch, item, known, lapsed>>
    BY <1>13 DEF Reserved
  <2> QED
    BY <1>0, <2>1, <2>2, <2>3, <2>4, <2>5 DEF WorkType, Kept, AttemptKept
<1>14. ASSUME NEW w \in Publishers, StopBeforeSend(w) PROVE WorkType'
  <2>1. batch' \in [Publishers -> SUBSET Items]
    BY <1>0, <1>14 DEF StopBeforeSend, WorkType
  <2> QED
    BY <1>0, <1>7, <1>14, <2>1 DEF StopBeforeSend, WorkType
<1>15. ASSUME NEW w \in Publishers, GoOn(w) PROVE WorkType'
  BY <1>0, <1>7, <1>15 DEF GoOn, WorkType
<1>16. ASSUME NEW w \in Publishers,
              Written(w) \/ WriteRefused(w) \/ WrittenUnrecorded(w) \/ RefusedButDone(w)
       PROVE  WorkType'
  BY <1>0, <1>7, <1>16 DEF Written, WriteRefused, WrittenUnrecorded, RefusedButDone, WorkType
<1>17. ASSUME NEW w \in Publishers, AnswerLost(w) PROVE WorkType'
  BY <1>0, <1>7, <1>17 DEF AnswerLost, WhenLost, WorkType
<1>18. ASSUME NEW w \in Publishers, FoundUnowned(w) PROVE WorkType'
  <2>1. CASE Leaves(w)
    BY <1>5, <1>18, <2>1 DEF FoundUnowned
  <2>2. CASE ~Leaves(w)
    BY <1>0, <1>7, <1>18, <2>2 DEF FoundUnowned, WorkType
  <2> QED
    BY <2>1, <2>2
<1>19. ASSUME NEW w \in Publishers, Committed(w) PROVE WorkType'
  BY <1>0, <1>7, <1>19 DEF Committed, WorkType
<1>20. ASSUME NEW w \in Publishers, Lapse(w) PROVE WorkType'
  BY <1>0, <1>20 DEF Lapse, WorkType, tables, Kept, AttemptKept
<1>21. \/ UNCHANGED <<editing, work>>
       \/ \E p \in Pages : BeginEdit(p) \/ Rewrite(p) \/ Score(p) \/ Requeue(p)
       \/ EndEdit
       \/ \E w \in Publishers : PublisherNext(w)
  BY DEF Next, EditorNext, CheckerNext, vars, work, Approve, SendBack, Deploy,
         BeginCheck, FetchFinds, FetchMisses, Confirm, SchedulerDies, Arrives, IsLost, DayPasses
<1>22. ASSUME NEW w \in Publishers, PublisherNext(w) PROVE WorkType'
  BY <1>8, <1>9, <1>10, <1>11, <1>12, <1>13, <1>14, <1>15, <1>16, <1>17, <1>18, <1>19, <1>20,
     <1>22 DEF PublisherNext
<1> QED
  BY <1>1, <1>3, <1>4, <1>21, <1>22

\* The type invariant is inductive, and holds: an approval is always that of the text
\* the page has, and publishers and verifications work on attempts that were reserved.
LEMMA TypeInit == Init => TypeOK
<1> SUFFICES ASSUME Init PROVE TypeOK
  OBVIOUS
<1> USE PublicationAssumption DEF PublicationAssumption, Init
<1>1. 0 \in 0 .. MaxText /\ 0 \in Nat /\ 0 \in 0 .. MaxFaults
  OBVIOUS
<1>2. PagesType
  BY <1>1 DEF PagesType, NewPage, Statuses
<1>3. AttemptsType
  BY <1>1 DEF AttemptsType, NewAttempt, InProgress
<1>4. WorldType
  BY <1>1 DEF WorldType
<1>5. WorkType
  BY DEF WorkType
<1>6. VerifType
  BY DEF VerifType
<1>7. HistType
  BY <1>1 DEF HistType
<1> QED
  BY <1>2, <1>3, <1>4, <1>5, <1>6, <1>7 DEF TypeOK

LEMMA TypeStep == TypeOK /\ [Next]_vars => TypeOK'
BY PagesStep, AttemptsStep, WorldStep, WorkStep, VerifStep, HistStep DEF TypeOK, HistType

THEOREM TypeCorrect == Spec => []TypeOK
BY TypeInit, TypeStep, PTL DEF Spec

-----------------------------------------------------------------------------
(* What is shown as published. *)

\* A published attempt was found on the public page, and so was what a process that
\* is about to publish saw there.
AttemptFound(a) == <<attempts[a].page, attempts[a].text>> \in found
FoundInv ==
    /\ \A a \in Attempts : attempts[a].status = "published" => AttemptFound(a)
    /\ \A x \in Checkers : sees[x] => AttemptFound(check[x])

LEMMA FoundGrows == [Next]_vars => found \subseteq found'
BY VerifChange DEF BeginCheck, FetchFinds, FetchMisses, Confirm, PublisherDies, SchedulerDies, hist

\* An attempt that was found remains one.
LEMMA FoundKept ==
    ASSUME TypeOK, [Next]_vars, NEW a \in Attempts, attempts[a].status # "free", AttemptFound(a)
    PROVE  AttemptFound(a)'
BY AttemptsStep, FoundGrows DEF Kept, AttemptKept, AttemptFound

LEMMA FoundStep == TypeOK /\ FoundInv /\ [Next]_vars => FoundInv'
<1> SUFFICES ASSUME TypeOK, FoundInv, [Next]_vars PROVE FoundInv'
  OBVIOUS
<1>0. AttemptsType /\ VerifType /\ WorkType
  BY DEF TypeOK
<1>1. ASSUME NEW a \in Attempts, attempts'[a].status = "published" PROVE AttemptFound(a)'
  <2>1. CASE attempts[a].status = "published"
    BY <2>1, FoundKept DEF FoundInv
  <2>2. CASE attempts[a].status # "published"
    <3>1. PICK x \in Checkers : Confirm(x) /\ check[x] = a
      <4>1. attempts[a] \in AttemptRow /\ attempts' # attempts
        BY <1>0, <1>1, <2>2, AttemptsAreRows
      <4>2. ASSUME NEW w \in Publishers, Reserved(w) PROVE FALSE
        BY <1>0, <1>1, <2>2, <4>2 DEF AttemptsType, Reserved, NewAttempt
      <4>3. ASSUME NEW w \in Publishers, Failed(w) PROVE FALSE
        BY <1>0, <1>1, <2>2, <4>3 DEF AttemptsType, Failed
      <4>4. ASSUME NEW w \in Publishers, Committed(w) PROVE FALSE
        BY <1>0, <1>1, <2>2, <4>4 DEF AttemptsType, Committed
      <4>5. ASSUME NEW b \in Attempts, DayPasses(b) PROVE FALSE
        BY <1>0, <1>1, <2>2, <4>5 DEF AttemptsType, DayPasses
      <4>6. ASSUME NEW x \in Checkers, Confirm(x), check[x] # a PROVE FALSE
        BY <1>0, <1>1, <2>2, <4>6 DEF AttemptsType, Confirm
      <4> QED
        BY <4>1, <4>2, <4>3, <4>4, <4>5, <4>6, AttemptsChange
    <3>2. AttemptFound(a) /\ attempts[a].status # "free"
      BY <1>0, <3>1 DEF FoundInv, Confirm, VerifType
    <3> QED
      BY <3>2, FoundKept
  <2> QED
    BY <2>1, <2>2
<1>2. ASSUME NEW x \in Checkers, sees'[x] PROVE AttemptFound(check[x])'
  <2>1. CASE sees[x] /\ check'[x] = check[x]
    <3>1. check[x] \in Attempts /\ attempts[check[x]].status # "free"
      BY <1>0, <2>1 DEF VerifType
    <3>2. AttemptFound(check[x])
      BY <2>1 DEF FoundInv
    <3>3. AttemptsType' /\ Kept /\ found \subseteq found'
      BY AttemptsStep, FoundGrows
    <3> QED
      BY <2>1, <3>1, <3>2, <3>3 DEF AttemptFound, Kept, AttemptKept
  <2>2. CASE FetchFinds(x)
    BY <1>0, <2>2 DEF FetchFinds, AttemptFound, VerifType, tables
  <2>3. (sees[x] /\ check'[x] = check[x]) \/ FetchFinds(x)
    BY <1>0, <1>2, VerifChange
       DEF VerifType, BeginCheck, FetchFinds, FetchMisses, Confirm, PublisherDies, SchedulerDies,
           ForgetsCheck, Checkers
  <2> QED
    BY <2>1, <2>2, <2>3
<1> QED
  BY <1>1, <1>2 DEF FoundInv

\* A published page is approved and was found: preserved by each step on pages.
LEMMA PublishedStep ==
    TypeOK /\ FoundInv /\ PublishedWasFound /\ [Next]_vars => PublishedWasFound'
<1> SUFFICES ASSUME TypeOK, FoundInv, PublishedWasFound, [Next]_vars,
                    NEW q \in Pages, pages'[q].status = "published"
             PROVE  pages'[q].approved = pages'[q].text /\ <<q, pages'[q].text>> \in found'
  BY DEF PublishedWasFound
<1>0. /\ PagesType /\ AttemptsType /\ WorkType /\ VerifType
      /\ pages \in [Pages -> PageRow] /\ found \subseteq found'
  BY PagesAreRows, FoundGrows DEF TypeOK
<1> DEFINE Same == /\ pages'[q].status = pages[q].status /\ pages'[q].text = pages[q].text
                   /\ pages'[q].approved = pages[q].approved
<1>1. CASE Same
  BY <1>0, <1>1 DEF PublishedWasFound
<1>2. ASSUME NEW w \in Publishers, AlreadyPublished(w), item[w].page = q
      PROVE  pages'[q].approved = pages'[q].text /\ <<q, pages'[q].text>> \in found'
  <2>1. pages'[q].approved = pages[q].approved /\ pages'[q].text = pages[q].text
    BY <1>0, <1>2 DEF AlreadyPublished, PageRow
  <2>2. <<q, pages[q].text>> \in found
    BY <1>2 DEF AlreadyPublished, PublishedAs, FoundInv, AttemptFound
  <2> QED
    BY <1>0, <1>2, <2>1, <2>2 DEF AlreadyPublished, Publishable
<1>3. ASSUME NEW x \in Checkers, Confirm(x), attempts[check[x]].page = q, ~Same
      PROVE  pages'[q].approved = pages'[q].text /\ <<q, pages'[q].text>> \in found'
  <2>1. pages'[q].approved = pages[q].approved /\ pages'[q].text = pages[q].text
    BY <1>0, <1>3 DEF Confirm, PageRow
  <2>2. /\ <<q, attempts[check[x]].text>> \in found
        /\ attempts[check[x]].text \in Texts
        /\ pages[q].approved = attempts[check[x]].text
    BY <1>0, <1>3 DEF Confirm, Shows, Approves, FoundInv, AttemptFound, VerifType, AttemptsType
  <2>3. pages[q].approved = pages[q].text
    BY <1>0, <2>2, PublicationAssumption DEF PublicationAssumption, PagesType, Texts
  <2> QED
    BY <1>0, <2>1, <2>2, <2>3
<1>4. \/ Same
      \/ \E w \in Publishers : AlreadyPublished(w) /\ item[w].page = q
      \/ \E x \in Checkers : Confirm(x) /\ attempts[check[x]].page = q
  <2>1. ASSUME NEW p \in Pages, Approve(p) \/ SendBack(p) \/ Requeue(p) PROVE Same
    BY <1>0, <2>1 DEF Approve, SendBack, Requeue, PageRow
  <2>2. ASSUME NEW p \in Pages, Rewrite(p) PROVE Same
    BY <1>0, <2>2 DEF Rewrite, Revoked, PageRow
  <2>3. ASSUME NEW w \in Publishers, Committed(w) PROVE Same
    BY <1>0, <2>3 DEF Committed, PageRow
  <2>4. ASSUME NEW w \in Publishers, AlreadyPublished(w), item[w].page # q
        PROVE  Same
    BY <1>0, <2>4 DEF AlreadyPublished
  <2>5. ASSUME NEW x \in Checkers, Confirm(x), attempts[check[x]].page # q
        PROVE  Same
    BY <1>0, <2>5 DEF Confirm
  <2>6. ASSUME NEW p \in Pages, Score(p) PROVE Same
    BY <1>0, <2>6 DEF Score, PageRow
  <2> QED
    BY <2>1, <2>2, <2>3, <2>4, <2>5, <2>6, PagesChange
<1> QED
  BY <1>1, <1>2, <1>3, <1>4

LEMMA PublicationInv == Spec => [](TypeOK /\ FoundInv /\ PublishedWasFound)
<1>1. Init => FoundInv /\ PublishedWasFound
  BY DEF Init, FoundInv, PublishedWasFound, NewPage, NewAttempt
<1> QED
  BY <1>1, TypeInit, TypeStep, FoundStep, PublishedStep, PTL DEF Spec

\* A page shown as published has its approved text, and that text was found on its
\* public URL, however late the verification that says so.
THEOREM PublishedWasFoundHolds == Spec => []PublishedWasFound
BY PublicationInv, PTL

-----------------------------------------------------------------------------
(* The pages implement ReviewedPages. *)

\* What a new row of one page is to the abstract specification.
LEMMA RowMapping ==
    ASSUME pages \in [Pages -> PageRow], NEW p \in Pages, NEW r,
           pages' = [pages EXCEPT ![p] = r]
    PROVE  /\ TextOf' = [TextOf EXCEPT ![p] = r.text]
           /\ ApprovedOf' = [ApprovedOf EXCEPT ![p] = r.approved # 0]
           /\ ShownOf' = [ShownOf EXCEPT ![p] = r.status = "published"]
BY DEF TextOf, ApprovedOf, ShownOf

LEMMA SameMapping ==
    ASSUME UNCHANGED pages
    PROVE  UNCHANGED <<TextOf, ApprovedOf, ShownOf>>
BY DEF TextOf, ApprovedOf, ShownOf

\* A change of the status alone.
LEMMA StatusMapping ==
    ASSUME pages \in [Pages -> PageRow], NEW p \in Pages, NEW s \in Statuses,
           pages' = [pages EXCEPT ![p].status = s]
    PROVE  /\ UNCHANGED <<TextOf, ApprovedOf>>
           /\ ShownOf' = [ShownOf EXCEPT ![p] = s = "published"]
<1> DEFINE r == [pages[p] EXCEPT !.status = s]
<1>1. r.text = pages[p].text /\ r.approved = pages[p].approved /\ r.status = s
  BY DEF PageRow
<1>2. pages' = [pages EXCEPT ![p] = r]
  OBVIOUS
<1>3. /\ TextOf' = [TextOf EXCEPT ![p] = r.text]
      /\ ApprovedOf' = [ApprovedOf EXCEPT ![p] = r.approved # 0]
      /\ ShownOf' = [ShownOf EXCEPT ![p] = r.status = "published"]
  BY <1>2, RowMapping
<1>4. TextOf[p] = pages[p].text /\ ApprovedOf[p] = (pages[p].approved # 0)
  BY DEF TextOf, ApprovedOf
<1> QED
  BY <1>1, <1>3, <1>4 DEF TextOf, ApprovedOf

LEMMA ReviewInit == Init => Review!Init
<1> SUFFICES ASSUME Init PROVE Review!Init
  OBVIOUS
<1>1. \A p \in Pages : /\ pages[p].text = 0 /\ pages[p].approved = 0
                       /\ pages[p].status = "draft"
  BY DEF Init, NewPage
<1>2. TextOf = [p \in Pages |-> 0]
  BY <1>1 DEF TextOf
<1>3. ApprovedOf = [p \in Pages |-> FALSE]
  BY <1>1, Zenon DEF ApprovedOf
<1>4. ShownOf = [p \in Pages |-> FALSE]
  <2>1. \A p \in Pages : (pages[p].status = "published") = FALSE
    BY <1>1
  <2> QED
    BY <2>1, Zenon DEF ShownOf
<1> QED
  BY <1>2, <1>3, <1>4 DEF Init, Review!Init

LEMMA ReviewStep ==
    TypeOK /\ FoundInv /\ PublishedWasFound /\ [Next]_vars => [Review!Next]_(Review!vars)
<1> SUFFICES ASSUME TypeOK, FoundInv, PublishedWasFound, [Next]_vars
             PROVE  [Review!Next]_(Review!vars)
  OBVIOUS
<1> USE PublicationAssumption DEF PublicationAssumption
<1>0. /\ PagesType /\ AttemptsType /\ WorkType /\ VerifType
      /\ pages \in [Pages -> PageRow]
      /\ \A p \in Pages : pages[p] \in PageRow
  BY PagesAreRows DEF TypeOK
<1>1. CASE UNCHANGED pages
  <2>1. UNCHANGED <<TextOf, ApprovedOf, ShownOf>>
    BY <1>1, SameMapping
  <2>2. CASE UNCHANGED found
    BY <2>1, <2>2 DEF Review!vars
  <2>3. CASE found' # found
    <3>1. PICK x \in Checkers : FetchFinds(x)
      BY <2>3, VerifChange
         DEF BeginCheck, FetchMisses, Confirm, PublisherDies, SchedulerDies, hist
    <3>2. /\ attempts[check[x]].page \in Pages /\ attempts[check[x]].text \in 1 .. MaxText
          /\ found' = found \cup {<<attempts[check[x]].page, attempts[check[x]].text>>}
      BY <1>0, <3>1 DEF FetchFinds, VerifType, AttemptsType, Texts
    <3> QED
      BY <2>1, <3>2 DEF Review!Next, Review!See
  <2> QED
    BY <2>2, <2>3
<1>2. CASE UNCHANGED found /\ \E p \in Pages : Approve(p)
  <2>1. PICK p \in Pages : Approve(p)
    BY <1>2
  <2> DEFINE r == [pages[p] EXCEPT !.status = "ready", !.approved = pages[p].text]
  <2>2. pages' = [pages EXCEPT ![p] = r] /\ pages[p].text # 0
    BY <1>0, <2>1 DEF Approve, PageRow
  <2>3. r.text = pages[p].text /\ r.approved = pages[p].text /\ r.status = "ready"
    BY <1>0 DEF PageRow
  <2>4. /\ TextOf' = [TextOf EXCEPT ![p] = r.text]
        /\ ApprovedOf' = [ApprovedOf EXCEPT ![p] = r.approved # 0]
        /\ ShownOf' = [ShownOf EXCEPT ![p] = r.status = "published"]
    BY <1>0, <2>2, RowMapping
  <2>5. TextOf[p] = pages[p].text /\ TextOf' = TextOf
    BY <2>3, <2>4 DEF TextOf
  <2>6. Review!Review(p, TRUE)
    BY <1>2, <2>2, <2>3, <2>4, <2>5 DEF Review!Review
  <2> QED
    BY <2>6 DEF Review!Next
<1>3. CASE UNCHANGED found /\ \E p \in Pages : SendBack(p)
  <2>1. PICK p \in Pages : SendBack(p)
    BY <1>3
  <2> DEFINE r == [pages[p] EXCEPT !.status = "draft", !.good = FALSE, !.approved = 0]
  <2>2. pages' = [pages EXCEPT ![p] = r]
    BY <1>0, <2>1 DEF SendBack, PageRow
  <2>3. r.text = pages[p].text /\ r.approved = 0 /\ r.status = "draft"
    BY <1>0 DEF PageRow
  <2>4. /\ TextOf' = [TextOf EXCEPT ![p] = r.text]
        /\ ApprovedOf' = [ApprovedOf EXCEPT ![p] = r.approved # 0]
        /\ ShownOf' = [ShownOf EXCEPT ![p] = r.status = "published"]
    BY <1>0, <2>2, RowMapping
  <2>5. TextOf' = TextOf
    BY <2>3, <2>4 DEF TextOf
  <2>6. Review!Review(p, FALSE)
    BY <1>3, <2>3, <2>4, <2>5 DEF Review!Review
  <2> QED
    BY <2>6 DEF Review!Next
<1>4. CASE UNCHANGED found /\ \E p \in Pages : Rewrite(p)
  <2>1. PICK p \in Pages : Rewrite(p)
    BY <1>4
  <2>2. PICK t \in Texts \ {pages[p].text}, s \in {"ready", pages[p].status} \ {"draft"} :
          pages' = [pages EXCEPT ![p] = Revoked(pages[p], t, s)]
    BY <2>1 DEF Rewrite
  <2> DEFINE r == Revoked(pages[p], t, s)
  <2>3. r.text = t /\ r.approved = 0 /\ r.status # "published"
    BY DEF Revoked
  <2>4. /\ TextOf' = [TextOf EXCEPT ![p] = r.text]
        /\ ApprovedOf' = [ApprovedOf EXCEPT ![p] = r.approved # 0]
        /\ ShownOf' = [ShownOf EXCEPT ![p] = r.status = "published"]
    BY <1>0, <2>2, RowMapping
  <2>5. TextOf[p] # t /\ t \in 1 .. MaxText
    BY <2>2 DEF TextOf, Texts
  <2>6. Review!Change(p)
    BY <1>4, <2>3, <2>4, <2>5 DEF Review!Change
  <2> QED
    BY <2>6 DEF Review!Next
<1>5. CASE UNCHANGED found /\ \E p \in Pages : Score(p)
  <2>1. PICK p \in Pages : Score(p)
    BY <1>5
  <2>2. UNCHANGED <<TextOf, ApprovedOf, ShownOf>>
    BY <1>0, <2>1 DEF Score, PageRow, TextOf, ApprovedOf, ShownOf
  <2> QED
    BY <1>5, <2>2 DEF Review!vars
<1>6. ASSUME UNCHANGED found, NEW p \in Pages, NEW s \in Statuses \ {"published"},
             pages' = [pages EXCEPT ![p].status = s]
      PROVE  [Review!Next]_(Review!vars)
  <2>1. UNCHANGED <<TextOf, ApprovedOf>> /\ ShownOf' = [ShownOf EXCEPT ![p] = FALSE]
    BY <1>0, <1>6, StatusMapping
  <2>2. Review!Hide(p)
    BY <1>6, <2>1 DEF Review!Hide
  <2> QED
    BY <2>2 DEF Review!Next
<1>7. ASSUME UNCHANGED found, NEW p \in Pages, pages' = [pages EXCEPT ![p].status = "published"],
             pages[p].approved # 0, <<p, pages[p].text>> \in found
      PROVE  [Review!Next]_(Review!vars)
  <2>1. UNCHANGED <<TextOf, ApprovedOf>> /\ ShownOf' = [ShownOf EXCEPT ![p] = TRUE]
    BY <1>0, <1>7, StatusMapping DEF Statuses
  <2>2. ApprovedOf[p] /\ <<p, TextOf[p]>> \in found
    BY <1>7 DEF ApprovedOf, TextOf
  <2>3. Review!Show(p)
    BY <1>7, <2>1, <2>2 DEF Review!Show
  <2> QED
    BY <2>3 DEF Review!Next
<1>8. CASE UNCHANGED found /\ \E p \in Pages : Requeue(p)
  BY <1>6, <1>8 DEF Requeue, Statuses
<1>9. ASSUME UNCHANGED found, NEW w \in Publishers, AlreadyPublished(w)
      PROVE  [Review!Next]_(Review!vars)
  <2>1. item[w].page \in Pages
    BY <1>0, <1>9 DEF AlreadyPublished, WorkType, Items
  <2>2. pages[item[w].page].approved # 0
    BY <1>9 DEF AlreadyPublished, Publishable
  <2>3. <<item[w].page, pages[item[w].page].text>> \in found
    BY <1>9 DEF AlreadyPublished, PublishedAs, FoundInv, AttemptFound
  <2> QED
    BY <1>7, <1>9, <2>1, <2>2, <2>3 DEF AlreadyPublished
<1>10. ASSUME UNCHANGED found, NEW w \in Publishers, Committed(w)
       PROVE  [Review!Next]_(Review!vars)
  <2>1. attempts[att[w]].page \in Pages
    BY <1>0, <1>10 DEF Committed, WorkType, AttemptsType
  <2> QED
    BY <1>1, <1>6, <1>10, <2>1 DEF Committed, Statuses
<1>11. ASSUME NEW x \in Checkers, Confirm(x) PROVE [Review!Next]_(Review!vars)
  <2> DEFINE p == attempts[check[x]].page
             t == attempts[check[x]].text
  <2>1. p \in Pages /\ t \in Texts /\ <<p, t>> \in found /\ UNCHANGED found
    BY <1>0, <1>11 DEF Confirm, VerifType, AttemptsType, FoundInv, AttemptFound, hist
  <2>2. CASE pages[p].approved = t
    <3>1. pages[p].approved # 0 /\ pages[p].text = t
      BY <1>0, <2>1, <2>2 DEF PagesType, Texts
    <3> QED
      BY <1>7, <1>11, <2>1, <2>2, <3>1 DEF Confirm, Shows, Approves
  <2>3. CASE pages[p].approved # t
    BY <1>1, <1>11, <2>3 DEF Confirm, Shows, Approves
  <2> QED
    BY <2>2, <2>3
<1>12. \/ UNCHANGED pages
       \/ UNCHANGED found /\ \E p \in Pages : \/ Approve(p) \/ SendBack(p) \/ Rewrite(p)
                                              \/ Score(p) \/ Requeue(p)
       \/ UNCHANGED found /\ \E w \in Publishers : AlreadyPublished(w) \/ Committed(w)
       \/ \E x \in Checkers : Confirm(x)
  BY PagesChange DEF Approve, SendBack, Rewrite, Score, Requeue, AlreadyPublished, Committed, hist
<1> QED
  BY <1>1, <1>2, <1>3, <1>4, <1>5, <1>8, <1>9, <1>10, <1>11, <1>12

\* Approval and publication together implement ReviewedPages: a page is shown as
\* published only while its text is approved and was seen on the public site.
THEOREM ImplementsReviewedPages == Spec => ReviewSpec
BY PublicationInv, ReviewInit, ReviewStep, PTL DEF Spec, ReviewSpec, Review!Spec

-----------------------------------------------------------------------------
(* One attempt of a page is in progress. *)

LEMMA OneInProgressStep == TypeOK /\ OneInProgress /\ [Next]_vars => OneInProgress'
<1> SUFFICES ASSUME TypeOK, OneInProgress, [Next]_vars PROVE OneInProgress'
  OBVIOUS
<1>0. AttemptsType /\ WorkType /\ VerifType /\ Kept
  BY AttemptsStep DEF TypeOK
<1> DEFINE Going(a) == attempts[a].status \in {"reserved", "awaiting_deploy"}
\* Nothing new in progress.
<1>1. ASSUME \A a \in Attempts : Going(a)' => Going(a) PROVE OneInProgress'
  BY <1>0, <1>1 DEF OneInProgress, Kept, AttemptKept
\* One new attempt in progress, of a page that has no other.
<1>2. ASSUME NEW a \in Attempts,
             \A b \in Attempts \ {a} : /\ Going(b)' => Going(b)
                                       /\ Going(b) => attempts[b].page # attempts'[a].page
      PROVE  OneInProgress'
  BY <1>0, <1>2 DEF OneInProgress, Kept, AttemptKept
<1>3. CASE UNCHANGED attempts
  BY <1>1, <1>3
<1>4. ASSUME NEW w \in Publishers, Reserved(w) PROVE OneInProgress'
  <2>1. PICK a \in Attempts :
          /\ attempts[a].status = "free"
          /\ attempts' = [attempts EXCEPT ![a] =
                            NewAttempt("reserved", item[w].page, pages[item[w].page].text)]
    BY <1>4 DEF Reserved
  <2>2. attempts'[a].page = item[w].page
    BY <1>0, <2>1 DEF AttemptsType, NewAttempt
  <2>3. \A b \in Attempts : Going(b) => attempts[b].page # item[w].page
    BY <1>4 DEF Reserved, InProgressFor, InProgress
  <2>4. \A b \in Attempts \ {a} : attempts'[b] = attempts[b]
    BY <1>0, <2>1 DEF AttemptsType
  <2> QED
    BY <1>2, <2>2, <2>3, <2>4
<1>5. ASSUME NEW w \in Publishers, Failed(w) PROVE OneInProgress'
  BY <1>0, <1>1, <1>5 DEF Failed, AttemptsType, WorkType
<1>6. ASSUME NEW w \in Publishers, Committed(w) PROVE OneInProgress'
  <2>1. att[w] \in Attempts /\ attempts[att[w]].status # "free"
    BY <1>0, <1>6 DEF Committed, WorkType
  <2>2. attempts'[att[w]].page = attempts[att[w]].page
    BY <1>0, <2>1 DEF Kept, AttemptKept
  <2>3. \A b \in Attempts \ {att[w]} : Going(b) => attempts[b].page # attempts[att[w]].page
    BY <1>6 DEF Committed, Clash, InProgressFor, InProgress
  <2>4. \A b \in Attempts \ {att[w]} : attempts'[b] = attempts[b]
    BY <1>0, <1>6 DEF AttemptsType, Committed
  <2> QED
    BY <1>2, <2>1, <2>2, <2>3, <2>4
<1>7. ASSUME NEW x \in Checkers, Confirm(x) PROVE OneInProgress'
  BY <1>0, <1>1, <1>7 DEF Confirm, AttemptsType, VerifType
<1>8. ASSUME NEW a \in Attempts, DayPasses(a) PROVE OneInProgress'
  BY <1>0, <1>1, <1>8 DEF DayPasses, AttemptsType
<1> QED
  BY AttemptsChange, <1>3, <1>4, <1>5, <1>6, <1>7, <1>8

\* No page has two attempts in progress: the reservation and the index see to it,
\* also when a publisher commits an attempt that was settled meanwhile.
THEOREM OneInProgressHolds == Spec => []OneInProgress
<1>1. Init => OneInProgress
  BY DEF Init, OneInProgress, NewAttempt
<1> QED
  BY <1>1, TypeInit, TypeStep, OneInProgressStep, PTL DEF Spec

-----------------------------------------------------------------------------
(* A publisher sends what it reserved, and while it has its job, what is approved. *)

HasJob(w) == pc[w] # "off" /\ w \notin lapsed
\* A publisher with a job keeps the other writers out.
AloneInv == \A w \in Publishers : HasJob(w) => editing = NoPage
SendInv ==
    \A w \in Publishers : pc[w] \in {"send", "put"} =>
        /\ item[w].page = attempts[att[w]].page
        /\ item[w].text = attempts[att[w]].text
        /\ w \notin lapsed => pages[item[w].page].approved = item[w].text

LEMMA WorkChange ==
    [Next]_vars =>
        \/ UNCHANGED <<editing, work>>
        \/ \E p \in Pages : BeginEdit(p)
        \/ (\E p \in Pages : Rewrite(p) \/ Score(p) \/ Requeue(p)) \/ EndEdit
        \/ \E w \in Publishers : PublisherNext(w)
BY DEF Next, EditorNext, CheckerNext, vars, work, Approve, SendBack, Deploy,
       BeginCheck, FetchFinds, FetchMisses, Confirm, SchedulerDies, Arrives, IsLost, DayPasses

\* A publisher's step is its own: the others and the editor stay as they are.
OthersStay(w) ==
    /\ UNCHANGED editing
    /\ \A v \in Publishers \ {w} : /\ pc'[v] = pc[v] /\ item'[v] = item[v] /\ att'[v] = att[v]
                                   /\ known'[v] = known[v]
                                   /\ v \in lapsed' <=> v \in lapsed
    /\ w \in lapsed => w \in lapsed' \/ pc'[w] = "off"

LEMMA OneMoves ==
    ASSUME WorkType, NEW w \in Publishers, PublisherNext(w)
    PROVE  OthersStay(w) /\ (StartRun(w) \/ pc[w] # "off")
<1> USE DEF OthersStay, WorkType
<1>1. CASE StartRun(w)
  BY <1>1 DEF StartRun
<1>2. CASE SelectPages(w) \/ TakePage(w) \/ Reserved(w) \/ StopBeforeSend(w) \/ GoOn(w)
  BY <1>2 DEF SelectPages, TakePage, Reserved, StopBeforeSend, GoOn
<1>3. ASSUME pc[w] # "off", UNCHANGED editing, Leaves(w) PROVE OthersStay(w)
  BY <1>3 DEF Leaves
<1>4. ASSUME pc[w] # "off", UNCHANGED <<editing, lapsed>>, Skips(w) PROVE OthersStay(w)
  BY <1>4 DEF Skips
<1>5. CASE EndRun(w) \/ CommitRaises(w) \/ PublisherDies(w)
  BY <1>3, <1>4, <1>5 DEF EndRun, CommitRaises, PublisherDies
<1>6. CASE ReserveRefused(w) \/ AlreadyPublished(w) \/ Failed(w) \/ NextPage(w)
  BY <1>4, <1>6 DEF ReserveRefused, AlreadyPublished, Failed, NextPage
<1>7. CASE Written(w) \/ WriteRefused(w) \/ WrittenUnrecorded(w) \/ RefusedButDone(w) \/ AnswerLost(w)
  BY <1>7 DEF Written, WriteRefused, WrittenUnrecorded, RefusedButDone, AnswerLost
<1>8. CASE FoundUnowned(w)
  <2>1. CASE Leaves(w)
    BY <1>3, <1>8, <2>1 DEF FoundUnowned
  <2>2. CASE ~Leaves(w)
    BY <1>8, <2>2 DEF FoundUnowned
  <2> QED
    BY <2>1, <2>2
<1>9. CASE Committed(w)
  BY <1>9 DEF Committed
<1>10. CASE Lapse(w)
  BY <1>10 DEF Lapse
<1> QED
  BY <1>1, <1>2, <1>5, <1>6, <1>7, <1>8, <1>9, <1>10 DEF PublisherNext

LEMMA AloneStep == TypeOK /\ AloneInv /\ [Next]_vars => AloneInv'
<1> SUFFICES ASSUME TypeOK, AloneInv, [Next]_vars, NEW v \in Publishers, HasJob(v)'
             PROVE  editing' = NoPage
  BY DEF AloneInv
<1>0. WorkType
  BY DEF TypeOK
<1>1. CASE UNCHANGED <<editing, work>>
  BY <1>1 DEF AloneInv, HasJob, work
<1>2. ASSUME NEW p \in Pages, BeginEdit(p) PROVE editing' = NoPage
  BY <1>2 DEF BeginEdit, WriterActive, HasJob, work
<1>3. CASE (\E p \in Pages : Rewrite(p) \/ Score(p) \/ Requeue(p)) \/ EndEdit
  BY <1>3 DEF Rewrite, Score, Requeue, EndEdit
<1>4. ASSUME NEW w \in Publishers, PublisherNext(w) PROVE editing' = NoPage
  <2>1. OthersStay(w) /\ (StartRun(w) \/ pc[w] # "off")
    BY <1>0, <1>4, OneMoves
  <2>2. CASE v # w
    BY <2>1, <2>2 DEF OthersStay, HasJob, AloneInv
  <2>3. CASE v = w /\ StartRun(w)
    BY <2>3 DEF StartRun, WriterActive
  <2>4. CASE v = w /\ pc[w] # "off"
    BY <2>1, <2>4 DEF OthersStay, HasJob, AloneInv
  <2> QED
    BY <2>1, <2>2, <2>3, <2>4
<1> QED
  BY WorkChange, <1>1, <1>2, <1>3, <1>4

\* While a publisher has its job, approvals stay as they are.
LEMMA ApprovalsStay ==
    ASSUME TypeOK, AloneInv, [Next]_vars, NEW w \in Publishers, HasJob(w), NEW q \in Pages
    PROVE  pages'[q].approved = pages[q].approved
<1>0. /\ PagesType /\ AttemptsType /\ WorkType /\ VerifType
      /\ pages \in [Pages -> PageRow] /\ editing = NoPage
  BY PagesAreRows DEF TypeOK, AloneInv
<1> USE PublicationAssumption DEF PublicationAssumption
<1>1. ASSUME NEW p \in Pages, Approve(p) \/ SendBack(p) PROVE FALSE
  BY <1>1 DEF Approve, SendBack, MayReview, WriterActive, HasJob
<1>2. ASSUME NEW p \in Pages, Rewrite(p) \/ Score(p) \/ Requeue(p) PROVE FALSE
  BY <1>0, <1>2 DEF Rewrite, Score, Requeue
<1>3. ASSUME NEW v \in Publishers, AlreadyPublished(v) PROVE pages'[q].approved = pages[q].approved
  BY <1>0, <1>3 DEF AlreadyPublished, PageRow
<1>4. ASSUME NEW v \in Publishers, Committed(v) PROVE pages'[q].approved = pages[q].approved
  BY <1>0, <1>4 DEF Committed, PageRow
<1>5. ASSUME NEW x \in Checkers, Confirm(x) PROVE pages'[q].approved = pages[q].approved
  BY <1>0, <1>5 DEF Confirm, PageRow
<1> QED
  BY PagesChange, <1>1, <1>2, <1>3, <1>4, <1>5

LEMMA SendStep == TypeOK /\ AloneInv /\ SendInv /\ [Next]_vars => SendInv'
<1> SUFFICES ASSUME TypeOK, AloneInv, SendInv, [Next]_vars, NEW v \in Publishers,
                    pc'[v] \in {"send", "put"}
             PROVE  /\ item'[v].page = attempts'[att'[v]].page
                    /\ item'[v].text = attempts'[att'[v]].text
                    /\ v \notin lapsed' => pages'[item'[v].page].approved = item'[v].text
  BY DEF SendInv
<1>0. AttemptsType /\ WorkType /\ Kept
  BY AttemptsStep DEF TypeOK
\* A publisher that was there before, with what it had.
<1>1. ASSUME pc[v] \in {"send", "put"}, item'[v] = item[v], att'[v] = att[v],
             v \in lapsed => v \in lapsed'
      PROVE  /\ item'[v].page = attempts'[att'[v]].page
             /\ item'[v].text = attempts'[att'[v]].text
             /\ v \notin lapsed' => pages'[item'[v].page].approved = item'[v].text
  <2>1. att[v] \in Attempts /\ attempts[att[v]].status # "free" /\ item[v].page \in Pages
    BY <1>0, <1>1 DEF WorkType, Items
  <2>2. v \notin lapsed' => pages'[item[v].page].approved = pages[item[v].page].approved
    BY <1>1, <2>1, ApprovalsStay DEF HasJob
  <2> QED
    BY <1>0, <1>1, <2>1, <2>2 DEF SendInv, Kept, AttemptKept
<1>2. ASSUME NEW w \in Publishers, w # v, PublisherNext(w)
      PROVE  pc[v] = pc'[v] /\ item'[v] = item[v] /\ att'[v] = att[v] /\ (v \in lapsed => v \in lapsed')
  BY <1>0, <1>2, OneMoves DEF OthersStay
<1>3. CASE Reserved(v)
  <2> DEFINE p == item[v].page
  <2>1. PICK a \in Attempts :
          /\ attempts' = [attempts EXCEPT ![a] = NewAttempt("reserved", p, pages[p].text)]
          /\ att' = [att EXCEPT ![v] = a]
    BY <1>3 DEF Reserved
  <2>2. /\ pages[p].text = item[v].text /\ UNCHANGED <<pages, item>>
        /\ pages[p].approved = pages[p].text
    BY <1>0, <1>3 DEF Reserved, SameRevision, WorkType, Publishable
  <2>3. att'[v] = a /\ attempts'[a].page = p /\ attempts'[a].text = pages[p].text
    BY <1>0, <2>1 DEF WorkType, AttemptsType, NewAttempt
  <2> QED
    BY <2>2, <2>3
<1>4. CASE GoOn(v)
  BY <1>0, <1>1, <1>4 DEF GoOn
<1>5. CASE Lapse(v)
  BY <1>0, <1>1, <1>5 DEF Lapse
<1>6. ASSUME PublisherNext(v), ~Reserved(v), ~GoOn(v), ~Lapse(v) PROVE FALSE
  <2>1. ASSUME Leaves(v) PROVE FALSE
    BY <1>0, <2>1 DEF Leaves, WorkType
  <2>2. ASSUME Skips(v) PROVE FALSE
    BY <1>0, <2>2 DEF Skips, WorkType
  <2>3. CASE StartRun(v) \/ SelectPages(v) \/ TakePage(v) \/ StopBeforeSend(v)
    BY <1>0, <2>3 DEF StartRun, SelectPages, TakePage, StopBeforeSend, WorkType
  <2>4. CASE EndRun(v) \/ CommitRaises(v) \/ PublisherDies(v) \/ ReserveRefused(v)
             \/ AlreadyPublished(v) \/ Failed(v) \/ NextPage(v)
    BY <2>1, <2>2, <2>4 DEF EndRun, CommitRaises, PublisherDies, ReserveRefused,
       AlreadyPublished, Failed, NextPage
  <2>5. CASE Written(v) \/ WriteRefused(v) \/ WrittenUnrecorded(v) \/ RefusedButDone(v)
             \/ AnswerLost(v)
    BY <1>0, <2>5 DEF Written, WriteRefused, WrittenUnrecorded, RefusedButDone, AnswerLost,
       WhenLost, WorkType
  <2>6. CASE FoundUnowned(v)
    BY <1>0, <2>1, <2>6 DEF FoundUnowned, WorkType
  <2>7. CASE Committed(v)
    BY <1>0, <2>7 DEF Committed, WorkType
  <2> QED
    BY <1>6, <2>3, <2>4, <2>5, <2>6, <2>7 DEF PublisherNext
<1>7. CASE UNCHANGED work
  BY <1>1, <1>7 DEF work
<1>8. UNCHANGED work \/ \E w \in Publishers : PublisherNext(w)
  BY WorkChange DEF BeginEdit, Rewrite, Score, Requeue, EndEdit
<1> QED
  BY <1>1, <1>2, <1>3, <1>4, <1>5, <1>6, <1>7, <1>8

\* What a publisher sends is what it reserved; while it has its job it is the approved
\* text of the page, because jobs that write exclude each other and a reservation
\* closes the page to review.
THEOREM SendsApproved == Spec => []SendsWhatIsApproved
<1>1. Init => AloneInv /\ SendInv
  BY DEF Init, AloneInv, SendInv, HasJob
<1>2. SendInv => SendsWhatIsApproved
  BY DEF SendInv, SendsWhatIsApproved
<1> QED
  BY <1>1, <1>2, TypeInit, TypeStep, AloneStep, SendStep, PTL DEF Spec

-----------------------------------------------------------------------------
(* The daily limit. *)

\* The attempts WithinQuota counts, and those a reservation counts.
OfToday == {a \in Attempts \ erred :
               attempts[a].recent /\ attempts[a].status \in {"reserved", "awaiting_deploy", "published"}}
CountedToday == {a \in Attempts : attempts[a].status \in Counted /\ attempts[a].recent}
ErredInv == \A a \in Attempts : attempts[a].status = "error" => a \in erred

LEMMA ErredGrows == [Next]_vars => erred \subseteq erred'
BY ErredChange DEF Failed

LEMMA QuotaStep ==
    TypeOK /\ ErredInv /\ WithinQuota /\ [Next]_vars => ErredInv' /\ WithinQuota'
<1> SUFFICES ASSUME TypeOK, ErredInv, WithinQuota, [Next]_vars PROVE ErredInv' /\ WithinQuota'
  OBVIOUS
<1>0. AttemptsType /\ WorkType /\ VerifType /\ erred \subseteq erred'
  BY ErredGrows DEF TypeOK
<1>1. IsFiniteSet(OfToday) /\ IsFiniteSet(CountedToday) /\ OfToday \subseteq CountedToday
  <2>1. OfToday \subseteq Attempts /\ CountedToday \subseteq Attempts
    BY DEF OfToday, CountedToday
  <2> QED
    BY <2>1, PublicationAssumption, FS_Subset
       DEF PublicationAssumption, OfToday, CountedToday, Counted, InProgress
<1>2. MaxPerDay \in Nat /\ Cardinality(OfToday) <= MaxPerDay
  BY PublicationAssumption DEF PublicationAssumption, WithinQuota, OfToday
<1>3. ASSUME OfToday' \subseteq OfToday PROVE WithinQuota'
  <2>1. Cardinality(OfToday') <= Cardinality(OfToday) /\ IsFiniteSet(OfToday')
    BY <1>1, <1>3, FS_Subset
  <2>2. Cardinality(OfToday') \in Nat /\ Cardinality(OfToday) \in Nat
    BY <1>1, <2>1, FS_CardinalityType
  <2>3. Cardinality(OfToday') <= MaxPerDay
    BY <1>2, <2>1, <2>2
  <2> QED
    BY <2>3 DEF WithinQuota, OfToday
\* An attempt that was reserved before and is not younger now.
<1>4. ASSUME NEW a \in Attempts, attempts[a].status # "free",
             attempts'[a].recent => attempts[a].recent,
             \A b \in Attempts \ {a} : attempts'[b] = attempts[b],
             attempts'[a].status = "error" => a \in erred'
      PROVE  ErredInv' /\ WithinQuota'
  <2>1. ErredInv'
    BY <1>0, <1>4 DEF ErredInv
  <2>2. OfToday' \subseteq OfToday
    BY <1>0, <1>4 DEF OfToday, ErredInv, AttemptsType, InProgress
  <2> QED
    BY <1>3, <2>1, <2>2
<1>5. CASE UNCHANGED attempts
  <2>1. OfToday' \subseteq OfToday /\ ErredInv'
    BY <1>0, <1>5 DEF OfToday, ErredInv
  <2> QED
    BY <1>3, <2>1
<1>6. ASSUME NEW w \in Publishers, Failed(w) PROVE ErredInv' /\ WithinQuota'
  <2>1. att[w] \in Attempts /\ attempts[att[w]].status # "free"
    BY <1>0, <1>6 DEF Failed, WorkType
  <2> QED
    BY <1>0, <1>4, <1>6, <2>1 DEF Failed, AttemptsType
<1>7. ASSUME NEW w \in Publishers, Committed(w) PROVE ErredInv' /\ WithinQuota'
  <2>1. att[w] \in Attempts /\ attempts[att[w]].status # "free"
    BY <1>0, <1>7 DEF Committed, WorkType
  <2> QED
    BY <1>0, <1>4, <1>7, <2>1 DEF Committed, AttemptsType, ErredInv
<1>8. ASSUME NEW x \in Checkers, Confirm(x) PROVE ErredInv' /\ WithinQuota'
  <2>1. check[x] \in Attempts /\ attempts[check[x]].status # "free"
    BY <1>0, <1>8 DEF Confirm, VerifType
  <2> QED
    BY <1>0, <1>4, <1>8, <2>1 DEF Confirm, AttemptsType, ErredInv
<1>9. ASSUME NEW a \in Attempts, DayPasses(a) PROVE ErredInv' /\ WithinQuota'
  BY <1>0, <1>4, <1>9 DEF DayPasses, AttemptsType, ErredInv
\* A reservation adds one to what it counted, which was below the limit.
<1>10. ASSUME NEW w \in Publishers, Reserved(w) PROVE ErredInv' /\ WithinQuota'
  <2>1. PICK a \in Attempts :
          attempts' = [attempts EXCEPT ![a] =
                         NewAttempt("reserved", item[w].page, pages[item[w].page].text)]
    BY <1>10 DEF Reserved
  <2>2. \A b \in Attempts \ {a} : attempts'[b] = attempts[b]
    BY <1>0, <2>1 DEF AttemptsType
  <2>3. attempts'[a].status = "reserved"
    BY <1>0, <2>1 DEF AttemptsType, NewAttempt
  <2>4. ErredInv'
    BY <1>0, <2>2, <2>3 DEF ErredInv
  <2>5. OfToday' \subseteq CountedToday \cup {a}
    BY <1>0, <2>2 DEF OfToday, CountedToday, Counted, InProgress
  <2>6. Cardinality(CountedToday) \in Nat /\ ~(Cardinality(CountedToday) >= MaxPerDay)
    BY <1>1, <1>10, FS_CardinalityType DEF Reserved, QuotaReached, CountedToday
  <2>7. /\ IsFiniteSet(CountedToday \cup {a})
        /\ Cardinality(CountedToday \cup {a}) <= Cardinality(CountedToday) + 1
    BY <1>1, <2>6, FS_AddElement
  <2>8. IsFiniteSet(OfToday') /\ Cardinality(OfToday') <= Cardinality(CountedToday \cup {a})
    BY <2>5, <2>7, FS_Subset
  <2>9. Cardinality(OfToday') \in Nat /\ Cardinality(CountedToday \cup {a}) \in Nat
    BY <2>7, <2>8, FS_CardinalityType
  <2>10. Cardinality(OfToday') <= MaxPerDay
    BY <1>2, <2>6, <2>7, <2>8, <2>9
  <2> QED
    BY <2>4, <2>10 DEF WithinQuota, OfToday
<1> QED
  BY AttemptsChange, <1>5, <1>6, <1>7, <1>8, <1>9, <1>10

\* The daily limit holds for every limit and any number of publishers: what settles or
\* resumes an attempt never counts more than its reservation did.
THEOREM QuotaHolds == Spec => []WithinQuota
<1>1. Init => ErredInv /\ WithinQuota
  <2> SUFFICES ASSUME Init PROVE ErredInv /\ WithinQuota
    OBVIOUS
  <2>1. OfToday = {} /\ ErredInv
    BY DEF Init, OfToday, ErredInv, NewAttempt
  <2>2. Cardinality(OfToday) = 0 /\ MaxPerDay \in Nat
    BY <2>1, FS_EmptySet, PublicationAssumption DEF PublicationAssumption
  <2> QED
    BY <2>1, <2>2 DEF WithinQuota, OfToday
<1> QED
  BY <1>1, TypeInit, TypeStep, QuotaStep, PTL DEF Spec

-----------------------------------------------------------------------------
(* A page becomes one post.                                                  *)

Going(a) == attempts[a].status \in InProgress
\* A further reservation of the page is refused: one is in progress, or published with
\* the text that is approved.
Occupied(p) ==
    \E a \in Attempts :
        /\ attempts[a].page = p
        /\ attempts[a].status \in InProgress \cup {"published"}
        /\ pages[p].approved \in {0, attempts[a].text}

\* Nobody lapsed, and one writer is at work.
OneWriter ==
    /\ lapsed = {}
    /\ \A w \in Publishers : pc[w] # "off" =>
           editing = NoPage /\ \A v \in Publishers : pc[v] # "off" => v = w
\* What is on its way is what is approved, if anything is.
GoingApproved ==
    /\ \A a \in Attempts : Going(a) => pages[attempts[a].page].approved \in {0, attempts[a].text}
    /\ \A w \in Publishers : pc[w] \in {"send", "put", "commit"} =>
           pages[attempts[att[w]].page].approved \in {0, attempts[att[w]].text}
\* What is stored, served or found was posted.
PostedOnce ==
    /\ \A p \in Pages : /\ posts[p] <= 1
                        /\ remote[p] # 0 \/ site[p] # 0 => posts[p] # 0
    /\ \A x \in Checkers : sees[x] => posts[attempts[check[x]].page] # 0
\* A request for a new post that may still arrive keeps its attempt in progress, and is
\* the only one for its page, which has no post.
FlightInv ==
    \A f \in flight :
        /\ ~f.new => posts[f.page] # 0
        /\ f.new =>
             /\ posts[f.page] = 0 /\ Going(f.att) /\ attempts[f.att].page = f.page
             /\ \A w \in Publishers : pc[w] \in {"send", "put", "fail"} => att[w] # f.att
             /\ \A g \in flight : g.new /\ g.page = f.page => g = f
\* What a lookup said is still true, or no reservation follows it.
LookInv ==
    \A w \in Publishers :
        /\ pc[w] \in {"reserve", "send", "put"} /\ known[w] => posts[item[w].page] # 0
        /\ pc[w] = "reserve" /\ ~known[w] /\ posts[item[w].page] # 0 => Occupied(item[w].page)
        /\ pc[w] \in {"send", "put"} /\ ~known[w] => posts[item[w].page] = 0 /\ Going(att[w])

PostInv == OneWriter /\ GoingApproved /\ PostedOnce /\ FlightInv /\ LookInv

\* A step of WordPress' publishers after which nothing is in doubt.
ClearStep ==
    /\ TypeOK /\ OneInProgress /\ SendInv /\ PostInv /\ [Next]_vars
    /\ ~GitHub /\ ~doubt'

\* Where the page in hand of a publisher comes from.
LEMMA PageInHand ==
    ASSUME TypeOK, [Next]_vars, NEW v \in Publishers,
           pc'[v] \in {"reserve", "send", "put", "fail", "commit"}
    PROVE  \/ TakePage(v) /\ pc'[v] = "reserve"
           \/ Reserved(v)
           \/ /\ item'[v] = item[v] /\ att'[v] = att[v] /\ known'[v] = known[v]
              /\ \/ pc'[v] = pc[v]
                 \/ pc[v] = "send" /\ pc'[v] \in {"put", "fail"}
                 \/ pc[v] = "put" /\ pc'[v] \in {"fail", "commit"}
<1>0. WorkType
  BY DEF TypeOK
<1>1. CASE UNCHANGED work
  BY <1>1 DEF work
<1>2. ASSUME NEW w \in Publishers, w # v, PublisherNext(w)
      PROVE  pc'[v] = pc[v] /\ item'[v] = item[v] /\ att'[v] = att[v] /\ known'[v] = known[v]
  BY <1>0, <1>2, OneMoves DEF OthersStay
<1>3. ASSUME Leaves(v) PROVE FALSE
  BY <1>0, <1>3 DEF Leaves, WorkType
<1>4. ASSUME Skips(v) PROVE FALSE
  BY <1>0, <1>4 DEF Skips, WorkType
<1>5. CASE EndRun(v) \/ CommitRaises(v) \/ PublisherDies(v) \/ ReserveRefused(v)
           \/ AlreadyPublished(v) \/ Failed(v) \/ NextPage(v)
  BY <1>3, <1>4, <1>5 DEF EndRun, CommitRaises, PublisherDies, ReserveRefused,
     AlreadyPublished, Failed, NextPage
<1>6. CASE StartRun(v) \/ SelectPages(v) \/ Committed(v)
  BY <1>0, <1>6 DEF StartRun, SelectPages, Committed, WorkType
<1>7. CASE TakePage(v)
  <2>1. pc[v] = "next" /\ (pc' = pc \/ pc' = [pc EXCEPT ![v] = "reserve"])
    BY <1>7 DEF TakePage
  <2> QED
    BY <1>0, <1>7, <2>1 DEF WorkType
<1>8. CASE StopBeforeSend(v) \/ GoOn(v)
  BY <1>0, <1>8 DEF StopBeforeSend, GoOn, WorkType
<1>9. CASE Written(v) \/ WriteRefused(v) \/ WrittenUnrecorded(v) \/ RefusedButDone(v)
           \/ AnswerLost(v)
  BY <1>0, <1>9 DEF Written, WriteRefused, WrittenUnrecorded, RefusedButDone, AnswerLost,
     WhenLost, WorkType
<1>10. CASE FoundUnowned(v)
  BY <1>0, <1>3, <1>10 DEF FoundUnowned, WorkType
<1>11. CASE Lapse(v)
  BY <1>11 DEF Lapse
<1>12. UNCHANGED work \/ \E w \in Publishers : PublisherNext(w)
  BY WorkChange DEF BeginEdit, Rewrite, Score, Requeue, EndEdit
<1>13. PublisherNext(v) => \/ TakePage(v) /\ pc'[v] = "reserve"
                           \/ Reserved(v)
                           \/ /\ item'[v] = item[v] /\ att'[v] = att[v] /\ known'[v] = known[v]
                              /\ \/ pc'[v] = pc[v]
                                 \/ pc[v] = "send" /\ pc'[v] \in {"put", "fail"}
                                 \/ pc[v] = "put" /\ pc'[v] \in {"fail", "commit"}
  BY <1>5, <1>6, <1>7, <1>8, <1>9, <1>10, <1>11 DEF PublisherNext
<1> QED
  BY <1>1, <1>2, <1>12, <1>13

\* While nothing is in doubt, few steps touch the world.
LEMMA WorldClear ==
    ASSUME ClearStep
    PROVE  \/ UNCHANGED <<remote, site, posts, flight>>
           \/ \E p \in Pages : Deploy(p)
           \/ \E w \in Publishers : Written(w) \/ AnswerLost(w)
           \/ \E f \in flight : Arrives(f) \/ IsLost(f)
BY WorldChange DEF ClearStep, FoundUnowned, Unowned, WrittenUnrecorded, RefusedButDone

LEMMA OneWriterStep == ClearStep => OneWriter'
<1> SUFFICES ASSUME ClearStep PROVE OneWriter'
  OBVIOUS
<1>0. WorkType /\ OneWriter /\ [Next]_vars /\ ~doubt'
  BY DEF ClearStep, TypeOK, PostInv
<1>1. ASSUME NEW w \in Publishers, PublisherNext(w) PROVE lapsed' = {}
  <2>1. ~Lapse(w)
    BY <1>0 DEF Lapse
  <2>2. Leaves(w) => lapsed' = {}
    BY <1>0 DEF Leaves, OneWriter
  <2>3. UNCHANGED lapsed => lapsed' = {}
    BY <1>0 DEF OneWriter
  <2>4. UNCHANGED lapsed \/ Leaves(w)
    BY <1>1, <2>1 DEF PublisherNext, StartRun, SelectPages, TakePage, EndRun, ReserveRefused,
       AlreadyPublished, Reserved, StopBeforeSend, GoOn, Written, WriteRefused, FoundUnowned,
       WrittenUnrecorded, RefusedButDone, AnswerLost, Failed, Committed, CommitRaises, NextPage,
       PublisherDies
  <2> QED
    BY <2>2, <2>3, <2>4
<1>2. lapsed' = {}
  <2>1. UNCHANGED work => lapsed' = {}
    BY <1>0 DEF work, OneWriter
  <2> QED
    BY <1>0, <1>1, <2>1, WorkChange DEF BeginEdit, Rewrite, Score, Requeue, EndEdit
<1>3. ASSUME NEW v \in Publishers, pc'[v] # "off"
      PROVE  editing' = NoPage /\ \A u \in Publishers : pc'[u] # "off" => u = v
  <2>1. CASE UNCHANGED <<editing, work>>
    BY <1>0, <1>3, <2>1 DEF OneWriter, work
  <2>2. ASSUME NEW p \in Pages, BeginEdit(p) PROVE FALSE
    BY <1>0, <1>3, <2>2 DEF BeginEdit, WriterActive, OneWriter, work
  <2>3. CASE (\E p \in Pages : Rewrite(p) \/ Score(p) \/ Requeue(p)) \/ EndEdit
    BY <1>0, <1>3, <2>3 DEF Rewrite, Score, Requeue, EndEdit, OneWriter, work
  <2>4. ASSUME NEW w \in Publishers, PublisherNext(w)
        PROVE  editing' = NoPage /\ \A u \in Publishers : pc'[u] # "off" => u = v
    <3>1. OthersStay(w) /\ (StartRun(w) \/ pc[w] # "off")
      BY <1>0, <2>4, OneMoves
    <3>2. editing = NoPage /\ \A u \in Publishers : pc[u] # "off" => u = w
      BY <1>0, <3>1 DEF OneWriter, StartRun, WriterActive
    <3> QED
      BY <1>3, <3>1, <3>2 DEF OthersStay
  <2> QED
    BY <1>0, <2>1, <2>2, <2>3, <2>4, WorkChange
<1> QED
  BY <1>2, <1>3 DEF OneWriter

\* An approval is given only to a page with nothing in progress, and no writer at work.
LEMMA ApprovalChange ==
    ASSUME ClearStep, NEW q \in Pages
    PROVE  \/ pages'[q].approved \in {0, pages[q].approved}
           \/ InProgressFor(q) = {} /\ ~WriterActive /\ UNCHANGED <<attempts, pc, att>>
<1>0. /\ PagesType /\ AttemptsType /\ WorkType /\ VerifType
      /\ pages \in [Pages -> PageRow] /\ [Next]_vars
  BY PagesAreRows DEF TypeOK, ClearStep
<1> USE PublicationAssumption DEF PublicationAssumption
<1>1. ASSUME NEW p \in Pages, Approve(p)
      PROVE  \/ pages'[q].approved = pages[q].approved
             \/ InProgressFor(q) = {} /\ ~WriterActive /\ UNCHANGED <<attempts, pc, att>>
  <2>1. CASE p = q
    BY <1>1, <2>1 DEF Approve, MayReview, work
  <2>2. CASE p # q
    BY <1>0, <1>1, <2>2 DEF Approve
  <2> QED
    BY <2>1, <2>2
<1>2. ASSUME NEW p \in Pages, SendBack(p) PROVE pages'[q].approved \in {0, pages[q].approved}
  BY <1>0, <1>2 DEF SendBack, PageRow
<1>3. ASSUME NEW p \in Pages, Rewrite(p) PROVE pages'[q].approved \in {0, pages[q].approved}
  BY <1>0, <1>3 DEF Rewrite, Revoked, PageRow
<1>4. ASSUME NEW p \in Pages, Score(p) \/ Requeue(p)
      PROVE pages'[q].approved \in {0, pages[q].approved}
  BY <1>0, <1>4 DEF Score, Requeue, PageRow
<1>5. ASSUME NEW v \in Publishers, AlreadyPublished(v)
      PROVE pages'[q].approved \in {0, pages[q].approved}
  BY <1>0, <1>5 DEF AlreadyPublished, PageRow
<1>6. ASSUME NEW v \in Publishers, Committed(v)
      PROVE pages'[q].approved \in {0, pages[q].approved}
  BY <1>0, <1>6 DEF Committed, PageRow
<1>7. ASSUME NEW x \in Checkers, Confirm(x) PROVE pages'[q].approved \in {0, pages[q].approved}
  BY <1>0, <1>7 DEF Confirm, PageRow
<1> QED
  BY <1>0, PagesChange, <1>1, <1>2, <1>3, <1>4, <1>5, <1>6, <1>7

\* What is sent, stays in progress until it fails or is found.
LEMMA GoingEnds ==
    ASSUME TypeOK, [Next]_vars, NEW a \in Attempts, Going(a), ~Going(a)'
    PROVE  \/ \E w \in Publishers : pc[w] = "fail" /\ att[w] = a
           \/ \E x \in Checkers : sees[x] /\ check[x] = a /\ attempts'[a].status = "published"
<1>0. AttemptsType /\ WorkType /\ VerifType
  BY DEF TypeOK
<1> USE DEF Going, InProgress
<1>1. CASE UNCHANGED attempts
  BY <1>1
<1>2. ASSUME NEW w \in Publishers, Reserved(w) PROVE FALSE
  BY <1>0, <1>2 DEF Reserved, NewAttempt, AttemptsType
<1>3. ASSUME NEW w \in Publishers, Failed(w) PROVE pc[w] = "fail" /\ att[w] = a
  BY <1>0, <1>3 DEF Failed, AttemptsType
<1>4. ASSUME NEW w \in Publishers, Committed(w) PROVE FALSE
  BY <1>0, <1>4 DEF Committed, AttemptsType
<1>5. ASSUME NEW x \in Checkers, Confirm(x)
      PROVE  sees[x] /\ check[x] = a /\ attempts'[a].status = "published"
  BY <1>0, <1>5 DEF Confirm, AttemptsType
<1>6. ASSUME NEW b \in Attempts, DayPasses(b) PROVE FALSE
  BY <1>0, <1>6 DEF DayPasses, AttemptsType
<1> QED
  BY AttemptsChange, <1>1, <1>2, <1>3, <1>4, <1>5, <1>6

LEMMA GoingBegins ==
    ASSUME TypeOK, [Next]_vars, NEW a \in Attempts, Going(a)'
    PROVE  \/ Going(a)
           \/ \E w \in Publishers : \/ Reserved(w) /\ att'[w] = a
                                    \/ pc[w] = "commit" /\ att[w] = a
<1>0. AttemptsType /\ WorkType /\ VerifType
  BY DEF TypeOK
<1> USE DEF Going, InProgress
<1>1. CASE UNCHANGED attempts
  BY <1>1
<1>2. ASSUME NEW w \in Publishers, Reserved(w) PROVE Going(a) \/ att'[w] = a
  BY <1>0, <1>2 DEF Reserved, NewAttempt, AttemptsType, WorkType
<1>3. ASSUME NEW w \in Publishers, Failed(w) PROVE Going(a)
  BY <1>0, <1>3 DEF Failed, AttemptsType
<1>4. ASSUME NEW w \in Publishers, Committed(w) PROVE Going(a) \/ (pc[w] = "commit" /\ att[w] = a)
  BY <1>0, <1>4 DEF Committed, AttemptsType
<1>5. ASSUME NEW x \in Checkers, Confirm(x) PROVE Going(a)
  BY <1>0, <1>5 DEF Confirm, AttemptsType
<1>6. ASSUME NEW b \in Attempts, DayPasses(b) PROVE Going(a)
  BY <1>0, <1>6 DEF DayPasses, AttemptsType
<1> QED
  BY AttemptsChange, <1>1, <1>2, <1>3, <1>4, <1>5, <1>6

\* A reservation takes a new attempt, of the approved text.
LEMMA NewReservation ==
    ASSUME TypeOK, NEW w \in Publishers, Reserved(w)
    PROVE  /\ pc[w] = "reserve" /\ pc'[w] \in {"send", "fail"}
           /\ item[w].page \in Pages /\ item' = item /\ known' = known /\ pages' = pages
           /\ att'[w] \in Attempts /\ attempts[att'[w]].status = "free"
           /\ attempts'[att'[w]].status = "reserved" /\ attempts'[att'[w]].page = item[w].page
           /\ attempts'[att'[w]].text = pages[item[w].page].text
           /\ pages[item[w].page].approved = pages[item[w].page].text
           /\ ~Occupied(item[w].page)
<1>0. AttemptsType /\ WorkType /\ PagesType
  BY DEF TypeOK
<1>1. PICK a \in Attempts :
        /\ attempts[a].status = "free"
        /\ attempts' = [attempts EXCEPT ![a] =
                          NewAttempt("reserved", item[w].page, pages[item[w].page].text)]
        /\ att' = [att EXCEPT ![w] = a]
  BY DEF Reserved
<1>2. item[w].page \in Pages
  BY <1>0 DEF Reserved, WorkType, Items
<1>3. att'[w] = a /\ attempts'[a] = NewAttempt("reserved", item[w].page, pages[item[w].page].text)
  BY <1>0, <1>1 DEF WorkType, AttemptsType
<1>4. pc[w] = "reserve" /\ pc'[w] \in {"send", "fail"}
  BY <1>0 DEF Reserved, WorkType
<1>5. /\ item' = item /\ known' = known /\ pages' = pages
      /\ pages[item[w].page].approved = pages[item[w].page].text
      /\ pages[item[w].page].text # 0
      /\ InProgressFor(item[w].page) = {}
      /\ ~PublishedAs(item[w].page, pages[item[w].page].text)
  BY DEF Reserved, Publishable
<1>6. ~Occupied(item[w].page)
  BY <1>5 DEF Occupied, InProgressFor, PublishedAs
<1> QED
  BY <1>1, <1>2, <1>3, <1>4, <1>5, <1>6 DEF NewAttempt

LEMMA GoingApprovedStep == ClearStep => GoingApproved'
<1> SUFFICES ASSUME ClearStep PROVE GoingApproved'
  OBVIOUS
<1>0. /\ TypeOK /\ AttemptsType /\ WorkType /\ [Next]_vars /\ GoingApproved /\ OneWriter /\ Kept
  BY AttemptsStep DEF ClearStep, TypeOK, PostInv
\* What was in progress, or in the hands of a publisher, keeps its approval.
<1>1. ASSUME NEW a \in Attempts, attempts[a].status # "free",
             pages[attempts[a].page].approved \in {0, attempts[a].text},
             \/ Going(a)
             \/ \E w \in Publishers : pc[w] # "off"
      PROVE  pages'[attempts'[a].page].approved \in {0, attempts'[a].text}
  <2>1. attempts[a].page \in Pages /\ attempts'[a].page = attempts[a].page
        /\ attempts'[a].text = attempts[a].text
    BY <1>0, <1>1 DEF AttemptsType, Kept, AttemptKept
  <2>2. ~(InProgressFor(attempts[a].page) = {} /\ ~WriterActive)
    BY <1>0, <1>1 DEF Going, InProgressFor, WriterActive, OneWriter
  <2>3. pages'[attempts[a].page].approved \in {0, pages[attempts[a].page].approved}
    BY <2>1, <2>2, ApprovalChange
  <2> QED
    BY <1>1, <2>1, <2>3
<1>2. ASSUME NEW w \in Publishers, Reserved(w)
      PROVE  pages'[attempts'[att'[w]].page].approved \in {0, attempts'[att'[w]].text}
  BY <1>0, <1>2, NewReservation
<1>3. ASSUME NEW a \in Attempts, Going(a)'
      PROVE  pages'[attempts'[a].page].approved \in {0, attempts'[a].text}
  <2>1. CASE Going(a)
    BY <1>0, <1>1, <2>1 DEF GoingApproved, Going, InProgress
  <2>2. ASSUME NEW w \in Publishers, Reserved(w), att'[w] = a
        PROVE  pages'[attempts'[a].page].approved \in {0, attempts'[a].text}
    BY <1>2, <2>2
  <2>3. ASSUME NEW w \in Publishers, pc[w] = "commit", att[w] = a
        PROVE  pages'[attempts'[a].page].approved \in {0, attempts'[a].text}
    <3>1. attempts[a].status # "free" /\ pages[attempts[a].page].approved \in {0, attempts[a].text}
      BY <1>0, <2>3 DEF WorkType, GoingApproved
    <3> QED
      BY <1>1, <2>3, <3>1
  <2> QED
    BY <1>0, <1>3, <2>1, <2>2, <2>3, GoingBegins
<1>4. ASSUME NEW w \in Publishers, pc'[w] \in {"send", "put", "commit"}
      PROVE  pages'[attempts'[att'[w]].page].approved \in {0, attempts'[att'[w]].text}
  <2>1. CASE Reserved(w)
    BY <1>2, <2>1
  <2>2. CASE ~Reserved(w)
    <3>1. att'[w] = att[w] /\ pc[w] \in {"send", "put", "commit"}
      BY <1>0, <1>4, <2>2, PageInHand
    <3>2. /\ att[w] \in Attempts /\ attempts[att[w]].status # "free"
          /\ pages[attempts[att[w]].page].approved \in {0, attempts[att[w]].text}
      BY <1>0, <3>1 DEF WorkType, GoingApproved
    <3> QED
      BY <1>1, <3>1, <3>2
  <2> QED
    BY <2>1, <2>2
<1> QED
  BY <1>3, <1>4 DEF GoingApproved

\* The writes of the world, in a clear step.
LEMMA WriteClear ==
    ASSUME ClearStep, NEW w \in Publishers, Written(w)
    PROVE  /\ pc[w] = "put" /\ pc'[w] = "commit" /\ item[w].page \in Pages
           /\ remote' = [remote EXCEPT ![item[w].page] = item[w].text]
           /\ posts' = [posts EXCEPT ![item[w].page] = IF known[w] THEN @ ELSE @ + 1]
           /\ UNCHANGED <<attempts, pages, site, flight, item, att, known, check, sees>>
<1>0. WorkType /\ ~GitHub
  BY DEF ClearStep, TypeOK
<1> QED
  BY <1>0 DEF Written, SendsItem, Takes, NewPost, verif, WorkType, Items

LEMMA LossClear ==
    ASSUME ClearStep, NEW w \in Publishers, AnswerLost(w)
    PROVE  /\ pc[w] = "put" /\ pc'[w] = "commit" /\ item[w].page \in Pages
           /\ flight' = flight \cup {[page |-> item[w].page, text |-> item[w].text, att |-> att[w],
                                      was |-> remote[item[w].page], new |-> ~known[w]]}
           /\ UNCHANGED <<attempts, pages, remote, site, posts, item, att, known, check, sees>>
<1>0. WorkType /\ ~GitHub
  BY DEF ClearStep, TypeOK
<1>1. NewPost(w) = ~known[w]
  BY <1>0 DEF NewPost
<1>2. pc[w] = "put" /\ item[w].page \in Pages
  BY <1>0 DEF AnswerLost, WorkType, Items
<1>3. pc'[w] = "commit"
  BY <1>0 DEF AnswerLost, WhenLost, WorkType
<1> QED
  BY <1>1, <1>2, <1>3 DEF AnswerLost, tables, verif

LEMMA ArrivalClear ==
    ASSUME ClearStep, NEW f \in flight, Arrives(f)
    PROVE  /\ f.page \in Pages /\ f.text \in Texts
           /\ flight' = flight \ {f}
           /\ remote' = [remote EXCEPT ![f.page] = f.text]
           /\ posts' = [posts EXCEPT ![f.page] = IF f.new THEN @ + 1 ELSE @]
           /\ UNCHANGED <<attempts, pages, site, pc, item, att, known, check, sees>>
<1>0. WorldType /\ ~GitHub
  BY DEF ClearStep, TypeOK
<1> QED
  BY <1>0 DEF Arrives, Takes, tables, work, verif, WorldType

\* A page in hand that the lookup did not find has no other request under way.
LEMMA NoneInFlight ==
    ASSUME ClearStep, NEW w \in Publishers, pc[w] \in {"send", "put"}, ~known[w],
           NEW f \in flight, f.new
    PROVE  f.page # item[w].page
<1>0. /\ TypeOK /\ WorkType /\ WorldType /\ OneInProgress /\ SendInv /\ FlightInv /\ LookInv
  BY DEF ClearStep, PostInv, TypeOK
<1>1. Going(f.att) /\ attempts[f.att].page = f.page /\ att[w] # f.att /\ f.att \in Attempts
  BY <1>0 DEF FlightInv, WorldType
<1>2. Going(att[w]) /\ attempts[att[w]].page = item[w].page /\ att[w] \in Attempts
  BY <1>0 DEF LookInv, SendInv, WorkType
<1> QED
  BY <1>0, <1>1, <1>2 DEF OneInProgress, Going, InProgress

\* Posts are never removed.
LEMMA PostsGrow ==
    ASSUME ClearStep, NEW p \in Pages
    PROVE  posts[p] \in Nat /\ posts'[p] \in Nat /\ posts'[p] >= posts[p]
<1>0. WorldType
  BY DEF ClearStep, TypeOK
<1>1. CASE UNCHANGED posts
  BY <1>0, <1>1 DEF WorldType
<1>2. ASSUME NEW w \in Publishers, Written(w)
      PROVE  posts[p] \in Nat /\ posts'[p] \in Nat /\ posts'[p] >= posts[p]
  BY <1>0, <1>2, WriteClear DEF WorldType
<1>3. ASSUME NEW f \in flight, Arrives(f)
      PROVE  posts[p] \in Nat /\ posts'[p] \in Nat /\ posts'[p] >= posts[p]
  BY <1>0, <1>3, ArrivalClear DEF WorldType
<1> QED
  BY <1>1, <1>2, <1>3, WorldClear DEF Deploy, AnswerLost, IsLost

LEMMA PostedOnceStep == ClearStep => PostedOnce'
<1> SUFFICES ASSUME ClearStep PROVE PostedOnce'
  OBVIOUS
<1>0. /\ TypeOK /\ WorldType /\ WorkType /\ VerifType /\ AttemptsType /\ [Next]_vars
      /\ PostedOnce /\ FlightInv /\ LookInv /\ Kept
  BY AttemptsStep DEF ClearStep, TypeOK, PostInv
<1> DEFINE Good(p) == posts[p] <= 1 /\ (remote[p] # 0 \/ site[p] # 0 => posts[p] # 0)
<1>1. ASSUME NEW p \in Pages PROVE Good(p)'
  <2>0. Good(p) /\ posts[p] \in Nat
    BY <1>0 DEF PostedOnce, WorldType
  <2>1. CASE UNCHANGED <<remote, site, posts, flight>>
    BY <2>0, <2>1
  <2>2. ASSUME NEW q \in Pages, Deploy(q) PROVE Good(p)'
    BY <1>0, <2>0, <2>2 DEF Deploy, WorldType
  <2>3. ASSUME NEW w \in Publishers, Written(w) PROVE Good(p)'
    <3>1. /\ pc[w] = "put" /\ item[w].page \in Pages /\ site' = site
          /\ remote' = [remote EXCEPT ![item[w].page] = item[w].text]
          /\ posts' = [posts EXCEPT ![item[w].page] = IF known[w] THEN @ ELSE @ + 1]
      BY <2>3, WriteClear
    <3>2. IF known[w] THEN posts[item[w].page] # 0 ELSE posts[item[w].page] = 0
      BY <1>0, <3>1 DEF LookInv
    <3>3. CASE p = item[w].page
      BY <1>0, <2>0, <3>1, <3>2, <3>3 DEF WorldType
    <3>4. CASE p # item[w].page
      BY <1>0, <2>0, <3>1, <3>4 DEF WorldType
    <3> QED
      BY <3>3, <3>4
  <2>4. ASSUME NEW w \in Publishers, AnswerLost(w) PROVE Good(p)'
    BY <2>0, <2>4, LossClear
  <2>5. ASSUME NEW f \in flight, Arrives(f) PROVE Good(p)'
    <3>1. /\ f.page \in Pages /\ site' = site
          /\ remote' = [remote EXCEPT ![f.page] = f.text]
          /\ posts' = [posts EXCEPT ![f.page] = IF f.new THEN @ + 1 ELSE @]
      BY <2>5, ArrivalClear
    <3>2. IF f.new THEN posts[f.page] = 0 ELSE posts[f.page] # 0
      BY <1>0 DEF FlightInv
    <3>3. CASE p = f.page
      BY <1>0, <2>0, <3>1, <3>2, <3>3 DEF WorldType
    <3>4. CASE p # f.page
      BY <1>0, <2>0, <3>1, <3>4 DEF WorldType
    <3> QED
      BY <3>3, <3>4
  <2>6. ASSUME NEW f \in flight, IsLost(f) PROVE Good(p)'
    BY <2>0, <2>6 DEF IsLost
  <2> QED
    BY <2>1, <2>2, <2>3, <2>4, <2>5, <2>6, WorldClear
<1>2. ASSUME NEW x \in Checkers, sees'[x] PROVE posts'[attempts'[check'[x]].page] # 0
  <2>1. CASE sees[x] /\ check'[x] = check[x]
    <3>1. /\ check[x] \in Attempts /\ attempts[check[x]].page \in Pages
          /\ attempts'[check[x]].page = attempts[check[x]].page
          /\ posts[attempts[check[x]].page] # 0
      BY <1>0, <2>1 DEF VerifType, AttemptsType, Kept, AttemptKept, PostedOnce
    <3> QED
      BY <2>1, <3>1, PostsGrow
  <2>2. CASE FetchFinds(x)
    <3>1. /\ check[x] \in Attempts /\ attempts[check[x]].page \in Pages
          /\ attempts[check[x]].text \in Texts
      BY <1>0, <2>2 DEF VerifType, AttemptsType, FetchFinds
    <3>2. /\ site[attempts[check[x]].page] = attempts[check[x]].text
          /\ attempts' = attempts /\ check' = check /\ posts' = posts
      BY <2>2 DEF FetchFinds, tables, world
    <3> QED
      BY <1>0, <3>1, <3>2 DEF PostedOnce, Texts
  <2>3. (sees[x] /\ check'[x] = check[x]) \/ FetchFinds(x)
    <3>1. CASE UNCHANGED <<check, sees, found>>
      BY <1>2, <3>1
    <3>2. ASSUME NEW y \in Checkers, NEW a \in Attempts, BeginCheck(y, a)
          PROVE  sees[x] /\ check'[x] = check[x]
      BY <1>0, <1>2, <3>2 DEF BeginCheck, VerifType
    <3>3. ASSUME NEW y \in Checkers, FetchFinds(y)
          PROVE  (sees[x] /\ check'[x] = check[x]) \/ FetchFinds(x)
      BY <1>0, <1>2, <3>3 DEF FetchFinds, VerifType
    <3>4. ASSUME NEW y \in Checkers, FetchMisses(y) PROVE sees[x] /\ check'[x] = check[x]
      BY <1>0, <1>2, <3>4 DEF FetchMisses, VerifType
    <3>5. ASSUME NEW y \in Checkers, ForgetsCheck(y) PROVE sees[x] /\ check'[x] = check[x]
      BY <1>0, <1>2, <3>5 DEF ForgetsCheck, VerifType
    <3>6. ASSUME NEW y \in Checkers, Confirm(y) PROVE sees[x] /\ check'[x] = check[x]
      BY <1>0, <1>2, <3>6 DEF Confirm, VerifType
    <3> QED
      BY <1>0, <3>1, <3>2, <3>3, <3>4, <3>5, <3>6, VerifChange
      DEF PublisherDies, SchedulerDies, Checkers
  <2> QED
    BY <2>1, <2>2, <2>3
<1> QED
  BY <1>1, <1>2 DEF PostedOnce

LEMMA FlightStep == ClearStep => FlightInv'
<1> SUFFICES ASSUME ClearStep PROVE FlightInv'
  OBVIOUS
<1>0. /\ TypeOK /\ WorldType /\ WorkType /\ VerifType /\ AttemptsType /\ [Next]_vars
      /\ PostedOnce /\ FlightInv /\ LookInv /\ SendInv /\ OneWriter' /\ Kept
  BY AttemptsStep, OneWriterStep DEF ClearStep, TypeOK, PostInv
<1>1. ASSUME NEW w \in Publishers, AnswerLost(w),
             NEW f, f = [page |-> item[w].page, text |-> item[w].text, att |-> att[w],
                         was |-> remote[item[w].page], new |-> ~known[w]]
      PROVE  /\ pc[w] = "put" /\ pc'[w] = "commit" /\ flight' = flight \cup {f}
             /\ f.page = item[w].page /\ f.page \in Pages /\ f.att = att[w] /\ (f.new <=> ~known[w])
             /\ \A g \in flight : g.new /\ f.new => g.page # f.page
             /\ UNCHANGED <<attempts, posts>>
  <2>1. /\ pc[w] = "put" /\ pc'[w] = "commit" /\ flight' = flight \cup {f}
        /\ UNCHANGED <<attempts, posts>> /\ item[w].page \in Pages
    BY <1>1, LossClear
  <2>2. f.page = item[w].page /\ f.att = att[w] /\ (f.new <=> ~known[w])
    BY <1>1
  <2> QED
    BY <2>1, <2>2, NoneInFlight
\* A request that was under way.
<1>2. ASSUME NEW f \in flight, f \in flight', f.new
      PROVE  /\ posts'[f.page] = 0 /\ Going(f.att)' /\ attempts'[f.att].page = f.page
             /\ \A w \in Publishers : pc'[w] \in {"send", "put", "fail"} => att'[w] # f.att
             /\ \A g \in flight' : g.new /\ g.page = f.page => g = f
  <2>0. /\ posts[f.page] = 0 /\ Going(f.att) /\ attempts[f.att].page = f.page
        /\ f.page \in Pages /\ f.att \in Attempts
        /\ \A w \in Publishers : pc[w] \in {"send", "put", "fail"} => att[w] # f.att
        /\ \A g \in flight : g.new /\ g.page = f.page => g = f
    BY <1>0, <1>2 DEF FlightInv, WorldType
  <2>1. posts'[f.page] = 0
    <3>1. ASSUME NEW w \in Publishers, Written(w) PROVE posts'[f.page] = 0
      <4>1. /\ posts' = [posts EXCEPT ![item[w].page] = IF known[w] THEN @ ELSE @ + 1]
            /\ pc[w] = "put" /\ item[w].page \in Pages
        BY <3>1, WriteClear
      <4>2. known[w] \/ f.page # item[w].page
        BY <1>2, <4>1, NoneInFlight
      <4> QED
        BY <1>0, <2>0, <4>1, <4>2 DEF WorldType
    <3>2. ASSUME NEW g \in flight, Arrives(g) PROVE posts'[f.page] = 0
      <4>1. /\ posts' = [posts EXCEPT ![g.page] = IF g.new THEN @ + 1 ELSE @]
            /\ flight' = flight \ {g} /\ g.page \in Pages
        BY <3>2, ArrivalClear
      <4>2. ~g.new \/ g.page # f.page
        BY <1>2, <2>0, <4>1
      <4> QED
        BY <1>0, <2>0, <4>1, <4>2 DEF WorldType
    <3>3. ASSUME NEW w \in Publishers, AnswerLost(w) PROVE posts' = posts
      BY <3>3, LossClear
    <3>4. ASSUME UNCHANGED posts PROVE posts'[f.page] = 0
      BY <2>0, <3>4
    <3> QED
      BY <3>1, <3>2, <3>3, <3>4, WorldClear DEF Deploy, IsLost
  <2>2. Going(f.att)'
    BY <1>0, <2>0, GoingEnds DEF PostedOnce
  <2>3. attempts'[f.att].page = f.page
    BY <1>0, <2>0 DEF Kept, AttemptKept, Going, InProgress
  <2>4. ASSUME NEW w \in Publishers, pc'[w] \in {"send", "put", "fail"} PROVE att'[w] # f.att
    <3>1. CASE Reserved(w)
      BY <1>0, <2>0, <3>1, NewReservation DEF Going, InProgress
    <3>2. CASE ~Reserved(w)
      BY <1>0, <2>0, <2>4, <3>2, PageInHand
    <3> QED
      BY <3>1, <3>2
  <2>5. ASSUME NEW g \in flight', g.new, g.page = f.page PROVE g = f
    <3>1. CASE g \in flight
      BY <2>0, <2>5, <3>1
    <3>2. ASSUME NEW w \in Publishers, AnswerLost(w) PROVE g \in flight
      <4>1. PICK r : r = [page |-> item[w].page, text |-> item[w].text, att |-> att[w],
                          was |-> remote[item[w].page], new |-> ~known[w]]
        OBVIOUS
      <4>2. flight' = flight \cup {r} /\ \A h \in flight : h.new /\ r.new => h.page # r.page
        BY <1>1, <3>2, <4>1
      <4> QED
        BY <1>2, <2>5, <4>2
    <3>3. CASE flight' \subseteq flight
      BY <3>1, <3>3
    <3>4. (\E w \in Publishers : AnswerLost(w)) \/ flight' \subseteq flight
      BY WorldClear, WriteClear, ArrivalClear DEF Deploy, IsLost
    <3> QED
      BY <3>1, <3>2, <3>3, <3>4
  <2> QED
    BY <2>1, <2>2, <2>3, <2>4, <2>5
<1>3. ASSUME NEW f \in flight, ~f.new PROVE posts'[f.page] # 0
  <2>1. f.page \in Pages /\ posts[f.page] # 0
    BY <1>0, <1>3 DEF FlightInv, WorldType
  <2> QED
    BY <2>1, PostsGrow
\* A new one.
<1>4. ASSUME NEW f \in flight', f \notin flight
      PROVE  /\ ~f.new => posts'[f.page] # 0
             /\ f.new =>
                  /\ posts'[f.page] = 0 /\ Going(f.att)' /\ attempts'[f.att].page = f.page
                  /\ \A v \in Publishers : pc'[v] \in {"send", "put", "fail"} => att'[v] # f.att
                  /\ \A g \in flight' : g.new /\ g.page = f.page => g = f
  <2>1. \E w \in Publishers : AnswerLost(w)
    BY <1>4, WorldClear, WriteClear, ArrivalClear DEF Deploy, IsLost
  <2>2. PICK w \in Publishers : AnswerLost(w)
    BY <2>1
  <2>3. f = [page |-> item[w].page, text |-> item[w].text, att |-> att[w],
             was |-> remote[item[w].page], new |-> ~known[w]]
    BY <1>4, <2>2, LossClear
  <2>4. /\ pc[w] = "put" /\ pc'[w] = "commit" /\ flight' = flight \cup {f}
        /\ f.page = item[w].page /\ f.att = att[w] /\ (f.new <=> ~known[w])
        /\ \A g \in flight : g.new /\ f.new => g.page # f.page
        /\ UNCHANGED <<attempts, posts>>
    BY <1>1, <2>2, <2>3
  <2>5. ~f.new => posts'[f.page] # 0
    BY <1>0, <2>4 DEF LookInv
  <2>6. f.new => /\ posts'[f.page] = 0 /\ Going(f.att) /\ attempts'[f.att].page = f.page
    BY <1>0, <2>4 DEF LookInv, SendInv
  <2>7. \A v \in Publishers : pc'[v] # "off" => v = w
    BY <1>0, <2>4 DEF OneWriter
  <2>8. \A v \in Publishers : pc'[v] \in {"send", "put", "fail"} => att'[v] # f.att
    BY <2>4, <2>7
  <2> QED
    BY <2>4, <2>5, <2>6, <2>8 DEF Going
<1>5. ASSUME NEW f \in flight'
      PROVE  /\ ~f.new => posts'[f.page] # 0
             /\ f.new =>
                  /\ posts'[f.page] = 0 /\ Going(f.att)' /\ attempts'[f.att].page = f.page
                  /\ \A v \in Publishers : pc'[v] \in {"send", "put", "fail"} => att'[v] # f.att
                  /\ \A g \in flight' : g.new /\ g.page = f.page => g = f
  BY <1>2, <1>3, <1>4
<1> QED
  BY <1>5 DEF FlightInv

\* A publisher at work keeps the page occupied.
LEMMA StaysOccupied ==
    ASSUME ClearStep, NEW v \in Publishers, pc[v] = "reserve", NEW p \in Pages, Occupied(p),
           ~Reserved(v)
    PROVE  Occupied(p)'
<1>0. /\ TypeOK /\ WorkType /\ AttemptsType /\ [Next]_vars /\ OneWriter /\ Kept
  BY AttemptsStep DEF ClearStep, TypeOK, PostInv
<1>1. PICK a \in Attempts : /\ attempts[a].page = p
                            /\ attempts[a].status \in InProgress \cup {"published"}
                            /\ pages[p].approved \in {0, attempts[a].text}
  BY DEF Occupied
<1>2. \A w \in Publishers : pc[w] # "off" => w = v
  BY <1>0 DEF OneWriter
<1>3. pages'[p].approved \in {0, pages[p].approved}
  BY <1>0, ApprovalChange DEF WriterActive, OneWriter
<1>4. attempts'[a].page = p /\ attempts'[a].text = attempts[a].text
  BY <1>0, <1>1 DEF Kept, AttemptKept, InProgress
<1>5. attempts'[a].status \in InProgress \cup {"published"}
  <2> USE DEF InProgress
  <2>1. CASE UNCHANGED attempts
    BY <1>1, <2>1
  <2>2. ASSUME NEW w \in Publishers, Reserved(w) \/ Failed(w) \/ Committed(w) PROVE FALSE
    BY <1>2, <2>2 DEF Reserved, Failed, Committed
  <2>3. ASSUME NEW x \in Checkers, Confirm(x)
        PROVE  attempts'[a].status \in InProgress \cup {"published"}
    BY <1>0, <1>1, <2>3 DEF Confirm, AttemptsType
  <2>4. ASSUME NEW b \in Attempts, DayPasses(b)
        PROVE  attempts'[a].status \in InProgress \cup {"published"}
    BY <1>0, <1>1, <2>4 DEF DayPasses, AttemptsType
  <2> QED
    BY <1>0, <2>1, <2>2, <2>3, <2>4, AttemptsChange
<1> QED
  BY <1>1, <1>3, <1>4, <1>5 DEF Occupied

LEMMA LookStep == ClearStep => LookInv'
<1> SUFFICES ASSUME ClearStep, NEW v \in Publishers, pc'[v] \in {"reserve", "send", "put"}
             PROVE  /\ known'[v] => posts'[item'[v].page] # 0
                    /\ pc'[v] = "reserve" /\ ~known'[v] /\ posts'[item'[v].page] # 0 =>
                         Occupied(item[v].page)'
                    /\ pc'[v] \in {"send", "put"} /\ ~known'[v] =>
                         posts'[item'[v].page] = 0 /\ Going(att[v])'
  BY DEF LookInv
<1>0. /\ TypeOK /\ WorldType /\ WorkType /\ VerifType /\ AttemptsType /\ [Next]_vars
      /\ GoingApproved /\ PostedOnce /\ FlightInv /\ LookInv /\ SendInv /\ OneWriter /\ Kept
  BY AttemptsStep DEF ClearStep, TypeOK, PostInv
<1>1. CASE TakePage(v) /\ pc'[v] = "reserve"
  <2>1. pc[v] = "next"
    BY <1>1 DEF TakePage
  <2>2. PICK i \in batch[v] : item' = [item EXCEPT ![v] = i]
                             /\ known' = [known EXCEPT ![v] = HasPost(i.page)]
    BY <1>1, <2>1 DEF TakePage
  <2>3. item'[v] = i /\ (known'[v] <=> posts[i.page] > 0) /\ i.page \in Pages
    <3>1. i \in Items
      BY <1>0 DEF WorkType
    <3>2. item'[v] = i
      BY <1>0, <2>2 DEF WorkType
    <3>3. known'[v] = HasPost(i.page)
      BY <1>0, <2>2 DEF WorkType
    <3> QED
      BY <3>1, <3>2, <3>3, Zenon DEF HasPost, Items
  <2>4. posts' = posts
    BY <1>1 DEF TakePage, world
  <2> QED
    BY <1>0, <1>1, <2>3, <2>4 DEF WorldType
<1>2. CASE Reserved(v)
  <2>1. posts' = posts
    BY <1>2 DEF Reserved, world
  <2> QED
    BY <1>0, <1>2, <2>1, NewReservation DEF LookInv, Going, InProgress
<1>3. ASSUME ~Reserved(v), item'[v] = item[v], att'[v] = att[v], known'[v] = known[v],
             pc'[v] = pc[v] \/ (pc[v] = "send" /\ pc'[v] = "put")
      PROVE  /\ known'[v] => posts'[item'[v].page] # 0
             /\ pc'[v] = "reserve" /\ ~known'[v] /\ posts'[item'[v].page] # 0 =>
                  Occupied(item[v].page)'
             /\ pc'[v] \in {"send", "put"} /\ ~known'[v] =>
                  posts'[item'[v].page] = 0 /\ Going(att[v])'
  <2> DEFINE p == item[v].page
  <2>0. p \in Pages /\ pc[v] \in {"reserve", "send", "put"}
    BY <1>0, <1>3 DEF WorkType, Items
  <2>1. \A w \in Publishers : pc[w] # "off" => w = v
    BY <1>0, <2>0 DEF OneWriter
  <2>2. known[v] => posts'[p] # 0
    BY <1>0, <2>0, PostsGrow DEF LookInv
  <2>3. ASSUME posts'[p] # posts[p]
        PROVE  \E f \in flight : Arrives(f) /\ f.new /\ f.page = p
    <3>1. ASSUME NEW w \in Publishers, Written(w) PROVE FALSE
      BY <1>3, <2>0, <2>1, <3>1, WriteClear
    <3>2. ASSUME NEW w \in Publishers, AnswerLost(w) PROVE posts' = posts
      BY <3>2, LossClear
    <3>3. ASSUME NEW f \in flight, Arrives(f) PROVE f.new /\ f.page = p
      BY <1>0, <2>0, <2>3, <3>3, ArrivalClear DEF WorldType
    <3> QED
      BY <2>3, <3>1, <3>2, <3>3, WorldClear DEF Deploy, IsLost
  <2>4. ASSUME pc[v] = "reserve", ~known[v], posts'[p] # 0 PROVE Occupied(p)'
    <3>1. Occupied(p)
      <4>1. CASE posts[p] # 0
        BY <1>0, <2>4, <4>1 DEF LookInv
      <4>2. CASE posts[p] = 0
        <5>1. PICK f \in flight : f.new /\ f.page = p
          BY <2>3, <2>4, <4>2
        <5>2. Going(f.att) /\ attempts[f.att].page = p /\ f.att \in Attempts
          BY <1>0, <5>1 DEF FlightInv, WorldType
        <5>3. pages[p].approved \in {0, attempts[f.att].text}
          BY <1>0, <5>2 DEF GoingApproved
        <5> QED
          BY <5>2, <5>3 DEF Occupied, Going
      <4> QED
        BY <4>1, <4>2
    <3> QED
      BY <1>3, <2>0, <2>4, <3>1, StaysOccupied
  <2>5. ASSUME pc[v] \in {"send", "put"}, ~known[v] PROVE posts'[p] = 0 /\ Going(att[v])'
    <3>1. posts[p] = 0 /\ Going(att[v]) /\ att[v] \in Attempts /\ attempts[att[v]].page = p
      BY <1>0, <2>5 DEF LookInv, WorkType, SendInv
    <3>2. posts'[p] = posts[p]
      BY <2>3, <2>5, NoneInFlight
    <3>3. ASSUME ~Going(att[v])' PROVE FALSE
      <4>1. ASSUME NEW w \in Publishers, pc[w] = "fail", att[w] = att[v] PROVE FALSE
        BY <2>1, <2>5, <4>1
      <4>2. ASSUME NEW x \in Checkers, sees[x], check[x] = att[v] PROVE FALSE
        BY <1>0, <3>1, <4>2 DEF PostedOnce
      <4>3. PICK a \in Attempts : a = att[v]
        BY <3>1
      <4>4. Going(a) /\ ~Going(a)'
        BY <1>3, <3>1, <3>3, <4>3 DEF Going
      <4> QED
        BY <1>0, <4>1, <4>2, <4>3, <4>4, GoingEnds
    <3> QED
      BY <3>1, <3>2, <3>3
  <2> QED
    BY <1>3, <2>0, <2>2, <2>4, <2>5
<1>4. ~Reserved(v) /\ ~(TakePage(v) /\ pc'[v] = "reserve") =>
        /\ item'[v] = item[v] /\ att'[v] = att[v] /\ known'[v] = known[v]
        /\ pc'[v] = pc[v] \/ (pc[v] = "send" /\ pc'[v] = "put")
  BY <1>0, PageInHand
<1> QED
  BY <1>1, <1>2, <1>3, <1>4

-----------------------------------------------------------------------------
\* GitHub's publishers create no post.
NoPosts == (\A p \in Pages : posts[p] = 0) /\ \A f \in flight : ~f.new

LEMMA NoPostsStep == TypeOK /\ GitHub /\ NoPosts /\ [Next]_vars => NoPosts'
<1> SUFFICES ASSUME TypeOK, GitHub, NoPosts, [Next]_vars PROVE NoPosts'
  OBVIOUS
<1>0. WorldType /\ WorkType
  BY DEF TypeOK
<1>1. ASSUME NEW w \in Publishers, SendsItem(w) PROVE UNCHANGED posts
  BY <1>0, <1>1 DEF SendsItem, Takes, NewPost, WorldType
<1>2. ASSUME NEW w \in Publishers, Written(w) \/ WrittenUnrecorded(w) \/ RefusedButDone(w)
      PROVE  NoPosts'
  BY <1>1, <1>2 DEF Written, WrittenUnrecorded, RefusedButDone, NoPosts
<1>3. ASSUME NEW w \in Publishers, AnswerLost(w) PROVE NoPosts'
  <2>1. NewPost(w) = FALSE
    BY DEF NewPost
  <2>2. posts' = posts
    BY <1>3 DEF AnswerLost
  <2>3. flight' = flight \cup {[page |-> item[w].page, text |-> item[w].text, att |-> att[w],
                                was |-> remote[item[w].page], new |-> FALSE]}
    BY <1>3, <2>1 DEF AnswerLost
  <2> QED
    BY <2>2, <2>3 DEF NoPosts
<1>4. ASSUME NEW f \in flight, Arrives(f) PROVE NoPosts'
  <2>1. posts' = posts
    BY <1>0, <1>4 DEF Arrives, NoPosts, Takes, WorldType
  <2> QED
    BY <1>4, <2>1 DEF Arrives, NoPosts
<1> QED
  BY <1>2, <1>3, <1>4, WorldChange DEF Deploy, FoundUnowned, world, IsLost, NoPosts

LEMMA DoubtStays == [Next]_vars /\ doubt => doubt'
BY DEF Next, EditorNext, PublisherNext, CheckerNext, vars, hist, Approve, SendBack,
       BeginEdit, Rewrite, Score, Requeue, Deploy, EndEdit,
       StartRun, SelectPages, TakePage, EndRun, ReserveRefused, AlreadyPublished, Reserved,
       StopBeforeSend, GoOn, Written, WriteRefused, FoundUnowned, WrittenUnrecorded,
       RefusedButDone, AnswerLost, Failed, Committed, CommitRaises, NextPage, Lapse,
       PublisherDies, BeginCheck, FetchFinds, FetchMisses, Confirm, SchedulerDies,
       Arrives, IsLost, DayPasses

\* A page is posted once: the lookup, the reservation and the attempt that an ambiguous
\* answer leaves in progress see to it together.
THEOREM CreatedOnceHolds == Spec => []CreatedOnce
<1> DEFINE Inv == IF GitHub THEN NoPosts ELSE ~doubt => PostInv
<1>1. Init => Inv
  BY DEF Init, NoPosts, PostInv, OneWriter, GoingApproved, PostedOnce, FlightInv, LookInv,
     Going, InProgress, NewAttempt, Checkers
<1>2. TypeOK /\ OneInProgress /\ SendInv /\ Inv /\ [Next]_vars => Inv'
  <2>1. TypeOK /\ OneInProgress /\ SendInv /\ PostInv /\ [Next]_vars /\ ~GitHub /\ ~doubt' => PostInv'
    BY OneWriterStep, GoingApprovedStep, PostedOnceStep, FlightStep, LookStep
    DEF ClearStep, PostInv
  <2> QED
    BY <2>1, NoPostsStep, DoubtStays
<1>3. Inv => CreatedOnce
  BY DEF CreatedOnce, NoPosts, PostInv, PostedOnce
<1>4. Spec => [](OneInProgress /\ SendInv)
  <2>1. Init => AloneInv /\ SendInv /\ OneInProgress
    BY DEF Init, AloneInv, SendInv, HasJob, OneInProgress, NewAttempt
  <2> QED
    BY <2>1, TypeInit, TypeStep, AloneStep, SendStep, OneInProgressStep, PTL DEF Spec
<1> QED
  BY <1>1, <1>2, <1>3, <1>4, TypeCorrect, PTL DEF Spec
=============================================================================
