------------------------------- MODULE Facts -------------------------------
(***************************************************************************)
(* What the agents of one tenant find in the database and leave there, as  *)
(* far as the Pipeline Director, the scheduler and other agents act on it. *)
(*                                                                         *)
(* An agent is modelled by the set of outcomes its run may have: the       *)
(* status it leaves in its row and the facts it leaves in the database.    *)
(* An outcome whose facts changed and whose status is an error is a run    *)
(* that stopped half way.  "working" is a run that returned without a      *)
(* status, which the worker records as done.                               *)
(***************************************************************************)
EXTENDS Naturals, FiniteSets

CONSTANTS
    Slots,            \* the managed pages the model has room for
    PageLimit,        \* max_pages of the account's plan
    PageCap,          \* the setting max_pages_cap
    KeywordsLimited   \* can the account run into its plan's max_keywords?

ASSUME FactsAssumption ==
    /\ IsFiniteSet(Slots)
    /\ PageLimit \in Nat
    /\ PageCap \in Nat
    /\ KeywordsLimited \in BOOLEAN

\* Number of keywords, as the agents tell it apart: none, 1-4, 5-9, ten or more.
KwLevels == 0..3
Few      == 2
Enough   == 3

\* Keys and addresses an installation may have; "engine" is any AI
\* engine and "publisher" the credentials of the chosen publisher.
Settings == {"site", "competitors", "apify", "perplexity", "engine", "publisher"}

MaxRewrites == 3

PageStates == {"none", "draft", "ready", "publishing", "published"}
Page == [at: PageStates, score: {"none", "low", "good"}, approved: BOOLEAN, tries: 0..MaxRewrites]

Db == [kw: KwLevels,      \* keywords
       high: BOOLEAN,     \* is one of them of priority high?
       rivals: BOOLEAN,   \* a competitor of tier 1 or 2 with an address
       known: BOOLEAN,    \* any competitor
       bank: BOOLEAN,     \* an active query in geo_query_bank
       gaps: BOOLEAN,     \* a recent answer of Perplexity without the client
       world: BOOLEAN,    \* the setting world_state
       one: BOOLEAN,      \* generation_batch_size is 1
       conf: SUBSET Settings,
       pages: [Slots -> Page]]

NoPage   == [at |-> "none", score |-> "none", approved |-> FALSE, tries |-> 0]
NewDraft == [NoPage EXCEPT !.at = "draft"]

NewTenant(conf) ==
    [kw |-> 0, high |-> FALSE, rivals |-> FALSE, known |-> FALSE, bank |-> FALSE,
     gaps |-> FALSE, world |-> FALSE, one |-> FALSE, conf |-> conf,
     pages |-> [s \in Slots |-> NoPage]]

In(d, states) == {s \in Slots : d.pages[s].at \in states}

\* Pages that may be sent: reviewed as they are and scored at 70 or more.
Approved(d) == {s \in In(d, {"ready"}) : d.pages[s].approved /\ d.pages[s].score = "good"}

------------------------------------------------------------------------------
(* Outcomes *)

Outcome(status, d) == [status |-> status, db |-> d]
Done(d)   == Outcome("done", d)
Idle(d)   == Outcome("idle", d)
Failed(d) == Outcome("error", d)
Leaves(d) == Outcome("working", d)
Skips(d)  == Outcome("skipped", d)

------------------------------------------------------------------------------
(* Writes the agents share *)

\* add_keyword: new rows only; the trigger limit_keywords aborts an insertion.
Learns(d, n) == {[d EXCEPT !.kw = n], [d EXCEPT !.kw = n, !.high = TRUE]}
WithKeywords(d) == UNION {Learns(d, n) : n \in {m \in KwLevels : m >= d.kw}}
Keyworded(d) == {e \in WithKeywords(d) : e.high => e.kw > 0}
AddsKeywords(d) ==
    {Done(e) : e \in Keyworded(d)}
      \union (IF KeywordsLimited THEN {Failed(e) : e \in Keyworded(d)} ELSE {})

\* add_page: a draft where no gate stops it; the trigger limit_pages aborts.
Used(d)         == In(d, PageStates \ {"none"})
Room(d)         == IF Cardinality(Used(d)) >= PageLimit THEN 0
                   ELSE PageLimit - Cardinality(Used(d))
WithDrafts(d, S) == [d EXCEPT !.pages = [s \in Slots |->
                        IF s \in S THEN NewDraft ELSE d.pages[s]]]
Drafts(d, n)    == {WithDrafts(d, S) : S \in {T \in SUBSET In(d, {"none"}) : Cardinality(T) <= n}}
AtLimit(d)      == {e \in Drafts(d, Room(d)) : Room(e) = 0}

\* New content of a page: the trigger revoke_changed_approval takes back the
\* approval and the score, and a page shown as published is to be reviewed again.
RewrittenInPlace(p) == [p EXCEPT !.score = "none", !.approved = FALSE]     \* mutant

Rewritten(p) == [p EXCEPT !.score = "none", !.approved = FALSE,
                          !.at = IF @ = "published" THEN "ready" ELSE @]
WithPages(d, f) == [d EXCEPT !.pages = f]
RewriteSome(d, S) ==
    {WithPages(d, [s \in Slots |-> IF s \in T THEN Rewritten(d.pages[s]) ELSE d.pages[s]])
       : T \in SUBSET S}
=============================================================================
