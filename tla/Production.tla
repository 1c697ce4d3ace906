----------------------------- MODULE Production -----------------------------
(***************************************************************************)
(* The agents that plan pages (layer 2), write them (layer 3), review them *)
(* (layer 4) and send them (publishers, indexation).  Each operator is the *)
(* set of outcomes of one run on the facts d that comes to its own end: one*)
(* cut short, by an exception after it has stored a draft for one, is in   *)
(* Pipeline (Raises, Dies, Stops).  Where a run looks at the rows of other *)
(* agents, done is the set of agents whose row says "done".                *)
(***************************************************************************)
EXTENDS Facts

(* Planning *)

\* max_pages_cap counts drafts, ready and published pages; the plan's limit
\* counts them all and stops the run at the first page too many.
CapRoom(d) == LET n == Cardinality(In(d, {"draft", "ready", "published"}))
              IN  IF n >= PageCap THEN 0 ELSE PageCap - n

Fewer(m, n) == IF m < n THEN m ELSE n

PlansPages(d, n) ==
    {Done(e) : e \in Drafts(d, Fewer(n, Room(d)))}
      \union (IF n > Room(d) THEN {Failed(e) : e \in AtLimit(d)} ELSE {})

EeatArchitect(d) ==
    IF d.kw < Enough THEN {Idle(d)}
    ELSE {Failed(d)} \union PlansPages(d, CapRoom(d))

\* Malformed answers are replaced by built-in schemas, but an item of the FAQ
\* that is not a record ends the run.
SchemaEngineer(d) == IF d.kw < Few THEN {Idle(d)} ELSE {Failed(d), Done(d)}

\* At most MatrixBatch combinations of service and place a run; the model has fewer slots.
MatrixBatch == 200
VerticalMatrixGenerator(d, done) ==
    IF d.kw < Enough \/ "E-E-A-T Architect" \notin done THEN {Idle(d)}
    ELSE PlansPages(d, Fewer(MatrixBatch, CapRoom(d)))

(* Writing *)

\* The drafts of one batch: one if the scheduler said so, else up to ten.
ServerBatch == 10
BatchUnlimited(d) == ServerBatch                                           \* mutant

BatchSize(d) == IF d.one THEN 1 ELSE ServerBatch
Batches(d)   == {S \in SUBSET In(d, {"draft"}) : Cardinality(S) <= BatchSize(d)}

\* A page whose text came back empty stays a draft.  The trigger
\* revoke_changed_approval undoes the score stored together with the text.
Written(d, S) == WithPages(d, [s \in Slots |-> IF s \in S THEN [d.pages[s] EXCEPT !.at = "ready", !.score = "none", !.approved = FALSE]
                                               ELSE d.pages[s]])
ProgrammaticSeo(d, done) ==
    IF \/ d.kw < Enough
       \/ {"E-E-A-T Architect", "Schema Engineer"} \cap done = {}
       \/ In(d, {"draft"}) = {}
    THEN {Idle(d)}
    ELSE {Done(Written(d, S)) : S \in Batches(d)}

(* Reviewing *)

\* Both work on ready pages only, and only a page that is changed loses its approval.
ImprovesReady(d) == IF In(d, {"ready"}) = {} THEN {Idle(d)}
                    ELSE {Done(e) : e \in RewriteSome(d, In(d, {"ready"}))}
VisualContentOptimizer(d) == ImprovesReady(d)
GeoOptimizer(d)           == ImprovesReady(d)

\* Links go into published pages as well.
InternalLinker(d) == {Done(e) : e \in RewriteSome(d, In(d, {"ready", "published"}))}

\* A page below the threshold is passed over when the model does not answer,
\* rewritten (at most MaxRewrites times), or given its score.
BelowThreshold(d) == {s \in In(d, {"ready", "published"}) : d.pages[s].score # "good"}
Fixed(p)  == [Rewritten(p) EXCEPT !.at = "ready", !.tries = @ + 1]
Scores(p) == {[p EXCEPT !.score = n] : n \in {"low", "good"}}
Optimized(p) == IF p.tries = MaxRewrites THEN {p} ELSE {p, Fixed(p)} \union Scores(p)

ContentOptimizer(d) ==
    {Done(WithPages(d, f)) :
        f \in {g \in [Slots -> UNION {{d.pages[s]} \union Optimized(d.pages[s]) : s \in Slots}] :
                 \A s \in Slots : IF s \in BelowThreshold(d) THEN g[s] \in Optimized(d.pages[s])
                                  ELSE g[s] = d.pages[s]}}

(* Sending *)

\* An approved page is committed, or found as it already is, or left alone
\* (quota, foreign file, checks); any problem makes the run an error.
Sent(d, S, T) == WithPages(d, [s \in Slots |-> IF s \in S THEN [d.pages[s] EXCEPT !.at = "publishing"]
                                               ELSE IF s \in T THEN [d.pages[s] EXCEPT !.at = "published"]
                                               ELSE d.pages[s]])
Publisher(d) ==
    IF "publisher" \notin d.conf THEN {Skips(d)}
    ELSE LET sent == {Sent(d, S, T) : S, T \in SUBSET Approved(d)}
         IN  {Failed(e) : e \in sent} \union {Done(e) : e \in sent}

\* Nothing new is done; submissions that nobody acknowledged are an error.
IndexationAccelerator(d) == {Done(d), Failed(d)}
=============================================================================
