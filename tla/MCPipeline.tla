----------------------------- MODULE MCPipeline -----------------------------
(***************************************************************************)
(* Three tenants: one that starts from nothing, one whose first batch      *)
(* waits for its review, and one on a daily schedule with two drafts left. *)
(***************************************************************************)
EXTENDS Pipeline

Bounds(f, m, d) == [faults |-> f, moves |-> m, days |-> d]
Scored1 == [NewDraft EXCEPT !.at = "ready", !.score = "good"]

Exhausted == [Scored1 EXCEPT !.score = "low", !.tries = MaxRewrites]

\* At the end of a batch every keyword and competitor there is has been found.
Grown(conf, one, pages) ==
    [NewTenant(conf) EXCEPT !.kw = Enough, !.high = TRUE, !.rivals = TRUE, !.known = TRUE,
                            !.world = TRUE, !.one = one, !.pages = pages]

Written1 == {a \in Agents : a \notin {"Publisher", "Indexation Accelerator"} \union ToSet(Layer6)}

FirstBatch == {[db |-> NewTenant(c), done |-> {}, left |-> Bounds(1, 1, 0)] :
                 c \in {Settings, {"site", "publisher"}}}
InReview   == {[db |-> Grown(c, FALSE, p), done |-> Written1, left |-> Bounds(1, 2, 0)] :
                 c \in {Settings},
                 p \in {f \in [Slots -> {Scored1, NewDraft, Exhausted}] : \E s \in Slots : f[s] = Scored1}}
Scheduled  == {[db |-> Grown(Settings, FALSE, [s \in Slots |-> NewDraft]), done |-> Agents,
                left |-> Bounds(1, 1, 2)]}

MCBeginnings == FirstBatch \union InReview \union Scheduled
=============================================================================
