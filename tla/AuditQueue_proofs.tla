--------------------------- MODULE AuditQueue_proofs ---------------------------
(***************************************************************************)
(* Proofs about AuditQueue: type correctness, finality, and the timing     *)
(* argument behind NoOverlap and WorkWithinLimit, for every Deadline below *)
(* Lease and any number of workers.                                        *)
(***************************************************************************)
EXTENDS AuditQueue, FiniteSetTheorems, TLAPS

-----------------------------------------------------------------------------
(* Types. *)

\* One field of a row at a time.
LEMMA RowField ==
    ASSUME NEW r \in JobRow
    PROVE  /\ \A s \in {"none", "queued", "running"} \cup Ended : [r EXCEPT !.state = s] \in JobRow
           /\ \A n \in 0 .. Lease : [r EXCEPT !.lease = n] \in JobRow
           /\ \A n \in 0 .. MaxAttempts : [r EXCEPT !.attempts = n] \in JobRow
BY DEF JobRow, Ended

LEMMA ReportField ==
    ASSUME NEW r \in ReportRow
    PROVE  /\ \A s \in {"running", "error"} : [r EXCEPT !.status = s] \in ReportRow
           /\ \A n \in {5, 50} : [r EXCEPT !.progress = n] \in ReportRow
BY DEF ReportRow

LEMMA WatchField ==
    ASSUME NEW r \in Watch
    PROVE  /\ \A s \in {"watching", "killed"} : [r EXCEPT !.stage = s] \in Watch
           /\ \A n \in 0 .. Deadline : [r EXCEPT !.left = n] \in Watch
BY DEF Watch

\* finish writes a well-formed row, or none.
LEMMA FinishType ==
    ASSUME TypeOK, NEW a \in Audits, NEW n \in 0 .. MaxAttempts, NEW s \in Ended,
           Finish(a, n, s)
    PROVE  jobs' \in [Audits -> JobRow] /\ reports' \in [Audits -> ReportRow]
<1>1. CASE ~Holds(a, n)
  BY <1>1 DEF Finish, TypeOK
<1>2. CASE Holds(a, n)
  <2>1. [jobs[a] EXCEPT !.state = s, !.lease = 0] \in JobRow
    <3>1. jobs[a] \in JobRow /\ 0 \in 0 .. Lease
      BY AuditAssumption DEF TypeOK, AuditAssumption
    <3>2. [jobs[a] EXCEPT !.state = s] \in JobRow
      BY <3>1, RowField
    <3> QED
      BY <3>1, <3>2, RowField
  <2>2. [status |-> IF s = "failed" THEN "error" ELSE s, progress |-> 100, by |-> n]
          \in ReportRow
    BY DEF ReportRow, Ended
  <2>3. jobs' = [jobs EXCEPT ![a] = [jobs[a] EXCEPT !.state = s, !.lease = 0]]
    BY <1>2 DEF Finish, TypeOK, JobRow
  <2> QED
    BY <1>2, <2>1, <2>2, <2>3 DEF Finish, TypeOK
<1> QED
  BY <1>1, <1>2

\* So does claim, for at most the audits it may take.
LEMMA ClaimType ==
    ASSUME TypeOK, NEW S \in SUBSET Claimable, Claim(S)
    PROVE  jobs' \in [Audits -> JobRow] /\ reports' \in [Audits -> ReportRow]
<1>1. \A a \in Audits : GivenUp(a) \in JobRow
  BY RowField DEF GivenUp, TypeOK, Ended
<1>2. ASSUME NEW a \in S PROVE a \in Audits /\ Taken(a) \in JobRow
  <2>1. a \in Audits /\ jobs[a].attempts < MaxAttempts
    BY DEF Claimable, Waiting, Lapsed
  <2>2. jobs[a] \in JobRow /\ Lease \in 0 .. Lease
    BY <2>1, AuditAssumption DEF TypeOK, AuditAssumption
  <2>3. jobs[a].attempts + 1 \in 0 .. MaxAttempts
    BY <2>1, <2>2, AuditAssumption DEF AuditAssumption, JobRow
  <2>4. [jobs[a] EXCEPT !.state = "running"] \in JobRow
    BY <2>2, RowField
  <2>5. [jobs[a] EXCEPT !.state = "running", !.attempts = jobs[a].attempts + 1] \in JobRow
    BY <2>3, <2>4, RowField
  <2> QED
    BY <2>1, <2>2, <2>5, RowField DEF Taken, TakenFor
<1>3. jobs' \in [Audits -> JobRow]
  BY <1>1, <1>2 DEF Claim, TypeOK
<1>4. ASSUME NEW a \in Audits
      PROVE  /\ [reports[a] EXCEPT !.status = "error"] \in ReportRow
             /\ [reports[a] EXCEPT !.status = "running", !.progress = 5] \in ReportRow
  <2>1. reports[a] \in ReportRow
    BY DEF TypeOK
  <2>2. [reports[a] EXCEPT !.status = "running"] \in ReportRow
    BY <2>1, ReportField
  <2> QED
    BY <2>1, <2>2, ReportField
<1> QED
  BY <1>3, <1>4 DEF Claim, TypeOK

\* The type invariant is inductive.
LEMMA TypeStep == TypeOK /\ [Next]_vars => TypeOK'
<1> SUFFICES ASSUME TypeOK, [Next]_vars PROVE TypeOK'
  OBVIOUS
<1> USE AuditAssumption DEF AuditAssumption
<1>1. ASSUME NEW a \in Audits, NEW u \in Urls, NEW c \in Clients, Enqueue(a, u, c)
      PROVE  TypeOK'
  <2>1. Cardinality({b \in Audits : jobs[b].state # "none"}) \in Nat
    BY FS_Subset, FS_CardinalityType
  <2>2. PICK h \in Hours :
          /\ counts[c][h] < Limit
          /\ counts' = [d \in Clients |-> [g \in Hours |->
                          IF ~Kept(g, h) THEN 0
                          ELSE counts[d][g] + (IF d = c /\ g = h THEN 1 ELSE 0)]]
          /\ jobs' = [jobs EXCEPT ![a] =
                       [state |-> "queued", attempts |-> 0, lease |-> 0,
                        born |-> Cardinality({b \in Audits : jobs[b].state # "none"}),
                        url |-> u, client |-> c, hour |-> h]]
    BY <1>1 DEF Enqueue
  <2>3. counts' \in [Clients -> [Hours -> 0 .. Limit]]
    BY <2>2 DEF TypeOK
  <2>4. jobs' \in [Audits -> JobRow]
    BY <2>1, <2>2 DEF TypeOK, JobRow
  <2>5. reports' \in [Audits -> ReportRow]
    BY <1>1 DEF Enqueue, TypeOK, ReportRow
  <2> QED
    BY <1>1, <2>3, <2>4, <2>5 DEF Enqueue, TypeOK
<1>2. CASE HourPasses
  BY <1>2 DEF HourPasses, TypeOK, Hours
<1>3. ASSUME NEW w \in Workers, ClaimNothing(w) PROVE TypeOK'
  <2>1. jobs' \in [Audits -> JobRow] /\ reports' \in [Audits -> ReportRow]
    BY <1>3, ClaimType DEF ClaimNothing
  <2> QED
    BY <1>3, <2>1 DEF ClaimNothing, TypeOK
<1>4. ASSUME NEW w \in Workers, ClaimOldest(w) PROVE TypeOK'
  <2>1. PICK a \in Claimable :
          /\ Claim({a})
          /\ sup' = [sup EXCEPT ![w] = [stage |-> "starting", audit |-> a,
                                        attempt |-> jobs[a].attempts + 1, left |-> 0]]
    BY <1>4 DEF ClaimOldest
  <2>2. jobs' \in [Audits -> JobRow] /\ reports' \in [Audits -> ReportRow]
    BY <2>1, ClaimType
  <2>3. a \in Audits /\ jobs[a].attempts + 1 \in 0 .. MaxAttempts
    BY DEF Claimable, Waiting, Lapsed, TypeOK, JobRow
  <2>4. /\ sup' \in [Workers -> Watch]
        /\ \A v \in Workers : sup'[v].stage # "off" => sup'[v].audit \in Audits
    BY <2>1, <2>3 DEF TypeOK, Watch
  <2> QED
    BY <1>4, <2>2, <2>4 DEF ClaimOldest, TypeOK
<1>5. ASSUME NEW w \in Workers, StartChild(w) PROVE TypeOK'
  <2>1. [sup[w] EXCEPT !.stage = "watching", !.left = Deadline] \in Watch
    <3>1. [sup[w] EXCEPT !.stage = "watching"] \in Watch
      BY WatchField DEF TypeOK
    <3>2. Deadline \in 0 .. Deadline
      OBVIOUS
    <3> QED
      BY <3>1, <3>2, WatchField
  <2>2. sup' = [sup EXCEPT ![w] = [sup[w] EXCEPT !.stage = "watching", !.left = Deadline]]
    BY <1>5 DEF StartChild, TypeOK, Watch
  <2>3. /\ sup' \in [Workers -> Watch]
        /\ \A v \in Workers : sup'[v].stage # "off" => sup'[v].audit \in Audits
    BY <1>5, <2>1, <2>2 DEF StartChild, TypeOK, Watch
  <2>4. Child(w) \in [audit : Audits, attempt : 0 .. MaxAttempts, of : Workers]
    BY <1>5 DEF StartChild, TypeOK, Child, Watch
  <2> QED
    BY <1>5, <2>3, <2>4 DEF StartChild, TypeOK
<1>6. ASSUME NEW w \in Workers, ChildExited(w) PROVE TypeOK'
  BY <1>6 DEF ChildExited, TypeOK, Off, Watch
<1>7. ASSUME NEW w \in Workers, KillChild(w) PROVE TypeOK'
  BY <1>7 DEF KillChild, TypeOK, Watch
<1>8. ASSUME NEW w \in Workers, ReportTimeout(w) PROVE TypeOK'
  <2>1. jobs' \in [Audits -> JobRow] /\ reports' \in [Audits -> ReportRow]
    BY <1>8, FinishType DEF ReportTimeout, TypeOK, Watch, Ended
  <2> QED
    BY <1>8, <2>1 DEF ReportTimeout, TypeOK, Off, Watch
<1>9. ASSUME NEW w \in Workers, MainDies(w) PROVE TypeOK'
  BY <1>9 DEF MainDies, TypeOK, Off, Watch
<1>10. ASSUME NEW k \in kids, KidStep(k) PROVE TypeOK'
  <2>1. k.audit \in Audits /\ k.attempt \in 0 .. MaxAttempts
    BY DEF TypeOK
  <2>2. CASE ReportProgress(k)
    BY <2>2 DEF ReportProgress, TypeOK, ReportRow
  <2>3. CASE ChildCrashes(k)
    BY <2>3 DEF ChildCrashes, TypeOK
  <2>4. ASSUME NEW s \in Ended, ChildFinishes(k, s) PROVE TypeOK'
    <3>1. jobs' \in [Audits -> JobRow] /\ reports' \in [Audits -> ReportRow]
      BY <2>1, <2>4, FinishType DEF ChildFinishes
    <3> QED
      BY <2>4, <3>1 DEF ChildFinishes, TypeOK
  <2> QED
    BY <1>10, <2>2, <2>3, <2>4 DEF KidStep
<1>11. CASE Tick
  <2>1. jobs' \in [Audits -> JobRow]
    <3>1. ASSUME NEW a \in Audits
          PROVE  [jobs[a] EXCEPT !.lease = IF @ > 0 THEN @ - 1 ELSE 0] \in JobRow
      <4>1. jobs[a] \in JobRow
        BY DEF TypeOK
      <4> QED
        BY <4>1 DEF JobRow
    <3> QED
      BY <1>11, <3>1 DEF Tick
  <2>2. /\ sup' \in [Workers -> Watch]
        /\ \A v \in Workers : sup'[v].stage = sup[v].stage /\ sup'[v].audit = sup[v].audit
    <3>1. ASSUME NEW v \in Workers
          PROVE  /\ [sup[v] EXCEPT !.left = IF @ > 0 THEN @ - 1 ELSE 0] \in Watch
                 /\ sup'[v] = [sup[v] EXCEPT !.left = IF @ > 0 THEN @ - 1 ELSE 0]
      <4>1. sup[v] \in Watch
        BY DEF TypeOK
      <4> QED
        BY <1>11, <4>1 DEF Watch, Tick
    <3>2. \A v \in Workers : sup[v] \in Watch
      BY DEF TypeOK
    <3> QED
      BY <1>11, <3>1, <3>2 DEF Tick, Watch
  <2>3. slipped' \subseteq Audits
    BY <1>11 DEF Tick, TypeOK, Late
  <2> QED
    BY <1>11, <2>1, <2>2, <2>3 DEF Tick, TypeOK
<1>12. CASE UNCHANGED vars
  BY <1>12 DEF vars, TypeOK
<1> QED
  BY <1>1, <1>2, <1>3, <1>4, <1>5, <1>6, <1>7, <1>8, <1>9, <1>10, <1>11, <1>12
  DEF Next, WorkerStep

\* Every state is well typed: no audit is started more than MaxAttempts times, no
\* client passes Limit in the counters.
THEOREM TypeCorrect == Spec => []TypeOK
<1>1. Init => TypeOK
  BY AuditAssumption DEF AuditAssumption, Init, TypeOK, JobRow, ReportRow, Watch, Off, Hours
<1> QED
  BY <1>1, TypeStep, PTL DEF Spec

-----------------------------------------------------------------------------
(* Timing.  The inductive invariant: an attempt has one supervisor; a child whose
   supervision never slipped belongs to a running attempt with more ticks on its
   lease than on its deadline; an attempt about to start has no child and a full
   lease.  NoOverlap alone is not inductive: it says nothing of leases. *)

Busy(w) == sup[w].stage # "off"
SameToken(v, w) == sup[v].audit = sup[w].audit /\ sup[v].attempt = sup[w].attempt

SupInv ==
    \A w \in Workers : Busy(w) =>
        /\ jobs[sup[w].audit].state # "none"
        /\ sup[w].attempt <= jobs[sup[w].audit].attempts
TokenInv == \A v, w \in Workers : Busy(v) /\ Busy(w) /\ SameToken(v, w) => v = w

Fresh(a, n) ==
    /\ jobs[a].state = "running" /\ jobs[a].attempts = n /\ jobs[a].lease = Lease
    /\ \A k \in kids : k.audit # a
StartInv ==
    \A w \in Workers : sup[w].stage = "starting" /\ sup[w].audit \notin slipped =>
        Fresh(sup[w].audit, sup[w].attempt)

Supervised(k) ==
    /\ sup[k.of].stage = "watching" /\ sup[k.of].audit = k.audit
    /\ sup[k.of].attempt = k.attempt
Timely(k) ==
    /\ jobs[k.audit].state = "running" /\ jobs[k.audit].attempts = k.attempt
    /\ jobs[k.audit].lease > sup[k.of].left
KidInv == \A k \in kids : k.audit \notin slipped => Supervised(k) /\ Timely(k)

TimingInv == SupInv /\ TokenInv /\ StartInv /\ KidInv

\* The rows of audits only move forward.
Forward ==
    \A a \in Audits : jobs[a].state # "none" =>
        jobs'[a].state # "none" /\ jobs[a].attempts <= jobs'[a].attempts
\* No supervisor takes up an audit.
NoneTaken ==
    \A w \in Workers : Busy(w)' =>
        Busy(w) /\ sup'[w].audit = sup[w].audit /\ sup'[w].attempt = sup[w].attempt

\* Unless an audit is claimed, its attempts keep their supervisors.
LEMMA TokensKept ==
    ASSUME TypeOK, TypeOK', SupInv, TokenInv, Forward, NoneTaken
    PROVE  SupInv' /\ TokenInv'
<1>1. SupInv'
  <2> SUFFICES ASSUME NEW w \in Workers, Busy(w)'
               PROVE  /\ jobs'[sup'[w].audit].state # "none"
                      /\ sup'[w].attempt <= jobs'[sup'[w].audit].attempts
    BY DEF SupInv
  <2>1. /\ Busy(w) /\ sup'[w].audit = sup[w].audit /\ sup'[w].attempt = sup[w].attempt
        /\ sup[w].audit \in Audits
    BY DEF NoneTaken, Busy, TypeOK
  <2>2. /\ jobs'[sup[w].audit].state # "none"
        /\ sup[w].attempt <= jobs[sup[w].audit].attempts
        /\ jobs[sup[w].audit].attempts <= jobs'[sup[w].audit].attempts
    BY <2>1 DEF SupInv, Forward
  <2>3. /\ sup[w].attempt \in Int /\ jobs[sup[w].audit].attempts \in Int
        /\ jobs'[sup[w].audit].attempts \in Int
    BY <2>1 DEF TypeOK, JobRow, Watch
  <2> QED
    BY <2>1, <2>2, <2>3
<1>2. TokenInv'
  BY DEF TokenInv, NoneTaken, SameToken
<1> QED
  BY <1>1, <1>2

\* What is held on time cannot be claimed or given up.
LEMMA HeldNotLapsed ==
    ASSUME TypeOK, TimingInv, NEW b \in Claimable \cup Exhausted, b \notin slipped
    PROVE  /\ \A k \in kids : k.audit # b
           /\ \A w \in Workers : sup[w].stage = "starting" => sup[w].audit # b
<1>1. b \in Audits /\ (jobs[b].state = "queued" \/ jobs[b].lease = 0)
  BY DEF Claimable, Exhausted, Waiting, Lapsed
<1>2. ASSUME NEW k \in kids, k.audit = b PROVE FALSE
  <2>1. k.of \in Workers
    BY DEF TypeOK
  <2>2. /\ jobs[b].state = "running" /\ jobs[b].lease > sup[k.of].left
        /\ sup[k.of].left \in Nat /\ jobs[b].lease \in Nat
    BY <1>1, <1>2, <2>1 DEF TimingInv, KidInv, Timely, TypeOK, JobRow, Watch
  <2> QED
    BY <1>1, <2>2
<1>3. ASSUME NEW w \in Workers, sup[w].stage = "starting", sup[w].audit = b PROVE FALSE
  BY <1>1, <1>3, AuditAssumption DEF TimingInv, StartInv, Fresh, AuditAssumption
<1> QED
  BY <1>2, <1>3

\* finish ends the attempt that holds the lease, or does nothing.
LEMMA FinishMove ==
    ASSUME TypeOK, NEW a \in Audits, NEW n \in 0 .. MaxAttempts, NEW s \in Ended,
           Finish(a, n, s)
    PROVE  /\ Forward
           /\ \A b \in Audits : jobs'[b] = jobs[b] \/ (b = a /\ Holds(a, n))
<1>1. CASE ~Holds(a, n)
  BY <1>1 DEF Finish, Forward, TypeOK, JobRow
<1>2. CASE Holds(a, n)
  BY <1>2 DEF Finish, Forward, TypeOK, JobRow, Ended
<1> QED
  BY <1>1, <1>2

\* Claims leave the audits that are held on time alone.
LEMMA ClaimMove ==
    ASSUME TypeOK, NEW S \in SUBSET Claimable, Claim(S)
    PROVE  /\ Forward
           /\ \A b \in Audits : b \notin S \cup Exhausted => jobs'[b] = jobs[b]
           /\ \A b \in S : /\ jobs'[b].state = "running" /\ jobs'[b].lease = Lease
                           /\ jobs'[b].attempts = jobs[b].attempts + 1
<1>1. \A b \in Audits :
        jobs'[b] = IF b \in Exhausted THEN GivenUp(b) ELSE IF b \in S THEN Taken(b) ELSE jobs[b]
  BY DEF Claim
<1>2. \A b \in S : b \in Audits /\ b \notin Exhausted
  BY AuditAssumption DEF Claimable, Exhausted, Waiting, Lapsed, TypeOK, JobRow, AuditAssumption
<1>3. \A b \in Audits : /\ GivenUp(b).state = "failed" /\ GivenUp(b).attempts = jobs[b].attempts
                        /\ Taken(b).state = "running" /\ Taken(b).lease = Lease
                        /\ Taken(b).attempts = jobs[b].attempts + 1
  BY DEF GivenUp, Taken, TakenFor, TypeOK, JobRow
<1>4. \A b \in Audits : jobs[b].attempts \in Nat
  BY DEF TypeOK, JobRow
<1> QED
  BY <1>1, <1>2, <1>3, <1>4 DEF Forward

\* A step may end supervisions and children, and touch the rows nobody holds on time.
LEMMA HeldStays ==
    ASSUME TypeOK, TypeOK', TimingInv, Forward, NoneTaken,
           kids' \subseteq kids, slipped \subseteq slipped',
           \A w \in Workers : sup'[w].stage = "starting" => sup'[w] = sup[w],
           \A k \in kids' : k.audit \notin slipped' => sup'[k.of] = sup[k.of],
           \A b \in Audits \ slipped' :
               \/ jobs'[b] = jobs[b]
               \/ /\ \A k \in kids' : k.audit # b
                  /\ \A w \in Workers : sup[w].stage = "starting" => sup[w].audit # b
    PROVE  TimingInv'
<1>1. SupInv' /\ TokenInv'
  BY TokensKept DEF TimingInv
<1>2. StartInv'
  <2> SUFFICES ASSUME NEW w \in Workers, sup'[w].stage = "starting", sup'[w].audit \notin slipped'
               PROVE  Fresh(sup[w].audit, sup[w].attempt)'
    BY DEF StartInv
  <2>1. /\ sup'[w] = sup[w] /\ sup[w].audit \in Audits \ slipped'
        /\ Fresh(sup[w].audit, sup[w].attempt)
    BY DEF TypeOK, TimingInv, StartInv
  <2>2. jobs'[sup[w].audit] = jobs[sup[w].audit]
    BY <2>1
  <2> QED
    BY <2>1, <2>2 DEF Fresh
<1>3. KidInv'
  <2> SUFFICES ASSUME NEW k \in kids', k.audit \notin slipped'
               PROVE  Supervised(k)' /\ Timely(k)'
    BY DEF KidInv
  <2>1. /\ k.audit \in Audits \ slipped' /\ Supervised(k) /\ Timely(k)
        /\ sup'[k.of] = sup[k.of]
    BY DEF TypeOK, TimingInv, KidInv
  <2>2. jobs'[k.audit] = jobs[k.audit]
    BY <2>1
  <2> QED
    BY <2>1, <2>2 DEF Supervised, Timely
<1> QED
  BY <1>1, <1>2, <1>3 DEF TimingInv

\* A child under its supervision is the supervisor's own.
LEMMA OwnChild ==
    ASSUME TypeOK, NEW k \in kids, Supervised(k)
    PROVE  k = Child(k.of)
BY DEF TypeOK, Supervised, Child

\* Two children, or a child and a supervisor, of one attempt: the same attempt,
\* hence the same supervisor.
LEMMA OneHolder ==
    ASSUME TypeOK, TimingInv, NEW k \in kids, k.audit \notin slipped,
           NEW w \in Workers, Busy(w), sup[w].audit = k.audit,
           sup[w].attempt = jobs[k.audit].attempts
    PROVE  w = k.of
<1>1. k.of \in Workers /\ Supervised(k) /\ Timely(k)
  BY DEF TypeOK, TimingInv, KidInv
<1>2. Busy(k.of) /\ SameToken(w, k.of)
  BY <1>1 DEF Supervised, Timely, Busy, SameToken
<1> QED
  BY <1>1, <1>2 DEF TimingInv, TokenInv

\* The timing invariant is inductive.
LEMMA TimingStep == TypeOK /\ TypeOK' /\ TimingInv /\ [Next]_vars => TimingInv'
<1> SUFFICES ASSUME TypeOK, TypeOK', TimingInv, [Next]_vars PROVE TimingInv'
  OBVIOUS
<1>0. SupInv /\ TokenInv /\ StartInv /\ KidInv
  BY DEF TimingInv
<1>1. ASSUME NEW a \in Audits, NEW u \in Urls, NEW c \in Clients, Enqueue(a, u, c)
      PROVE  TimingInv'
  <2>1. /\ jobs[a].state = "none" /\ sup' = sup /\ kids' = kids /\ slipped' = slipped
        /\ \A b \in Audits : b # a => jobs'[b] = jobs[b]
    BY <1>1 DEF Enqueue, Unknown, TypeOK
  <2>2. Forward /\ NoneTaken
    BY <2>1 DEF Forward, NoneTaken, Busy, TypeOK, JobRow
  <2>3. a \notin slipped => \A k \in kids : k.audit # a
    BY <1>0, <2>1 DEF KidInv, Timely
  <2>4. \A w \in Workers : sup[w].stage = "starting" => sup[w].audit # a
    BY <1>0, <2>1 DEF SupInv, Busy
  <2> QED
    BY <2>1, <2>2, <2>3, <2>4, HeldStays
<1>2. CASE HourPasses
  <2>1. Forward /\ NoneTaken
    BY <1>2 DEF HourPasses, Forward, NoneTaken, Busy, TypeOK, JobRow
  <2> QED
    BY <1>2, <2>1, HeldStays DEF HourPasses
<1>3. ASSUME NEW w \in Workers, ClaimNothing(w) PROVE TimingInv'
  <2>1. sup' = sup /\ kids' = kids /\ slipped' = slipped /\ Claim({})
    BY <1>3 DEF ClaimNothing
  <2>2. NoneTaken /\ Forward /\ \A b \in Audits : b \notin Exhausted => jobs'[b] = jobs[b]
    BY <2>1, ClaimMove DEF NoneTaken, Busy
  <2> QED
    BY <2>1, <2>2, HeldStays, HeldNotLapsed
<1>4. ASSUME NEW w \in Workers, ClaimOldest(w) PROVE TimingInv'
  <2>1. /\ sup[w].stage = "off" /\ kids' = kids /\ slipped' = slipped
    BY <1>4 DEF ClaimOldest
  <2>2. PICK a \in Claimable :
          /\ Claim({a})
          /\ sup' = [sup EXCEPT ![w] = [stage |-> "starting", audit |-> a,
                                        attempt |-> jobs[a].attempts + 1, left |-> 0]]
    BY <1>4 DEF ClaimOldest
  <2>3. /\ Forward
        /\ \A b \in Audits : b \notin {a} \cup Exhausted => jobs'[b] = jobs[b]
        /\ jobs'[a].state = "running" /\ jobs'[a].lease = Lease
        /\ jobs'[a].attempts = jobs[a].attempts + 1
    BY <2>2, ClaimMove
  <2>4. /\ a \in Audits /\ jobs[a].attempts \in Nat
        /\ \A v \in Workers : sup[v].attempt \in Nat
    BY DEF Claimable, Waiting, Lapsed, TypeOK, JobRow, Watch
  <2>5. /\ sup'[w].stage = "starting" /\ sup'[w].audit = a
        /\ sup'[w].attempt = jobs[a].attempts + 1
        /\ \A v \in Workers : v # w => sup'[v] = sup[v]
    BY <2>2 DEF TypeOK
  <2>6. SupInv'
    <3> SUFFICES ASSUME NEW v \in Workers, Busy(v)'
                 PROVE  /\ jobs'[sup'[v].audit].state # "none"
                        /\ sup'[v].attempt <= jobs'[sup'[v].audit].attempts
      BY DEF SupInv
    <3>1. CASE v = w
      BY <2>3, <2>4, <2>5, <3>1
    <3>2. CASE v # w
      <4>1. /\ sup'[v] = sup[v] /\ Busy(v) /\ sup[v].audit \in Audits
        BY <2>5, <3>2 DEF Busy, TypeOK
      <4>2. /\ jobs[sup[v].audit].attempts \in Nat /\ jobs'[sup[v].audit].attempts \in Nat
        BY <4>1 DEF TypeOK, JobRow
      <4> QED
        BY <1>0, <2>3, <2>4, <4>1, <4>2 DEF SupInv, Forward
    <3> QED
      BY <3>1, <3>2
  <2>7. \A v \in Workers : v # w /\ Busy(v) => ~SameToken(v, w)'
    BY <1>0, <2>4, <2>5 DEF SupInv, SameToken
  <2>8. TokenInv'
    BY <1>0, <2>5, <2>7 DEF TokenInv, SameToken, Busy
  <2>9. StartInv'
    <3> SUFFICES ASSUME NEW v \in Workers, sup'[v].stage = "starting", sup'[v].audit \notin slipped
                 PROVE  Fresh(sup[v].audit, sup[v].attempt)'
      BY <2>1 DEF StartInv
    <3>1. CASE v = w
      BY <2>1, <2>3, <2>5, <3>1, HeldNotLapsed DEF Fresh
    <3>2. CASE v # w
      <4>1. /\ sup'[v] = sup[v] /\ sup[v].audit \in Audits
            /\ Fresh(sup[v].audit, sup[v].attempt)
        BY <1>0, <2>5, <3>2 DEF StartInv, TypeOK
      <4>2. jobs'[sup[v].audit] = jobs[sup[v].audit]
        BY <2>3, <4>1, HeldNotLapsed
      <4> QED
        BY <2>1, <4>1, <4>2 DEF Fresh
    <3> QED
      BY <3>1, <3>2
  <2>10. KidInv'
    <3> SUFFICES ASSUME NEW k \in kids, k.audit \notin slipped
                 PROVE  Supervised(k)' /\ Timely(k)'
      BY <2>1 DEF KidInv
    <3>1. k.audit \in Audits /\ k.of \in Workers /\ Supervised(k) /\ Timely(k)
      BY <1>0 DEF KidInv, TypeOK
    <3>2. jobs'[k.audit] = jobs[k.audit]
      BY <2>3, <3>1, HeldNotLapsed
    <3>3. sup'[k.of] = sup[k.of]
      BY <2>1, <2>5, <3>1 DEF Supervised
    <3> QED
      BY <3>1, <3>2, <3>3 DEF Supervised, Timely
  <2> QED
    BY <2>6, <2>8, <2>9, <2>10 DEF TimingInv
<1>5. ASSUME NEW w \in Workers, StartChild(w) PROVE TimingInv'
  <2> DEFINE a == sup[w].audit
  <2>1. /\ sup[w].stage = "starting" /\ jobs' = jobs /\ slipped' = slipped
        /\ kids' = kids \cup {Child(w)} /\ a \in Audits
    BY <1>5 DEF StartChild, TypeOK
  <2>2. /\ sup'[w].stage = "watching" /\ sup'[w].audit = a
        /\ sup'[w].attempt = sup[w].attempt /\ sup'[w].left = Deadline
        /\ \A v \in Workers : v # w => sup'[v] = sup[v]
    BY <1>5 DEF StartChild, TypeOK, Watch
  <2>3. Forward /\ NoneTaken
    BY <2>1, <2>2 DEF Forward, NoneTaken, Busy, TypeOK, JobRow
  <2>4. StartInv'
    <3> SUFFICES ASSUME NEW v \in Workers, sup'[v].stage = "starting", sup'[v].audit \notin slipped
                 PROVE  Fresh(sup[v].audit, sup[v].attempt)' /\ sup'[v] = sup[v]
      BY <2>1 DEF StartInv
    <3>1. v # w /\ sup'[v] = sup[v] /\ Fresh(sup[v].audit, sup[v].attempt)
      BY <1>0, <2>2 DEF StartInv
    <3>2. sup[v].audit # a
      <4> SUFFICES ASSUME sup[v].audit = a PROVE FALSE
        OBVIOUS
      <4>1. Fresh(a, sup[w].attempt) /\ Fresh(a, sup[v].attempt)
        BY <1>0, <2>1, <3>1 DEF StartInv
      <4> QED
        BY <1>0, <2>1, <2>2, <3>1, <4>1 DEF Fresh, TokenInv, SameToken, Busy
    <3> QED
      BY <2>1, <3>1, <3>2 DEF Fresh, Child
  <2>5. KidInv'
    <3> SUFFICES ASSUME NEW k \in kids', k.audit \notin slipped
                 PROVE  Supervised(k)' /\ Timely(k)'
      BY <2>1 DEF KidInv
    <3>1. CASE k = Child(w)
      <4>1. Fresh(a, sup[w].attempt)
        BY <1>0, <2>1, <3>1 DEF StartInv, Child
      <4> QED
        BY <2>1, <2>2, <3>1, <4>1, AuditAssumption
        DEF Fresh, Child, Supervised, Timely, AuditAssumption
    <3>2. CASE k \in kids
      <4>1. k.of \in Workers /\ Supervised(k) /\ Timely(k)
        BY <1>0, <3>2 DEF KidInv, TypeOK
      <4>2. sup'[k.of] = sup[k.of]
        BY <2>1, <2>2, <4>1 DEF Supervised
      <4> QED
        BY <2>1, <4>1, <4>2 DEF Supervised, Timely
    <3> QED
      BY <2>1, <3>1, <3>2
  <2> QED
    BY <1>0, <2>3, <2>4, <2>5, TokensKept DEF TimingInv
<1>6. ASSUME NEW w \in Workers, ChildExited(w) PROVE TimingInv'
  <2>1. /\ Child(w) \notin kids /\ jobs' = jobs /\ kids' = kids /\ slipped' = slipped
        /\ sup'[w] = Off /\ \A v \in Workers : v # w => sup'[v] = sup[v]
    BY <1>6 DEF ChildExited, TypeOK
  <2>2. Forward /\ NoneTaken
    BY <2>1 DEF Forward, NoneTaken, Busy, Off, TypeOK, JobRow
  <2>3. \A k \in kids : k.audit \notin slipped => k.of # w /\ k.of \in Workers
    BY <1>0, <2>1, OwnChild DEF KidInv, TypeOK
  <2> QED
    BY <2>1, <2>2, <2>3, HeldStays DEF Off
<1>7. ASSUME NEW w \in Workers, KillChild(w) PROVE TimingInv'
  <2>1. /\ sup[w].stage = "watching" /\ jobs' = jobs /\ slipped' = slipped
        /\ kids' = kids \ {Child(w)}
        /\ sup'[w].stage = "killed" /\ sup'[w].audit = sup[w].audit
        /\ sup'[w].attempt = sup[w].attempt
        /\ \A v \in Workers : v # w => sup'[v] = sup[v]
    BY <1>7 DEF KillChild, TypeOK, Watch
  <2>2. Forward /\ NoneTaken
    BY <2>1 DEF Forward, NoneTaken, Busy, TypeOK, JobRow
  <2>3. \A k \in kids' : k.audit \notin slipped => k.of # w /\ k.of \in Workers
    BY <1>0, <2>1, OwnChild DEF KidInv, TypeOK
  <2> QED
    BY <2>1, <2>2, <2>3, HeldStays
<1>8. ASSUME NEW w \in Workers, ReportTimeout(w) PROVE TimingInv'
  <2> DEFINE a == sup[w].audit  n == sup[w].attempt
  <2>1. /\ sup[w].stage = "killed" /\ Finish(a, n, "failed") /\ kids' = kids
        /\ slipped' = slipped /\ a \in Audits /\ n \in 0 .. MaxAttempts /\ Busy(w)
        /\ sup'[w] = Off /\ \A v \in Workers : v # w => sup'[v] = sup[v]
    BY <1>8 DEF ReportTimeout, TypeOK, Watch, Busy
  <2>2. Forward /\ \A b \in Audits : jobs'[b] = jobs[b] \/ (b = a /\ Holds(a, n))
    BY <2>1, FinishMove DEF Ended
  <2>3. NoneTaken
    BY <2>1 DEF NoneTaken, Busy, Off
  <2>4. \A k \in kids : k.audit \notin slipped => k.of # w /\ k.of \in Workers
    BY <1>0, <2>1 DEF KidInv, Supervised, TypeOK
  <2>5. a \notin slipped /\ Holds(a, n) => \A k \in kids : k.audit # a
    BY <2>1, <2>4, OneHolder DEF Holds
  <2>6. ASSUME a \notin slipped, Holds(a, n), NEW v \in Workers, sup[v].stage = "starting",
               sup[v].audit = a
        PROVE  FALSE
    <3>1. SameToken(v, w) /\ Busy(v) /\ v # w
      BY <1>0, <2>1, <2>6 DEF StartInv, Fresh, Holds, SameToken, Busy
    <3> QED
      BY <1>0, <2>1, <3>1 DEF TokenInv
  <2> QED
    BY <2>1, <2>2, <2>3, <2>4, <2>5, <2>6, HeldStays DEF Off
<1>9. ASSUME NEW w \in Workers, MainDies(w) PROVE TimingInv'
  <2>1. /\ Busy(w) /\ jobs' = jobs /\ kids' \subseteq kids /\ slipped \subseteq slipped'
        /\ Child(w) \in kids' => sup[w].audit \in slipped'
        /\ sup'[w] = Off /\ \A v \in Workers : v # w => sup'[v] = sup[v]
    BY <1>9 DEF MainDies, TypeOK, Busy
  <2>2. Forward /\ NoneTaken
    BY <2>1 DEF Forward, NoneTaken, Busy, Off, TypeOK, JobRow
  <2>3. ASSUME NEW k \in kids', k.audit \notin slipped' PROVE k.of # w /\ k.of \in Workers
    <3>1. k = Child(k.of) /\ Supervised(k) /\ k.of \in Workers
      BY <1>0, <2>1, <2>3, OwnChild DEF KidInv, TypeOK
    <3> QED
      BY <2>1, <2>3, <3>1 DEF Supervised
  <2> QED
    BY <2>1, <2>2, <2>3, HeldStays DEF Off
<1>10. ASSUME NEW k \in kids, KidStep(k) PROVE TimingInv'
  <2>1. /\ k.audit \in Audits /\ k.attempt \in 0 .. MaxAttempts /\ k.of \in Workers
        /\ sup' = sup /\ slipped' = slipped /\ kids' \subseteq kids
    BY <1>10 DEF KidStep, ReportProgress, ChildCrashes, ChildFinishes, TypeOK
  <2>2. NoneTaken
    BY <2>1 DEF NoneTaken, Busy
  <2>3. CASE ReportProgress(k) \/ ChildCrashes(k)
    <3>1. jobs' = jobs
      BY <2>3 DEF ReportProgress, ChildCrashes
    <3>2. Forward
      BY <3>1 DEF Forward, TypeOK, JobRow
    <3> QED
      BY <2>1, <2>2, <3>1, <3>2, HeldStays
  <2>4. ASSUME NEW s \in Ended, ChildFinishes(k, s) PROVE TimingInv'
    <3>1. Finish(k.audit, k.attempt, s) /\ kids' = kids \ {k}
      BY <2>4 DEF ChildFinishes
    <3>2. /\ Forward
          /\ \A b \in Audits : jobs'[b] = jobs[b] \/ b = k.audit
      BY <2>1, <3>1, FinishMove
    <3>3. ASSUME k.audit \notin slipped, NEW l \in kids', l.audit = k.audit PROVE FALSE
      <4>1. l \in kids /\ l.of \in Workers /\ Supervised(l) /\ Timely(l)
        BY <1>0, <3>1, <3>3 DEF KidInv, TypeOK
      <4>2. l.of = k.of
        BY <3>3, <4>1, OneHolder DEF Supervised, Timely, Busy
      <4> QED
        BY <1>0, <3>1, <3>3, <4>1, <4>2, OwnChild DEF KidInv
    <3>4. k.audit \notin slipped =>
            \A v \in Workers : sup[v].stage = "starting" => sup[v].audit # k.audit
      BY <1>0 DEF StartInv, Fresh
    <3> QED
      BY <2>1, <2>2, <3>2, <3>3, <3>4, HeldStays
  <2> QED
    BY <1>10, <2>3, <2>4 DEF KidStep
<1>11. CASE Tick
  <2>1. /\ kids' = kids /\ slipped \subseteq slipped'
        /\ \A w \in Workers : Late(w) => sup[w].audit \in slipped'
    BY <1>11 DEF Tick
  <2>2. \A w \in Workers :
          /\ sup'[w].stage = sup[w].stage /\ sup'[w].audit = sup[w].audit
          /\ sup'[w].attempt = sup[w].attempt
          /\ sup'[w].left = IF sup[w].left > 0 THEN sup[w].left - 1 ELSE 0
    BY <1>11 DEF Tick, TypeOK, Watch
  <2>3. \A a \in Audits :
          /\ jobs'[a].state = jobs[a].state /\ jobs'[a].attempts = jobs[a].attempts
          /\ jobs'[a].lease = IF jobs[a].lease > 0 THEN jobs[a].lease - 1 ELSE 0
    BY <1>11 DEF Tick, TypeOK, JobRow
  <2>4. Forward /\ NoneTaken
    BY <2>2, <2>3 DEF Forward, NoneTaken, Busy, TypeOK, JobRow
  <2>5. StartInv'
    BY <2>1, <2>2 DEF StartInv, Late
  <2>6. KidInv'
    <3> SUFFICES ASSUME NEW k \in kids, k.audit \notin slipped'
                 PROVE  Supervised(k)' /\ Timely(k)'
      BY <2>1 DEF KidInv
    <3>1. /\ k.audit \in Audits /\ k.of \in Workers /\ Supervised(k) /\ Timely(k)
          /\ k = Child(k.of)
      BY <1>0, <2>1, OwnChild DEF KidInv, TypeOK
    <3>2. sup[k.of].left # 0
      BY <2>1, <3>1 DEF Late, Supervised
    <3>3. sup[k.of].left \in Nat /\ jobs[k.audit].lease \in Nat
      BY <3>1 DEF TypeOK, Watch, JobRow
    <3> QED
      BY <2>2, <2>3, <3>1, <3>2, <3>3 DEF Supervised, Timely
  <2> QED
    BY <1>0, <2>4, <2>5, <2>6, TokensKept DEF TimingInv
<1>12. CASE UNCHANGED vars
  <2>1. Forward /\ NoneTaken
    BY <1>12 DEF vars, Forward, NoneTaken, Busy, TypeOK, JobRow
  <2> QED
    BY <1>12, <2>1, HeldStays DEF vars
<1> QED
  BY <1>1, <1>2, <1>3, <1>4, <1>5, <1>6, <1>7, <1>8, <1>9, <1>10, <1>11, <1>12
  DEF Next, WorkerStep

THEOREM TimingHolds == Spec => []TimingInv
<1>1. Init => TimingInv
  BY DEF Init, TimingInv, SupInv, TokenInv, StartInv, KidInv, Off, Busy
<1> QED
  BY <1>1, TypeCorrect, TimingStep, PTL DEF Spec

\* While no supervisor was late or lost, an audit is analysed by one process at a
\* time: the child of a lapsed lease is dead before another is started.
THEOREM NoOverlapHolds == Spec => []NoOverlap
<1>1. TypeOK /\ TimingInv => NoOverlap
  <2> SUFFICES ASSUME TypeOK, TimingInv, NEW k \in kids, NEW l \in kids,
                      k.audit = l.audit, k.audit \notin slipped
               PROVE  k = l
    BY DEF NoOverlap
  <2>1. /\ l.of \in Workers /\ Supervised(l) /\ Timely(l) /\ Supervised(k)
    BY DEF TimingInv, KidInv, TypeOK
  <2>2. l.of = k.of
    BY <2>1, OneHolder DEF Supervised, Timely, Busy
  <2> QED
    BY <2>1, <2>2, OwnChild
<1> QED
  BY <1>1, TypeCorrect, TimingHolds, PTL

-----------------------------------------------------------------------------
(* Finality.  A row that does not run has no lease, or time would still touch it. *)

LeaseInv == \A a \in Audits : jobs[a].state # "running" => jobs[a].lease = 0

LEMMA FinishLease ==
    ASSUME TypeOK, LeaseInv, NEW b \in Audits, NEW n \in 0 .. MaxAttempts, NEW s \in Ended,
           Finish(b, n, s)
    PROVE  /\ LeaseInv'
           /\ \A a \in Audits : jobs[a].state \in Ended =>
                 jobs'[a] = jobs[a] /\ reports'[a] = reports[a]
<1>1. CASE ~Holds(b, n)
  BY <1>1 DEF Finish, LeaseInv
<1>2. CASE Holds(b, n)
  BY <1>2 DEF Finish, Holds, LeaseInv, Ended, TypeOK, JobRow
<1> QED
  BY <1>1, <1>2

LEMMA ClaimLease ==
    ASSUME TypeOK, LeaseInv, NEW S \in SUBSET Claimable, Claim(S)
    PROVE  /\ LeaseInv'
           /\ \A a \in Audits : jobs[a].state \in Ended =>
                 jobs'[a] = jobs[a] /\ reports'[a] = reports[a]
<1>1. \A a \in Exhausted \cup S : a \in Audits /\ jobs[a].state \notin Ended
  BY DEF Claimable, Exhausted, Waiting, Lapsed, Ended
<1>2. \A a \in Exhausted : GivenUp(a).lease = 0
  BY DEF Exhausted, Lapsed, GivenUp, TypeOK, JobRow
<1>3. \A a \in S : a \in Audits /\ Taken(a).state = "running"
  BY <1>1 DEF Taken, TakenFor, TypeOK, JobRow
<1> QED
  BY <1>1, <1>2, <1>3 DEF Claim, LeaseInv

LEMMA FinalStep ==
    ASSUME TypeOK, LeaseInv, [Next]_vars
    PROVE  /\ LeaseInv'
           /\ \A a \in Audits : jobs[a].state \in Ended =>
                 jobs'[a] = jobs[a] /\ reports'[a] = reports[a]
<1> DEFINE Goal == /\ LeaseInv'
                   /\ \A a \in Audits : jobs[a].state \in Ended =>
                        jobs'[a] = jobs[a] /\ reports'[a] = reports[a]
<1>1. ASSUME NEW a \in Audits, NEW u \in Urls, NEW c \in Clients, Enqueue(a, u, c)
      PROVE  Goal
  BY <1>1 DEF Enqueue, Unknown, Ended, LeaseInv, TypeOK
<1>2. ASSUME NEW w \in Workers, ClaimNothing(w) PROVE Goal
  BY <1>2, ClaimLease DEF ClaimNothing
<1>3. ASSUME NEW w \in Workers, ClaimOldest(w) PROVE Goal
  <2>1. PICK a \in Claimable : Claim({a})
    BY <1>3 DEF ClaimOldest
  <2> QED
    BY <2>1, ClaimLease
<1>4. ASSUME NEW w \in Workers, ReportTimeout(w) PROVE Goal
  BY <1>4, FinishLease DEF ReportTimeout, TypeOK, Watch, Ended
<1>5. ASSUME NEW k \in kids, ReportProgress(k) PROVE Goal
  BY <1>5 DEF ReportProgress, MayReport, Ended, LeaseInv, TypeOK
<1>6. ASSUME NEW k \in kids, NEW s \in Ended, ChildFinishes(k, s) PROVE Goal
  BY <1>6, FinishLease DEF ChildFinishes, TypeOK
<1>7. CASE Tick
  <2>1. ASSUME NEW a \in Audits, jobs[a].lease = 0 PROVE jobs'[a] = jobs[a]
    <3>1. jobs'[a] = [jobs[a] EXCEPT !.lease = 0] /\ jobs[a] \in JobRow
      BY <1>7, <2>1 DEF Tick, TypeOK
    <3> QED
      BY <2>1, <3>1 DEF JobRow
  <2>2. \A a \in Audits : jobs'[a].state = jobs[a].state
    BY <1>7 DEF Tick, TypeOK, JobRow
  <2> QED
    BY <1>7, <2>1, <2>2 DEF LeaseInv, Tick, Ended
<1>8. CASE jobs' = jobs /\ reports' = reports
  BY <1>8 DEF LeaseInv
<1> QED
  BY <1>1, <1>2, <1>3, <1>4, <1>5, <1>6, <1>7, <1>8
  DEF Next, WorkerStep, KidStep, vars, HourPasses, StartChild, ChildExited, KillChild, MainDies,
      ChildCrashes

\* An ended audit is never touched again: not by a repeated request, a late child,
\* a late timeout report, a claim, or time.
THEOREM EndedStaysFinal == Spec => EndedIsFinal
<1>1. Init => LeaseInv
  BY DEF Init, LeaseInv
<1>2. Spec => []LeaseInv
  BY <1>1, TypeCorrect, FinalStep, PTL DEF Spec
<1>3. TypeOK /\ LeaseInv /\ [Next]_vars =>
        [\A a \in Audits : jobs[a].state \in Ended =>
            jobs'[a] = jobs[a] /\ reports'[a] = reports[a]]_vars
  BY FinalStep
<1> QED
  BY <1>2, <1>3, TypeCorrect, PTL DEF Spec, EndedIsFinal

-----------------------------------------------------------------------------
(* The shared limit.  Leases never outnumber it, and the timely children of one
   instant map one to one to leases. *)

LeasesInv == Cardinality(Leased) <= MaxRunning

LEMMA LeasesFinite ==
    /\ IsFiniteSet(Leased) /\ Cardinality(Leased) \in Nat
    /\ \A T \in SUBSET Leased : IsFiniteSet(T) /\ Cardinality(T) \in Nat
                                /\ Cardinality(T) <= Cardinality(Leased)
<1>1. IsFiniteSet(Leased)
  BY AuditAssumption, FS_Subset DEF AuditAssumption, Leased
<1> QED
  BY <1>1, FS_Subset, FS_CardinalityType

\* Rows that neither gain a lease nor are taken keep the leases within the limit.
LEMMA NoNewLease ==
    ASSUME LeasesInv,
           \A a \in Audits : jobs'[a].state = "running" /\ jobs'[a].lease > 0 => a \in Leased
    PROVE  LeasesInv'
<1>1. Leased' \in SUBSET Leased
  BY DEF Leased
<1> QED
  BY <1>1, LeasesFinite, AuditAssumption DEF LeasesInv, AuditAssumption

LEMMA LeasesStep == TypeOK /\ LeasesInv /\ [Next]_vars => LeasesInv'
<1> SUFFICES ASSUME TypeOK, LeasesInv, [Next]_vars PROVE LeasesInv'
  OBVIOUS
<1>1. ASSUME NEW a \in Audits, NEW u \in Urls, NEW c \in Clients, Enqueue(a, u, c)
      PROVE  LeasesInv'
  <2>1. \A b \in Audits : jobs'[b] = jobs[b] \/ jobs'[b].state = "queued"
    BY <1>1 DEF Enqueue, TypeOK
  <2> QED
    BY <2>1, NoNewLease DEF Leased
<1>2. ASSUME NEW w \in Workers, ClaimNothing(w) PROVE LeasesInv'
  <2>1. \A b \in Audits : jobs'[b] = jobs[b] \/ jobs'[b].state = "failed"
    BY <1>2 DEF ClaimNothing, Claim, GivenUp, TypeOK, JobRow
  <2> QED
    BY <2>1, NoNewLease DEF Leased
<1>3. ASSUME NEW w \in Workers, ClaimOldest(w) PROVE LeasesInv'
  <2>1. PICK a \in Claimable : HasRoom /\ Claim({a})
    BY <1>3 DEF ClaimOldest
  <2>2. \A b \in Audits : b = a \/ jobs'[b] = jobs[b] \/ jobs'[b].state = "failed"
    BY <2>1 DEF Claim, GivenUp, TypeOK, JobRow
  <2>3. Leased' \subseteq Leased \cup {a}
    BY <2>2 DEF Leased
  <2>4. /\ IsFiniteSet(Leased \cup {a})
        /\ Cardinality(Leased \cup {a}) <= Cardinality(Leased) + 1
        /\ Cardinality(Leased') <= Cardinality(Leased \cup {a})
        /\ Cardinality(Leased \cup {a}) \in Nat /\ Cardinality(Leased') \in Nat
    <3>1. IsFiniteSet(Leased \cup {a})
      BY LeasesFinite, FS_AddElement
    <3>2. Cardinality(Leased \cup {a}) <= Cardinality(Leased) + 1
      BY LeasesFinite, FS_AddElement
    <3>3. Leased' \in SUBSET (Leased \cup {a})
      BY <2>3
    <3> QED
      BY <3>1, <3>2, <3>3, FS_Subset, FS_CardinalityType
  <2> QED
    BY <2>1, <2>4, LeasesFinite, AuditAssumption DEF LeasesInv, HasRoom, AuditAssumption
<1>4. ASSUME NEW a \in Audits, NEW n \in 0 .. MaxAttempts, NEW s \in Ended, Finish(a, n, s)
      PROVE  LeasesInv'
  <2>1. \A b \in Audits : jobs'[b] = jobs[b] \/ jobs'[b].state = s
    BY <1>4 DEF Finish, TypeOK, JobRow
  <2> QED
    BY <2>1, NoNewLease DEF Leased, Ended
<1>5. CASE Tick
  <2>1. \A b \in Audits : /\ jobs'[b].state = jobs[b].state
                          /\ jobs'[b].lease > 0 => jobs[b].lease > 0
    BY <1>5 DEF Tick, TypeOK, JobRow
  <2> QED
    BY <2>1, NoNewLease DEF Leased
<1>6. CASE jobs' = jobs
  BY <1>6, NoNewLease DEF Leased
<1>7. ASSUME NEW w \in Workers, ReportTimeout(w) PROVE LeasesInv'
  BY <1>4, <1>7 DEF ReportTimeout, TypeOK, Watch, Ended
<1>8. ASSUME NEW k \in kids, NEW s \in Ended, ChildFinishes(k, s) PROVE LeasesInv'
  BY <1>4, <1>8 DEF ChildFinishes, TypeOK
<1> QED
  BY <1>1, <1>2, <1>3, <1>5, <1>6, <1>7, <1>8
  DEF Next, WorkerStep, KidStep, vars, HourPasses, StartChild, ChildExited, KillChild, MainDies,
      ChildCrashes, ReportProgress

\* While no supervisor was late or lost, no more processes analyse audits than the
\* shared limit admits, whatever the number of workers.
THEOREM WorkStaysWithinLimit == Spec => []WorkWithinLimit
<1>1. Init => LeasesInv
  <2>1. Init => Leased = {}
    BY DEF Init, Leased
  <2> QED
    BY <2>1, FS_EmptySet, AuditAssumption DEF LeasesInv, AuditAssumption
<1>2. TypeOK /\ TimingInv /\ NoOverlap /\ LeasesInv => WorkWithinLimit
  <2> SUFFICES ASSUME TypeOK, TimingInv, NoOverlap, LeasesInv PROVE WorkWithinLimit
    OBVIOUS
  <2> DEFINE U == {k \in kids : k.audit \notin slipped}
             f == [k \in U |-> k.audit]
  <2>1. ASSUME NEW k \in U PROVE k.audit \in Leased
    <3>1. k.audit \in Audits /\ k.of \in Workers /\ Timely(k)
      BY DEF TimingInv, KidInv, TypeOK
    <3>2. jobs[k.audit].lease \in Nat /\ sup[k.of].left \in Nat
      BY <3>1 DEF TypeOK, JobRow, Watch
    <3> QED
      BY <3>1, <3>2 DEF Timely, Leased
  <2>2. f \in Injection(U, Leased)
    BY <2>1 DEF Injection, IsInjective, NoOverlap
  <2>3. IsFiniteSet(U) /\ Cardinality(U) <= Cardinality(Leased)
    <3> HIDE DEF U, f
    <3> QED
      BY <2>2, LeasesFinite, FS_Injection
  <2>4. Cardinality(U) \in Nat
    BY <2>3, FS_CardinalityType
  <2>5. Cardinality(U) <= MaxRunning
    <3> HIDE DEF U
    <3> QED
      BY <2>3, <2>4, LeasesFinite, AuditAssumption DEF LeasesInv, AuditAssumption
  <2> QED
    BY <2>5 DEF WorkWithinLimit
<1>3. Spec => []LeasesInv
  BY <1>1, LeasesStep, TypeCorrect, PTL DEF Spec
<1> QED
  BY <1>2, <1>3, TypeCorrect, TimingHolds, NoOverlapHolds, PTL

-----------------------------------------------------------------------------
(* What the requester reads.  ReportAgrees is inductive given the types: a report
   is written by the statement that ends the row it speaks of. *)

LEMMA FinishAgrees ==
    ASSUME TypeOK, ReportAgrees, NEW b \in Audits, NEW n \in 0 .. MaxAttempts, NEW s \in Ended,
           Finish(b, n, s)
    PROVE  ReportAgrees'
<1>1. CASE ~Holds(b, n)
  BY <1>1 DEF Finish, ReportAgrees
<1>2. CASE Holds(b, n)
  <2>1. /\ jobs'[b].state = s /\ jobs'[b].attempts = n
        /\ reports'[b] = [status |-> IF s = "failed" THEN "error" ELSE s,
                          progress |-> 100, by |-> n]
        /\ \A a \in Audits : a # b => jobs'[a] = jobs[a] /\ reports'[a] = reports[a]
    BY <1>2 DEF Finish, Holds, TypeOK, JobRow
  <2> QED
    BY <2>1 DEF ReportAgrees, Ended
<1> QED
  BY <1>1, <1>2

LEMMA ClaimAgrees ==
    ASSUME TypeOK, ReportAgrees, NEW S \in SUBSET Claimable, Claim(S)
    PROVE  ReportAgrees'
<1> SUFFICES ASSUME NEW a \in Audits
             PROVE  /\ jobs'[a].state = "completed" =>
                         reports'[a].status = "completed" /\ reports'[a].by = jobs'[a].attempts
                    /\ jobs'[a].state = "failed" =>
                         reports'[a].status = "error" /\ reports'[a].by \in {0, jobs'[a].attempts}
                    /\ jobs'[a].state = "running" =>
                         reports'[a].status = "running" /\ reports'[a].by = 0
                    /\ jobs'[a].state = "queued" =>
                         reports'[a].status = "pending" /\ reports'[a].by = 0
                    /\ reports'[a].by # 0 => reports'[a].progress = 100
  BY DEF ReportAgrees
<1>1. jobs[a] \in JobRow /\ reports[a] \in ReportRow
  BY DEF TypeOK
<1>2. a \in Exhausted \cup S => reports[a].by = 0
  BY <1>1 DEF ReportAgrees, Claimable, Exhausted, Waiting, Lapsed
<1>3. CASE a \in Exhausted
  BY <1>1, <1>2, <1>3 DEF Claim, GivenUp, JobRow, ReportRow
<1>4. CASE a \in S /\ a \notin Exhausted
  BY <1>1, <1>2, <1>4 DEF Claim, Taken, TakenFor, JobRow, ReportRow
<1>5. CASE a \notin Exhausted \cup S
  BY <1>5 DEF Claim, ReportAgrees
<1> QED
  BY <1>3, <1>4, <1>5

\* What the requester reads agrees with the queue: a completed audit shows the report
\* of its last attempt, a failed one an error, and no stale worker overwrites either.
THEOREM ReportsAgree == Spec => []ReportAgrees
<1>1. Init => ReportAgrees
  BY DEF Init, ReportAgrees
<1>2. TypeOK /\ ReportAgrees /\ [Next]_vars => ReportAgrees'
  <2> SUFFICES ASSUME TypeOK, ReportAgrees, [Next]_vars PROVE ReportAgrees'
    OBVIOUS
  <2>1. ASSUME NEW a \in Audits, NEW u \in Urls, NEW c \in Clients, Enqueue(a, u, c)
        PROVE  ReportAgrees'
    <3>1. /\ jobs'[a].state = "queued" /\ reports'[a].status = "pending" /\ reports'[a].by = 0
          /\ \A b \in Audits : b # a => jobs'[b] = jobs[b] /\ reports'[b] = reports[b]
      BY <2>1 DEF Enqueue, TypeOK
    <3> QED
      BY <3>1 DEF ReportAgrees
  <2>2. ASSUME NEW w \in Workers, ClaimNothing(w) PROVE ReportAgrees'
    BY <2>2, ClaimAgrees DEF ClaimNothing
  <2>3. ASSUME NEW w \in Workers, ClaimOldest(w) PROVE ReportAgrees'
    <3>1. PICK a \in Claimable : Claim({a})
      BY <2>3 DEF ClaimOldest
    <3> QED
      BY <3>1, ClaimAgrees
  <2>4. ASSUME NEW w \in Workers, ReportTimeout(w) PROVE ReportAgrees'
    BY <2>4, FinishAgrees DEF ReportTimeout, TypeOK, Watch, Ended
  <2>5. ASSUME NEW k \in kids, ReportProgress(k) PROVE ReportAgrees'
    <3>1. /\ k.audit \in Audits /\ jobs[k.audit].state = "running" /\ jobs' = jobs
          /\ reports'[k.audit].status = reports[k.audit].status
          /\ reports'[k.audit].by = reports[k.audit].by
          /\ \A b \in Audits : b # k.audit => reports'[b] = reports[b]
      BY <2>5 DEF ReportProgress, MayReport, TypeOK, ReportRow
    <3> QED
      BY <3>1 DEF ReportAgrees
  <2>6. ASSUME NEW k \in kids, NEW s \in Ended, ChildFinishes(k, s) PROVE ReportAgrees'
    BY <2>6, FinishAgrees DEF ChildFinishes, TypeOK
  <2>7. CASE Tick
    <3>1. \A a \in Audits : /\ jobs'[a].state = jobs[a].state
                            /\ jobs'[a].attempts = jobs[a].attempts
      BY <2>7 DEF Tick, TypeOK, JobRow
    <3> QED
      BY <2>7, <3>1 DEF Tick, ReportAgrees
  <2>8. CASE jobs' = jobs /\ reports' = reports
    BY <2>8 DEF ReportAgrees
  <2> QED
    BY <2>1, <2>2, <2>3, <2>4, <2>5, <2>6, <2>7, <2>8
    DEF Next, WorkerStep, KidStep, vars, HourPasses, StartChild, ChildExited, KillChild, MainDies,
        ChildCrashes
<1> QED
  BY <1>1, <1>2, TypeCorrect, PTL DEF Spec

-----------------------------------------------------------------------------
(* The rate limit.  The audits a client asked for in an hour never outnumber the *)
(* limit and, while the row of that hour is kept, never what the row counts: a   *)
(* row is deleted only when no request can be counted in its hour any more.      *)

Asked(c, h) == {a \in Audits : jobs[a].client = c /\ jobs[a].hour = h}

RateInv ==
    \A c \in Clients, h \in Hours :
        /\ Cardinality(Asked(c, h)) <= Limit
        /\ h >= hour - 1 => Cardinality(Asked(c, h)) <= counts[c][h]

RateTypes ==
    /\ jobs \in [Audits -> JobRow]
    /\ counts \in [Clients -> [Hours -> 0 .. Limit]]
    /\ hour \in Hours

LEMMA AskedFinite ==
    \A c \in Clients, h \in Hours :
        IsFiniteSet(Asked(c, h)) /\ Cardinality(Asked(c, h)) \in Nat
BY AuditAssumption, FS_Subset, FS_CardinalityType DEF AuditAssumption, Asked

\* A request that is accepted is counted where it is recorded.
LEMMA EnqueueRate ==
    ASSUME RateTypes, RateInv, NEW a \in Audits, NEW u \in Urls, NEW c \in Clients,
           Enqueue(a, u, c)
    PROVE  RateInv'
<1> USE AuditAssumption DEF AuditAssumption
<1>1. PICK h \in Hours \cap {hour - 1, hour} :
        /\ counts[c][h] < Limit
        /\ counts' = [d \in Clients |-> [g \in Hours |->
                        IF ~Kept(g, h) THEN 0
                        ELSE counts[d][g] + (IF d = c /\ g = h THEN 1 ELSE 0)]]
        /\ jobs' = [jobs EXCEPT ![a] =
                     [state |-> "queued", attempts |-> 0, lease |-> 0,
                      born |-> Cardinality({b \in Audits : jobs[b].state # "none"}),
                      url |-> u, client |-> c, hour |-> h]]
  BY DEF Enqueue
<1>2. hour' = hour /\ hour \in Nat /\ h \in Nat
  BY DEF Enqueue, RateTypes, Hours
<1>3. /\ jobs'[a].client = c /\ jobs'[a].hour = h
      /\ \A b \in Audits : b # a => jobs'[b] = jobs[b]
  BY <1>1 DEF RateTypes
<1>4. SUFFICES ASSUME NEW d \in Clients, NEW g \in Hours
               PROVE  /\ Cardinality(Asked(d, g)') <= Limit
                      /\ g >= hour - 1 => Cardinality(Asked(d, g)') <= counts'[d][g]
  BY <1>2 DEF RateInv
<1>5. /\ counts[d][g] \in Nat /\ Cardinality(Asked(d, g)) \in Nat /\ g \in Nat
      /\ IsFiniteSet(Asked(d, g))
      /\ Cardinality(Asked(d, g)) <= Limit
      /\ g >= hour - 1 => Cardinality(Asked(d, g)) <= counts[d][g]
  BY AskedFinite DEF RateTypes, RateInv, Hours
<1>6. g >= hour - 1 => Kept(g, h)
  BY <1>1, <1>2, <1>5 DEF Kept
<1>7. CASE d = c /\ g = h
  <2>1. Asked(d, g)' \subseteq Asked(d, g) \cup {a}
    BY <1>3 DEF Asked
  <2>2. /\ IsFiniteSet(Asked(d, g) \cup {a})
        /\ Cardinality(Asked(d, g) \cup {a}) \in Nat
        /\ Cardinality(Asked(d, g) \cup {a}) <= Cardinality(Asked(d, g)) + 1
    <3>1. IsFiniteSet(Asked(d, g) \cup {a})
      BY <1>5, FS_AddElement
    <3>2. Cardinality(Asked(d, g) \cup {a}) <= Cardinality(Asked(d, g)) + 1
      <4>1. PICK T : T = Asked(d, g)
        OBVIOUS
      <4>2. IsFiniteSet(T) /\ Cardinality(T) \in Nat
        BY <1>5, <4>1
      <4>3. Cardinality(T \cup {a}) \in {Cardinality(T), Cardinality(T) + 1}
        BY <4>2, FS_AddElement, Zenon
      <4> QED
        BY <4>1, <4>2, <4>3
    <3> QED
      BY <3>1, <3>2, FS_CardinalityType
  <2>3. Cardinality(Asked(d, g)') \in Nat
        /\ Cardinality(Asked(d, g)') <= Cardinality(Asked(d, g)) + 1
    BY <1>5, <2>1, <2>2, FS_Subset, FS_CardinalityType
  <2>4. g >= hour - 1 /\ counts'[d][g] = counts[d][g] + 1
    <3>1. g >= hour - 1
      BY <1>1, <1>2, <1>7
    <3> QED
      BY <1>1, <1>6, <1>7, <3>1
  <2> QED
    BY <1>1, <1>5, <1>7, <2>3, <2>4
<1>8. CASE ~(d = c /\ g = h)
  <2>1. Asked(d, g)' \subseteq Asked(d, g)
    BY <1>3, <1>8 DEF Asked
  <2>2. Cardinality(Asked(d, g)') \in Nat
        /\ Cardinality(Asked(d, g)') <= Cardinality(Asked(d, g))
    BY <1>5, <2>1, FS_Subset, FS_CardinalityType
  <2>3. g >= hour - 1 => counts'[d][g] = counts[d][g]
    BY <1>1, <1>5, <1>6, <1>8
  <2> QED
    BY <1>5, <2>2, <2>3
<1> QED
  BY <1>7, <1>8

\* Nothing else writes who asked, or what is counted; an hour that passes only
\* closes the one before the previous.
LEMMA OtherRate ==
    ASSUME RateTypes, RateInv, RateTypes', hour' \in {hour, hour + 1}, counts' = counts,
           \A a \in Audits : jobs'[a].client = jobs[a].client /\ jobs'[a].hour = jobs[a].hour
    PROVE  RateInv'
<1>1. \A d \in Clients, g \in Hours : Asked(d, g)' = Asked(d, g)
  BY DEF Asked
<1>2. \A g \in Hours : g >= hour' - 1 => g >= hour - 1
  <2>1. hour \in Nat /\ hour' \in Nat /\ \A g \in Hours : g \in Nat
    BY AuditAssumption DEF RateTypes, Hours, AuditAssumption
  <2> QED
    BY <2>1
<1> QED
  BY <1>1, <1>2 DEF RateInv

\* No client starts more audits in an hour than the limit, whoever works on them,
\* however its requests are retried and whenever the hour passes.
THEOREM RatesHold == Spec => []RateHolds
<1>1. Init => RateInv
  <2> SUFFICES ASSUME Init PROVE RateInv
    OBVIOUS
  <2>1. ASSUME NEW c \in Clients, NEW h \in Hours PROVE Cardinality(Asked(c, h)) = 0
    <3>1. Asked(c, h) = {}
      BY AuditAssumption DEF Init, Asked, AuditAssumption
    <3> QED
      BY <3>1, FS_EmptySet
  <2>2. \A c \in Clients, h \in Hours : counts[c][h] = 0
    BY DEF Init
  <2> QED
    BY <2>1, <2>2, AuditAssumption DEF RateInv, AuditAssumption
<1>2. TypeOK /\ TypeOK' /\ RateInv /\ [Next]_vars => RateInv'
  <2> SUFFICES ASSUME TypeOK, TypeOK', RateInv, [Next]_vars PROVE RateInv'
    OBVIOUS
  <2> DEFINE Same == \A a \in Audits : jobs'[a].client = jobs[a].client
                                       /\ jobs'[a].hour = jobs[a].hour
  <2>1. RateTypes /\ RateTypes'
    BY DEF TypeOK, RateTypes
  <2>2. ASSUME NEW a \in Audits, NEW u \in Urls, NEW c \in Clients, Enqueue(a, u, c)
        PROVE  RateInv'
    BY <2>1, <2>2, EnqueueRate
  <2>3. ASSUME NEW S, Claim(S) PROVE Same
    BY <2>3 DEF Claim, GivenUp, Taken, TakenFor, TypeOK, JobRow
  <2>4. ASSUME NEW a, NEW n, NEW s, Finish(a, n, s) PROVE Same
    BY <2>4 DEF Finish, TypeOK, JobRow
  <2>5. Tick => Same
    BY DEF Tick, TypeOK, JobRow
  <2>6. ASSUME Same, counts' = counts, hour' \in {hour, hour + 1} PROVE RateInv'
    BY <2>1, <2>6, OtherRate
  <2>7. ASSUME NEW w \in Workers,
               ClaimNothing(w) \/ ClaimOldest(w) \/ WorkerStep(w) \/ MainDies(w)
        PROVE  RateInv'
    <3>1. Same
      BY <2>3, <2>4, <2>7
      DEF ClaimNothing, ClaimOldest, WorkerStep, StartChild, ChildExited, KillChild,
          ReportTimeout, MainDies
    <3>2. UNCHANGED <<counts, hour>>
      BY <2>7
      DEF ClaimNothing, ClaimOldest, WorkerStep, StartChild, ChildExited, KillChild,
          ReportTimeout, MainDies
    <3> QED
      BY <2>6, <3>1, <3>2
  <2>8. ASSUME NEW k \in kids, KidStep(k) PROVE RateInv'
    <3>1. Same
      BY <2>4, <2>8 DEF KidStep, ReportProgress, ChildFinishes, ChildCrashes
    <3>2. UNCHANGED <<counts, hour>>
      BY <2>8 DEF KidStep, ReportProgress, ChildFinishes, ChildCrashes
    <3> QED
      BY <2>6, <3>1, <3>2
  <2>9. CASE Tick \/ HourPasses \/ UNCHANGED vars
    <3>1. Same /\ counts' = counts /\ hour' \in {hour, hour + 1}
      BY <2>5, <2>9 DEF Tick, HourPasses, vars
    <3> QED
      BY <2>6, <3>1
  <2> QED
    BY <2>2, <2>7, <2>8, <2>9 DEF Next
<1>3. RateInv => RateHolds
  BY DEF RateInv, RateHolds, Asked
<1> QED
  BY <1>1, <1>2, <1>3, TypeCorrect, PTL DEF Spec

=============================================================================
