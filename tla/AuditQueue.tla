------------------------------ MODULE AuditQueue ------------------------------
(***************************************************************************)
(* The public audit queue: the SQLite leases of denzo/auditor/queue.py and *)
(* the worker loop of denzo/auditor/worker.py, which supervises one child  *)
(* process per audit.  Every function of queue.py is one transaction and   *)
(* one action here.                                                        *)
(*                                                                         *)
(* Time is counted in ticks.  A claim gives a lease of Lease ticks and the *)
(* supervisor kills its child after Deadline ticks (660 and 600 seconds).  *)
(* A lease token is the number of the attempt it was drawn for: claim      *)
(* draws the one and increments the other in the same statement.           *)
(***************************************************************************)
EXTENDS Integers, FiniteSets

CONSTANTS
    Audits,         \* the request keys: a key is bound to one audit
    Urls,
    Clients,        \* what the rate limit counts by: an address, or "service"
    None,           \* no url, no client, no audit
    Workers,        \* audit worker processes
    MaxRunning,     \* DENZO_MAX_RUNNING_AUDITS
    MaxAttempts,    \* 3
    Lease,          \* ticks a claim is valid
    Deadline,       \* ticks a child may run
    Limit,          \* AUDIT_RATE_LIMIT_PER_HOUR
    MaxHour         \* bound: the last hour of a behaviour

ASSUME AuditAssumption ==
    /\ IsFiniteSet(Audits)
    /\ None \notin Audits \cup Urls \cup Clients
    /\ MaxRunning \in Nat \ {0} /\ MaxAttempts \in Nat \ {0}
    /\ Deadline \in Nat /\ Lease \in Nat /\ Deadline < Lease
    /\ Limit \in Nat \ {0} /\ MaxHour \in Nat

VARIABLES
    jobs,       \* table audit_jobs
    reports,    \* table site_audits
    counts,     \* table audit_rate_limits
    hour,       \* the current window of the rate limit
    sup,        \* what the main loop of a worker supervises
    kids,       \* child processes that live
    slipped     \* history: audits whose child outlived its supervision

vars == <<jobs, reports, counts, hour, sup, kids, slipped>>

Hours == 0 .. MaxHour
Ended == {"completed", "failed"}

-----------------------------------------------------------------------------
(* Operators marked "mutant" are faulty variants of the definition that follows
   them; nothing in the specification uses them. *)

Leased == {a \in Audits : jobs[a].state = "running" /\ jobs[a].lease > 0}
Lapsed == {a \in Audits : jobs[a].state = "running" /\ jobs[a].lease = 0}

ExhaustedNever == {}                                                \* mutant
Exhausted == {a \in Lapsed : jobs[a].attempts >= MaxAttempts}

Waiting == {a \in Audits : jobs[a].state = "queued"}
ClaimableOnceMore ==                                                \* mutant
    {a \in Waiting \cup Lapsed : jobs[a].attempts <= MaxAttempts}
Claimable == {a \in Waiting \cup Lapsed : jobs[a].attempts < MaxAttempts}
Oldest(a) == \A b \in Claimable : jobs[a].born <= jobs[b].born

HasRoomForOne == Cardinality(Leased) <= MaxRunning                  \* mutant
HasRoom == Cardinality(Leased) < MaxRunning

\* finish takes effect for the running attempt of a valid lease only.
HoldsState(a, n) == jobs[a].state = "running" /\ jobs[a].lease > 0  \* mutant
Holds(a, n) ==
    jobs[a].state = "running" /\ jobs[a].attempts = n /\ jobs[a].lease > 0

Finish(a, n, s) ==
    IF ~Holds(a, n) THEN UNCHANGED <<jobs, reports>>
    ELSE /\ jobs' = [jobs EXCEPT ![a].state = s, ![a].lease = 0]
         /\ reports' = [reports EXCEPT ![a] =
              [status |-> IF s = "failed" THEN "error" ELSE s, progress |-> 100, by |-> n]]

Off == [stage |-> "off", audit |-> None, attempt |-> 0, left |-> 0]
Child(w) == [audit |-> sup[w].audit, attempt |-> sup[w].attempt, of |-> w]

Init ==
    /\ jobs = [a \in Audits |-> [state |-> "none", attempts |-> 0, lease |-> 0, born |-> 0,
                                 url |-> None, client |-> None, hour |-> 0]]
    /\ reports = [a \in Audits |-> [status |-> "none", progress |-> 0, by |-> 0]]
    /\ counts = [c \in Clients |-> [h \in Hours |-> 0]]
    /\ hour = 0
    /\ sup = [w \in Workers |-> Off]
    /\ kids = {} /\ slipped = {}

-----------------------------------------------------------------------------
(* Requests. *)

\* A known key returns its audit, or is refused for another url: nothing changes.
UnknownAlways(a) == TRUE                                            \* mutant
Unknown(a) == jobs[a].state = "none"

\* Rows of the hours before the previous one are deleted.
KeptThisHour(g, h) == g >= h                                        \* mutant
Kept(g, h) == g >= h - 1

\* The hour is read before the transaction begins, so it may be the previous one.
Enqueue(a, u, c) ==
    /\ Unknown(a)
    /\ \E h \in Hours \cap {hour - 1, hour} :
         /\ counts[c][h] < Limit
         /\ counts' = [d \in Clients |-> [g \in Hours |->
                          IF ~Kept(g, h) THEN 0
                          ELSE counts[d][g] + (IF d = c /\ g = h THEN 1 ELSE 0)]]
         /\ jobs' = [jobs EXCEPT ![a] =
                       [state |-> "queued", attempts |-> 0, lease |-> 0,
                        born |-> Cardinality({b \in Audits : jobs[b].state # "none"}),
                        url |-> u, client |-> c, hour |-> h]]
    /\ reports' = [reports EXCEPT ![a] = [status |-> "pending", progress |-> 0, by |-> 0]]
    /\ UNCHANGED <<hour, sup, kids, slipped>>

HourPasses ==
    /\ hour < MaxHour
    /\ hour' = hour + 1
    /\ UNCHANGED <<jobs, reports, counts, sup, kids, slipped>>

-----------------------------------------------------------------------------
(* claim: give up the exhausted audits, then take the oldest one if there is room. *)

GivenUp(a) == [jobs[a] EXCEPT !.state = "failed"]
TakenFor(a, ticks) ==
    [jobs[a] EXCEPT !.state = "running", !.attempts = @ + 1, !.lease = ticks]
TakenBriefly(a) == TakenFor(a, Deadline)                            \* mutant
Taken(a) == TakenFor(a, Lease)

Claim(S) ==
    /\ jobs' = [a \in Audits |-> IF a \in Exhausted THEN GivenUp(a)
                                 ELSE IF a \in S THEN Taken(a) ELSE jobs[a]]
    /\ reports' = [a \in Audits |->
                     IF a \in Exhausted THEN [reports[a] EXCEPT !.status = "error"]
                     ELSE IF a \in S THEN [reports[a] EXCEPT !.status = "running",
                                                             !.progress = 5]
                     ELSE reports[a]]

ClaimNothing(w) ==
    /\ sup[w].stage = "off"
    /\ ~HasRoom \/ Claimable = {}
    /\ Exhausted # {}
    /\ Claim({})
    /\ UNCHANGED <<counts, hour, sup, kids, slipped>>

ClaimOldest(w) ==
    /\ sup[w].stage = "off"
    /\ HasRoom
    /\ \E a \in Claimable :
         /\ Oldest(a)
         /\ Claim({a})
         /\ sup' = [sup EXCEPT ![w] = [stage |-> "starting", audit |-> a,
                                       attempt |-> jobs[a].attempts + 1, left |-> 0]]
    /\ UNCHANGED <<counts, hour, kids, slipped>>

-----------------------------------------------------------------------------
(* The supervisor. *)

StartChild(w) ==
    /\ sup[w].stage = "starting"
    /\ kids' = kids \cup {Child(w)}
    /\ sup' = [sup EXCEPT ![w].stage = "watching", ![w].left = Deadline]
    /\ UNCHANGED <<jobs, reports, counts, hour, slipped>>

\* The child exited, whatever its exit code.
ChildExited(w) ==
    /\ sup[w].stage = "watching" /\ Child(w) \notin kids
    /\ sup' = [sup EXCEPT ![w] = Off]
    /\ UNCHANGED <<jobs, reports, counts, hour, kids, slipped>>

\* The child lives at its deadline: its descendants and itself are killed.
KillChild(w) ==
    /\ sup[w].stage = "watching" /\ sup[w].left = 0 /\ Child(w) \in kids
    /\ kids' = kids \ {Child(w)}
    /\ sup' = [sup EXCEPT ![w].stage = "killed"]
    /\ UNCHANGED <<jobs, reports, counts, hour, slipped>>

ReportTimeout(w) ==
    /\ sup[w].stage = "killed"
    /\ Finish(sup[w].audit, sup[w].attempt, "failed")
    /\ sup' = [sup EXCEPT ![w] = Off]
    /\ UNCHANGED <<counts, hour, kids, slipped>>

\* The worker is lost or its loop raises.  Its child dies with it (systemd kills the
\* control group), or lives on without a deadline (an interpreter that exits joins
\* the child it started).
MainDies(w) ==
    /\ sup[w].stage # "off"
    /\ sup' = [sup EXCEPT ![w] = Off]
    /\ \/ kids' = kids \ {Child(w)} /\ UNCHANGED slipped
       \/ /\ Child(w) \in kids
          /\ slipped' = slipped \cup {sup[w].audit} /\ UNCHANGED kids
    /\ UNCHANGED <<jobs, reports, counts, hour>>

-----------------------------------------------------------------------------
(* The child: execute. *)

MayReport(a, n) == jobs[a].state = "running" /\ jobs[a].attempts = n

\* progress asks for the token, not for a valid lease.
ReportProgress(k) ==
    /\ k \in kids
    /\ MayReport(k.audit, k.attempt)
    /\ reports' = [reports EXCEPT ![k.audit].progress = 50]
    /\ UNCHANGED <<jobs, counts, hour, sup, kids, slipped>>

ChildFinishes(k, s) ==
    /\ k \in kids
    /\ Finish(k.audit, k.attempt, s)
    /\ kids' = kids \ {k}
    /\ UNCHANGED <<counts, hour, sup, slipped>>

\* Out of memory, a signal, or finish itself raises.
ChildCrashes(k) ==
    /\ k \in kids
    /\ kids' = kids \ {k}
    /\ UNCHANGED <<jobs, reports, counts, hour, sup, slipped>>

-----------------------------------------------------------------------------
(* Time.  A supervisor that lets a tick pass while it starts a child, or while its
   child is at the deadline, is late: a stalled machine. *)

Late(w) == \/ sup[w].stage = "starting"
           \/ sup[w].stage = "watching" /\ sup[w].left = 0 /\ Child(w) \in kids

Tick ==
    /\ jobs' = [a \in Audits |-> [jobs[a] EXCEPT !.lease = IF @ > 0 THEN @ - 1 ELSE 0]]
    /\ sup' = [w \in Workers |-> [sup[w] EXCEPT !.left = IF @ > 0 THEN @ - 1 ELSE 0]]
    /\ slipped' = slipped \cup {sup[w].audit : w \in {v \in Workers : Late(v)}}
    /\ UNCHANGED <<reports, counts, hour, kids>>

-----------------------------------------------------------------------------
WorkerStep(w) ==
    StartChild(w) \/ ChildExited(w) \/ KillChild(w) \/ ReportTimeout(w)

KidStep(k) ==
    ReportProgress(k) \/ ChildCrashes(k) \/ \E s \in Ended : ChildFinishes(k, s)

Next ==
    \/ \E a \in Audits, u \in Urls, c \in Clients : Enqueue(a, u, c)
    \/ HourPasses
    \/ \E w \in Workers :
         ClaimNothing(w) \/ ClaimOldest(w) \/ WorkerStep(w) \/ MainDies(w)
    \/ \E k \in kids : KidStep(k)
    \/ Tick

Spec == Init /\ [][Next]_vars

\* Time passes, a worker that lives goes on, some worker polls the queue.
Fairness ==
    /\ WF_vars(Tick)
    /\ \A w \in Workers : WF_vars(WorkerStep(w))
    /\ WF_vars(\E w \in Workers : ClaimNothing(w) \/ ClaimOldest(w))

LiveSpec == Spec /\ Fairness

-----------------------------------------------------------------------------
(* Properties. *)

JobRow == [state : {"none", "queued", "running"} \cup Ended, attempts : 0 .. MaxAttempts,
           lease : 0 .. Lease, born : Nat, url : Urls \cup {None},
           client : Clients \cup {None}, hour : Hours]
ReportRow == [status : {"none", "pending", "running", "completed", "error"},
              progress : {0, 5, 50, 100}, by : 0 .. MaxAttempts]
Watch == [stage : {"off", "starting", "watching", "killed"}, audit : Audits \cup {None},
          attempt : 0 .. MaxAttempts, left : 0 .. Deadline]

\* Types; in particular no audit is started more than MaxAttempts times, and a
\* supervisor has an audit unless it is off.
TypeOK ==
    /\ jobs \in [Audits -> JobRow]
    /\ reports \in [Audits -> ReportRow]
    /\ counts \in [Clients -> [Hours -> 0 .. Limit]]
    /\ hour \in Hours
    /\ sup \in [Workers -> Watch]
    /\ \A w \in Workers : sup[w].stage # "off" => sup[w].audit \in Audits
    /\ kids \subseteq [audit : Audits, attempt : 0 .. MaxAttempts, of : Workers]
    /\ slipped \subseteq Audits

\* What the requester reads agrees with the queue, and a completed audit shows the
\* report of its last attempt: a stale worker cannot overwrite a newer result
\* (docstring of queue.py).
ReportAgrees ==
    \A a \in Audits :
        LET j == jobs[a] r == reports[a] IN
        /\ j.state = "completed" => r.status = "completed" /\ r.by = j.attempts
        /\ j.state = "failed" => r.status = "error" /\ r.by \in {0, j.attempts}
        /\ j.state = "running" => r.status = "running" /\ r.by = 0
        /\ j.state = "queued" => r.status = "pending" /\ r.by = 0
        /\ r.by # 0 => r.progress = 100

\* While no supervisor was late or lost, two processes never analyse the same
\* audit: a child is dead before its lease can be claimed again.
NoOverlap ==
    \A k, l \in kids : k.audit = l.audit /\ k # l => k.audit \in slipped

\* And no more processes work than the shared limit admits, all workers together.
WorkWithinLimit ==
    Cardinality({k \in kids : k.audit \notin slipped}) <= MaxRunning

\* An ended audit is never touched again, by a second request with its key, a
\* late child, a late timeout report or a claim.
EndedIsFinal ==
    [][\A a \in Audits : jobs[a].state \in Ended =>
          jobs'[a] = jobs[a] /\ reports'[a] = reports[a]]_vars

\* No client starts more than Limit audits in one hour, retried requests and
\* requests that wait across the hour included.
RateHolds ==
    \A c \in Clients, h \in Hours :
        Cardinality({a \in Audits : jobs[a].client = c /\ jobs[a].hour = h}) <= Limit

\* Every accepted audit ends, whatever dies: attempts are bounded.
AuditsEnd == \A a \in Audits : jobs[a].state = "queued" ~> jobs[a].state \in Ended

=============================================================================
