------------------------------ MODULE AgentJobs ------------------------------
(***************************************************************************)
(* The durable execution leases of denzo/execution.py, with the runner     *)
(* that reserves, enqueues and stops jobs (denzo/agents/runner.py) and the *)
(* RQ worker that executes them (denzo/worker.py).                         *)
(*                                                                         *)
(* Every operation of the code is a series of short SQLite transactions.   *)
(* One transaction is one action here; what the operation still has to do  *)
(* after its commit is a sequence of steps, todo[p], in the memory of the  *)
(* process p that performs it.  Other processes act between two steps, and *)
(* a crash of p loses the steps it has not taken yet.                      *)
(*                                                                         *)
(* External to the repository and modelled from its use: Redis/RQ (rq,     *)
(* stopCmds, work-horse deaths) and the body of an agent's run().          *)
(***************************************************************************)
EXTENDS Integers, Sequences, FiniteSets

CONSTANTS
    Jobs,           \* the pool of uuids: how many reservations a run may make
    NoJob,          \* no parent, or no job on a process
    Agents,         \* the rows of table agents, one per (tenant, agent name)
    Tenants,
    TenantOf,       \* [Agents -> Tenants]
    Directors,      \* the rows named "Pipeline Director"
    Writers,        \* the rows named in CONTENT_WRITERS
    SeoWorkers,     \* RQ workers of queue denzo-seo
    DirWorkers,     \* RQ workers of queue denzo-director
    Callers,        \* web processes and the scheduler
    MaxQueued,      \* DENZO_MAX_QUEUED_JOBS
    MaxAgents,      \* DENZO_MAX_RUNNING_AGENTS
    MaxDirectors,   \* DENZO_MAX_RUNNING_DIRECTORS
    MaxCalls,       \* DENZO_MAX_API_CALLS_PER_JOB
    Reports,        \* the statuses an agent's run() sets on its own row
    MaxStops,       \* bound: stop requests of the user in one behaviour
    MaxFaults       \* bound: lost processes, lost RQ entries, silent heartbeats and
                    \* Redis calls that raise, in one behaviour

ASSUME ConstantsAssumption ==
    /\ NoJob \notin Jobs
    /\ TenantOf \in [Agents -> Tenants]
    /\ Directors \subseteq Agents
    /\ Writers \subseteq Agents \ Directors
    /\ (SeoWorkers \cup DirWorkers) \cap Callers = {}
    /\ MaxQueued \in Nat \ {0} /\ MaxAgents \in Nat \ {0}
    /\ MaxDirectors \in Nat \ {0} /\ MaxCalls \in Nat
    /\ Reports \subseteq {"working", "done", "error", "idle"}
    /\ MaxStops \in Nat /\ MaxFaults \in Nat

VARIABLES
    jobs,       \* table agent_jobs
    rows,       \* agents.status
    runs,       \* pipeline_runs.status of the run a job opened
    rq,         \* job ids waiting in an RQ queue
    stopCmds,   \* stop commands sent to the workers
    phase,      \* where a process is in execute_job
    cur,        \* the job it executes
    tok,        \* its Cancellation token, as last polled
    todo,       \* the steps it still has to take
    died,       \* history: jobs whose work horse was lost while they ran
    orphaned,   \* history: ended jobs whose pending cancel_children was lost
    unsure,     \* history: jobs Redis took although their enqueue raised
    stops,      \* history: stop requests so far
    faults      \* history: faults so far

db == <<jobs, rows, runs>>
mem == <<phase, cur, tok>>
hist == <<died, orphaned, unsure, stops, faults>>
vars == <<jobs, rows, runs, rq, stopCmds, phase, cur, tok, todo,
          died, orphaned, unsure, stops, faults>>

Workers == SeoWorkers \cup DirWorkers
Procs == Workers \cup Callers

Live == {"queued", "running"}
Ended == {"done", "error", "cancelled", "idle"}

Active(j) == jobs[j].status \in Live
IsDirector(j) == jobs[j].agent \in Directors
JobTenant(j) == TenantOf[jobs[j].agent]

-----------------------------------------------------------------------------
(* The steps an operation may have left to take. *)

FinishStep == [op : {"finish"}, job : Jobs, as : Ended, retry : BOOLEAN]
CloseStep == [op : {"close"}, job : Jobs, as : Ended]
ChildrenStep == [op : {"children"}, of : SUBSET Jobs]
SignalStep == [op : {"signal"}, drop : SUBSET Jobs, kill : SUBSET Jobs]
ResetStep == [op : {"reset", "force"}, tenant : Tenants]
ReserveStep == [op : {"reserve"}, agent : Agents, parent : Jobs \cup {NoJob}]
EnqueueStep == [op : {"enqueue"}, job : Jobs]
Step == FinishStep \cup CloseStep \cup ChildrenStep \cup SignalStep
          \cup ResetStep \cup ReserveStep \cup EnqueueStep

Finish(j, s, r) == [op |-> "finish", job |-> j, as |-> s, retry |-> r]

\* cancel_children of every job of D, one after the other.
Sweep(D) == IF D = {} THEN <<>> ELSE <<[op |-> "children", of |-> D]>>

\* What _request_stop does after its commit: end the jobs it saw queued, send a
\* stop command for those it saw running.
Signal(D, K) ==
    IF D = {} /\ K = {} THEN <<>> ELSE <<[op |-> "signal", drop |-> D, kill |-> K]>>

At(p, op) == todo[p] # <<>> /\ Head(todo[p]).op = op
Idle(p) == p \in Callers /\ todo[p] = <<>>

\* p replaces the step it is at by the steps s.
Becomes(p, s) == todo' = [todo EXCEPT ![p] = s \o Tail(@)]

Fault == faults < MaxFaults /\ faults' = faults + 1

\* A stop request of a user, at a process of the web application.
UserStop(p) == Idle(p) /\ stops < MaxStops /\ stops' = stops + 1

\* A row of agent_jobs with its column defaults.
JobWith(s, a, q) == [status |-> s, agent |-> a, parent |-> q, cancel |-> FALSE,
                     retryable |-> TRUE, stale |-> FALSE, calls |-> 0]

Init ==
    /\ jobs = [j \in Jobs |-> JobWith("free", NoJob, NoJob)]
    /\ rows = [a \in Agents |-> "idle"]
    /\ runs = [j \in Jobs |-> "none"]
    /\ rq = {} /\ stopCmds = {}
    /\ phase = [p \in Procs |-> "off"]
    /\ cur = [p \in Procs |-> NoJob]
    /\ tok = [p \in Procs |-> "live"]
    /\ todo = [p \in Procs |-> <<>>]
    /\ died = {} /\ orphaned = {} /\ unsure = {} /\ stops = 0 /\ faults = 0

-----------------------------------------------------------------------------
(* Transactions on the shared database. *)

\* Operators marked "mutant" are faulty variants of the definition that follows
\* them; nothing in the specification uses them.

\* finish_job has no effect unless the job is queued or running.
MayFinishAny(j) == jobs[j].status # "free"                          \* mutant
MayFinish(j) == Active(j)

FinishedRow(s) == IF s = "cancelled" THEN "idle" ELSE s

FinishJob(j, s, r) ==
    IF ~MayFinish(j) THEN UNCHANGED db
    ELSE /\ jobs' = [jobs EXCEPT ![j].status = s, ![j].retryable = r /\ @]
         /\ rows' = IF \E k \in Jobs \ {j} : Active(k) /\ jobs[k].agent = jobs[j].agent
                    THEN rows
                    ELSE [rows EXCEPT ![jobs[j].agent] = FinishedRow(s)]
         /\ runs' = [runs EXCEPT ![j] = IF @ = "running" THEN s ELSE @]

\* The transaction of recover_expired_jobs over the expired jobs E, table by table.
ExpiredRetryable(r) == [r EXCEPT !.status = "error"]                \* mutant
ExpiredJob(r) == [r EXCEPT !.status = "error", !.retryable = FALSE]
ExpireJobs(E) ==
    jobs' = [j \in Jobs |-> IF j \in E THEN ExpiredJob(jobs[j]) ELSE jobs[j]]

KeepRows(E) == UNCHANGED rows                                       \* mutant
ExpireRows(E) ==
    rows' = [a \in Agents |-> IF \E j \in E : jobs[j].agent = a THEN "error" ELSE rows[a]]

ExpireRuns(E) ==
    runs' = [j \in Jobs |-> IF j \in E /\ runs[j] = "running" THEN "error" ELSE runs[j]]

Expire(E) == ExpireJobs(E) /\ ExpireRows(E) /\ ExpireRuns(E)

ExpiredRunning(T) ==                                                \* mutant
    {j \in Jobs : jobs[j].status = "running" /\ jobs[j].stale /\ JobTenant(j) \in T}
Expired(T) == {j \in Jobs : Active(j) /\ jobs[j].stale /\ JobTenant(j) \in T}

NoDirectors(T) == {}                                                \* mutant
ExpiredDirectors(T) == {j \in Expired(T) : IsDirector(j)}

\* The transaction of _request_stop.
RequestCancel(hits) ==
    jobs' = [j \in Jobs |-> IF j \in hits THEN [jobs[j] EXCEPT !.cancel = TRUE]
                                          ELSE jobs[j]]
StopSteps(hits) == Signal({j \in hits : jobs[j].status = "queued"},
                          {j \in hits : jobs[j].status = "running"})

-----------------------------------------------------------------------------
(* Reserving a job: AgentRunner.start. *)

ParentEnded(q) == q # NoJob /\ jobs[q].status # "running"            \* mutant
ParentGone(q) == q # NoJob /\ (jobs[q].status # "running" \/ jobs[q].cancel)

\* Another active job of this tenant is the same agent, or both write content.
ConflictSameAgent(a) == \E j \in Jobs : Active(j) /\ jobs[j].agent = a   \* mutant
Conflict(a) ==
    \E j \in Jobs : /\ Active(j)
                    /\ \/ jobs[j].agent = a
                       \/ /\ TenantOf[a] = JobTenant(j)
                          /\ a \in Writers /\ jobs[j].agent \in Writers

QueueFull == Cardinality({j \in Jobs : jobs[j].status = "queued"}) >= MaxQueued

\* reserve_job refuses with AgentCancelled, None or CapacityExceeded; that no uuid
\* is left is the bound's doing.
Refused(a, q) ==
    \/ ParentGone(q) \/ Conflict(a) \/ QueueFull
    \/ \A j \in Jobs : jobs[j].status # "free"

\* The reserving transaction; p then has to enqueue the job.
Reserve(p, a, q, rest) ==
    /\ ~Refused(a, q)
    /\ \E j \in Jobs :
         /\ jobs[j].status = "free"
         /\ jobs' = [jobs EXCEPT ![j] = JobWith("queued", a, q)]
         /\ rows' = [rows EXCEPT ![a] = "starting"]
         /\ todo' = [todo EXCEPT ![p] = <<[op |-> "enqueue", job |-> j]>> \o rest]
    /\ UNCHANGED <<runs, rq, stopCmds, mem, hist>>

\* reserve_job recovers the expired jobs of every tenant first, in a transaction of
\* its own.  When it finds none, the reservation follows at once: a job that would
\* expire between the two may as well expire after them.
BeginStart(p, a, q) ==
    IF Expired(Tenants) = {} THEN Reserve(p, a, q, <<>>)
    ELSE /\ Expire(Expired(Tenants))
         /\ todo' = [todo EXCEPT ![p] =
                       Sweep(ExpiredDirectors(Tenants))
                       \o <<[op |-> "reserve", agent |-> a, parent |-> q]>>]
         /\ UNCHANGED <<rq, stopCmds, mem, hist>>

CallerStarts(p, a) == Idle(p) /\ BeginStart(p, a, NoJob)

\* The Director starts agents of its own tenant; check_cancelled comes first.
DirectorStarts(p, a) ==
    /\ p \in DirWorkers /\ phase[p] = "run" /\ todo[p] = <<>> /\ tok[p] = "live"
    /\ a \notin Directors /\ TenantOf[a] = JobTenant(cur[p])
    /\ BeginStart(p, a, cur[p])

ReserveGranted(p) ==
    /\ At(p, "reserve")
    /\ Reserve(p, Head(todo[p]).agent, Head(todo[p]).parent, Tail(todo[p]))

ReserveRefused(p) ==
    /\ At(p, "reserve")
    /\ Refused(Head(todo[p]).agent, Head(todo[p]).parent)
    /\ Becomes(p, <<>>)
    /\ UNCHANGED <<db, rq, stopCmds, mem, hist>>

\* Queue.enqueue.  When it raises, Redis may already have taken the job: the
\* client gives up after its socket timeout.
Enqueued(p) ==
    /\ At(p, "enqueue")
    /\ rq' = rq \cup {Head(todo[p]).job}
    /\ Becomes(p, <<>>)
    /\ UNCHANGED <<db, stopCmds, mem, hist>>

EnqueueFails(p) ==
    LET j == Head(todo[p]).job IN
    /\ At(p, "enqueue")
    /\ \/ UNCHANGED <<rq, unsure>>
       \/ rq' = rq \cup {j} /\ unsure' = unsure \cup {j}
    /\ Fault
    /\ Becomes(p, <<Finish(j, "error", TRUE)>>)
    /\ UNCHANGED <<db, stopCmds, mem, died, orphaned, stops>>

-----------------------------------------------------------------------------
(* Stopping and recovering. *)

\* AgentRunner.stop of one agent.
StopAgent(p, a) ==
    LET hits == {j \in Jobs : Active(j) /\ jobs[j].agent = a} IN
    /\ UserStop(p) /\ a \notin Directors
    /\ RequestCancel(hits)
    /\ todo' = [todo EXCEPT ![p] = StopSteps(hits)]
    /\ UNCHANGED <<rows, runs, rq, stopCmds, mem, died, orphaned, unsure, faults>>

\* stop_all, and stop of the Director.
StopAll(p, t) ==
    LET hits == {j \in Jobs : Active(j) /\ JobTenant(j) = t} IN
    /\ UserStop(p)
    /\ RequestCancel(hits)
    /\ todo' = [todo EXCEPT ![p] =
                  StopSteps(hits) \o <<[op |-> "reset", tenant |-> t]>>]
    /\ UNCHANGED <<rows, runs, rq, stopCmds, mem, died, orphaned, unsure, faults>>

\* recover_expired_jobs: the scheduler's tick and the web process at start-up (all
\* tenants), the Director at its start (its own tenant).
Recover(p, T) ==
    /\ \/ Idle(p) /\ T = Tenants
       \/ /\ p \in DirWorkers /\ phase[p] = "run" /\ todo[p] = <<>>
          /\ T = {JobTenant(cur[p])}
    /\ Expired(T) # {}
    /\ Expire(Expired(T))
    /\ todo' = [todo EXCEPT ![p] = Sweep(ExpiredDirectors(T))]
    /\ UNCHANGED <<rq, stopCmds, mem, hist>>

\* cancel_children of one job of the step.
CancelChildren(p) ==
    LET D == Head(todo[p]).of IN
    /\ At(p, "children")
    /\ \E d \in D :
         LET hits == {j \in Jobs : Active(j) /\ jobs[j].parent = d} IN
         /\ RequestCancel(hits)
         /\ Becomes(p, StopSteps(hits) \o Sweep(D \ {d}))
    /\ UNCHANGED <<rows, runs, rq, stopCmds, mem, hist>>

\* After _request_stop's commit: a job it saw queued ends, and RQ forgets it if
\* Redis answers.
DropQueued(p) ==
    LET s == Head(todo[p]) IN
    /\ At(p, "signal")
    /\ \E j \in s.drop :
         /\ FinishJob(j, "cancelled", TRUE)
         /\ \/ rq' = rq \ {j} /\ UNCHANGED faults
            \/ Fault /\ UNCHANGED rq
         /\ Becomes(p, Signal(s.drop \ {j}, s.kill))
    /\ UNCHANGED <<stopCmds, mem, died, orphaned, unsure, stops>>

\* A job it saw running gets a stop command, if Redis answers and a worker still
\* executes the job.
SendStop(p) ==
    LET s == Head(todo[p]) IN
    /\ At(p, "signal")
    /\ \E j \in s.kill :
         /\ \/ /\ stopCmds' = IF \E w \in Workers : cur[w] = j
                             THEN stopCmds \cup {j} ELSE stopCmds
               /\ UNCHANGED faults
            \/ Fault /\ UNCHANGED stopCmds
         /\ Becomes(p, Signal(s.drop, s.kill \ {j}))
    /\ UNCHANGED <<db, rq, mem, died, orphaned, unsure, stops>>

\* The last statement of stop_all: rows without an active job become idle.  When
\* Jarvis' reset_pipeline is the caller, every row of the tenant does next.
ResetRows(p) ==
    LET t == Head(todo[p]).tenant IN
    /\ At(p, "reset")
    /\ rows' = [a \in Agents |->
                  IF TenantOf[a] = t /\ ~\E j \in Jobs : Active(j) /\ jobs[j].agent = a
                  THEN "idle" ELSE rows[a]]
    /\ Becomes(p, <<>>) \/ Becomes(p, <<[op |-> "force", tenant |-> t]>>)
    /\ UNCHANGED <<jobs, runs, rq, stopCmds, mem, hist>>

ForceRows(p) ==
    /\ At(p, "force")
    /\ rows' = [a \in Agents |->
                  IF TenantOf[a] = Head(todo[p]).tenant THEN "idle" ELSE rows[a]]
    /\ Becomes(p, <<>>)
    /\ UNCHANGED <<jobs, runs, rq, stopCmds, mem, hist>>

\* Web start-up, _reset_stale_agents: busy rows without an active job are errors.
RepairRows(p) ==
    /\ Idle(p)
    /\ rows' = [a \in Agents |->
                  IF /\ rows[a] \in {"working", "starting"}
                     /\ ~\E j \in Jobs : Active(j) /\ jobs[j].agent = a
                  THEN "error" ELSE rows[a]]
    /\ UNCHANGED <<jobs, runs, rq, stopCmds, mem, todo, hist>>

-----------------------------------------------------------------------------
(* Executing a job: execute_job in the work horse of worker p. *)

Serves(p, j) == IF IsDirector(j) THEN p \in DirWorkers ELSE p \in SeoWorkers

\* Only Directors are parents: for another job cancel_children finds no row.
CancelChildrenOf(j) == IF IsDirector(j) THEN Sweep({j}) ELSE <<>>

\* The finally block.  When an exception leaves execute_job, RQ's failure callback
\* job_failed follows: its finish_job finds the job ended, its cancel_children runs.
ExitSteps(j, s, raised) ==
    <<Finish(j, s, TRUE)>>
    \o (IF s \in {"error", "cancelled"} THEN CancelChildrenOf(j) ELSE <<>>)
    \o <<[op |-> "close", job |-> j, as |-> s]>>
    \o (IF raised THEN CancelChildrenOf(j) ELSE <<>>)

Leaving(p, steps) ==
    /\ phase' = [phase EXCEPT ![p] = "exit"]
    /\ todo' = [todo EXCEPT ![p] = steps]

Take(p, j) ==
    /\ p \in Workers /\ phase[p] = "off" /\ todo[p] = <<>>
    /\ j \in rq /\ Serves(p, j)
    /\ rq' = rq \ {j}

RunningLike(j) == {k \in Jobs : jobs[k].status = "running" /\ (IsDirector(k) <=> IsDirector(j))}
RunningLimit(j) == IF IsDirector(j) THEN MaxDirectors ELSE MaxAgents

ClaimableLate(j) == jobs[j].status # "free"                         \* mutant
Claimable(j) == jobs[j].status = "queued"

\* The job is no longer queued: nothing happens.
SkipJob(p, j) ==
    /\ Take(p, j) /\ ~Claimable(j)
    /\ UNCHANGED <<db, stopCmds, mem, todo, hist>>

\* Cancelled before execution, or no capacity: the claim rolls back and the job
\* is finished in another transaction.
RefuseJob(p, j) ==
    /\ Take(p, j) /\ Claimable(j)
    /\ cur' = [cur EXCEPT ![p] = j]
    /\ \/ /\ jobs[j].cancel
          /\ Leaving(p, <<Finish(j, "cancelled", TRUE)>>)
       \/ /\ ~jobs[j].cancel /\ Cardinality(RunningLike(j)) >= RunningLimit(j)
          /\ Leaving(p, <<Finish(j, "error", TRUE)>> \o CancelChildrenOf(j))
    /\ UNCHANGED <<db, stopCmds, tok, hist>>

ClaimJob(p, j) ==
    /\ Take(p, j) /\ Claimable(j)
    /\ ~jobs[j].cancel /\ Cardinality(RunningLike(j)) < RunningLimit(j)
    /\ jobs' = [jobs EXCEPT ![j].status = "running", ![j].stale = FALSE]
    /\ rows' = [rows EXCEPT ![jobs[j].agent] = "working"]
    /\ runs' = [runs EXCEPT ![j] = "running"]
    /\ phase' = [phase EXCEPT ![p] = "init"]
    /\ cur' = [cur EXCEPT ![p] = j]
    /\ tok' = [tok EXCEPT ![p] = "live"]
    /\ UNCHANGED <<stopCmds, todo, hist>>

\* Entitlement, construction of the agent and its prerequisites.
AgentReady(p) ==
    /\ phase[p] = "init"
    /\ phase' = [phase EXCEPT ![p] = "run"]
    /\ UNCHANGED <<db, rq, stopCmds, cur, tok, todo, hist>>

AgentNotReady(p) ==
    /\ phase[p] = "init"
    /\ \/ Leaving(p, ExitSteps(cur[p], "idle", FALSE))
       \/ Leaving(p, ExitSteps(cur[p], "error", TRUE))
    /\ UNCHANGED <<db, rq, stopCmds, cur, tok, hist>>

Running(p) == phase[p] = "run" /\ todo[p] = <<>>

\* The heartbeat thread, every ten seconds.
Heartbeat(p) ==
    /\ phase[p] \in {"init", "run"}
    /\ jobs[cur[p]].status = "running" /\ jobs[cur[p]].stale
    /\ jobs' = [jobs EXCEPT ![cur[p]].stale = FALSE]
    /\ UNCHANGED <<rows, runs, rq, stopCmds, mem, todo, hist>>

\* Cancellation.is_set when it reads the database; the answer is kept, and used
\* again, for a quarter of a second and across the wait for a database lock.
PollToken(p) ==
    LET r == jobs[cur[p]] IN
    /\ Running(p) /\ tok[p] = "live"
    /\ r.cancel \/ ~Active(cur[p])
    /\ tok' = [tok EXCEPT ![p] = IF r.retryable THEN "cut" ELSE "limit"]
    /\ UNCHANGED <<db, rq, stopCmds, phase, cur, todo, hist>>

BlockJob(j) ==
    jobs' = IF jobs[j].status = "running"
            THEN [jobs EXCEPT ![j].retryable = FALSE, ![j].cancel = TRUE]
            ELSE jobs

\* Cancellation.block: the deadline seen by is_set, or RQ's JobTimeoutException.
TimeLimit(p) ==
    /\ Running(p) /\ tok[p] # "limit"
    /\ BlockJob(cur[p])
    /\ tok' = [tok EXCEPT ![p] = "limit"]
    /\ UNCHANGED <<rows, runs, rq, stopCmds, phase, cur, todo, hist>>

InBudgetAtLimit(j) == jobs[j].calls <= MaxCalls                     \* mutant
InBudget(j) == jobs[j].calls < MaxCalls

\* consume_api_call, after its is_set check.
ConsumeApiCall(p) ==
    LET j == cur[p] IN
    /\ Running(p) /\ tok[p] = "live"
    /\ \/ /\ jobs[j].status = "running" /\ ~jobs[j].cancel /\ InBudget(j)
          /\ jobs' = [jobs EXCEPT ![j].calls = @ + 1]
          /\ UNCHANGED tok
       \/ /\ jobs[j].status # "running" \/ jobs[j].cancel
          /\ tok' = [tok EXCEPT ![p] = "cut"]
          /\ UNCHANGED jobs
       \/ /\ jobs[j].status = "running" /\ ~jobs[j].cancel /\ ~InBudget(j)
          /\ BlockJob(j)
          /\ tok' = [tok EXCEPT ![p] = "limit"]
    /\ UNCHANGED <<rows, runs, rq, stopCmds, phase, cur, todo, hist>>

\* An agent's set_status: db_write checks the token, then writes.
SetStatus(p, s) ==
    /\ Running(p) /\ tok[p] = "live"
    /\ rows[jobs[cur[p]].agent] # s
    /\ rows' = [rows EXCEPT ![jobs[cur[p]].agent] = s]
    /\ UNCHANGED <<jobs, runs, rq, stopCmds, mem, todo, hist>>

\* run() returns: the outcome comes from the token, else from the agent's row.
AgentReturns(p) ==
    LET row == rows[jobs[cur[p]].agent] IN
    /\ Running(p)
    /\ CASE tok[p] = "cut" -> Leaving(p, ExitSteps(cur[p], "cancelled", FALSE))
         [] tok[p] = "limit" \/ row \in {"idle", "error"} ->
                               Leaving(p, ExitSteps(cur[p], "error", TRUE))
         [] OTHER -> Leaving(p, ExitSteps(cur[p], "done", FALSE))
    /\ UNCHANGED <<db, rq, stopCmds, cur, tok, hist>>

\* run() raises: AgentCancelled once the token is cut, or any other exception.
AgentRaises(p) ==
    /\ Running(p)
    /\ \/ tok[p] = "cut" /\ Leaving(p, ExitSteps(cur[p], "cancelled", FALSE))
       \/ Leaving(p, ExitSteps(cur[p], "error", TRUE))
    /\ UNCHANGED <<db, rq, stopCmds, cur, tok, hist>>

\* A finish_job step of execute_job, of a callback or of a failed enqueue.
FinishStepTaken(p) ==
    LET s == Head(todo[p]) IN
    /\ At(p, "finish")
    /\ FinishJob(s.job, s.as, s.retry)
    /\ Becomes(p, <<>>)
    /\ UNCHANGED <<rq, stopCmds, mem, hist>>

\* The last statement of execute_job: the run it opened, whatever its state.
CloseRun(p) ==
    LET s == Head(todo[p]) IN
    /\ At(p, "close")
    /\ runs' = [runs EXCEPT ![s.job] = s.as]
    /\ Becomes(p, <<>>)
    /\ UNCHANGED <<jobs, rows, rq, stopCmds, mem, hist>>

\* The work horse is done and the worker waits for another job.
LeaveJob(p) ==
    /\ phase[p] \in {"exit", "callback"} /\ todo[p] = <<>>
    /\ phase' = [phase EXCEPT ![p] = "off"]
    /\ cur' = [cur EXCEPT ![p] = NoJob]
    /\ tok' = [tok EXCEPT ![p] = "live"]
    /\ stopCmds' = stopCmds \ {cur[p]}
    /\ UNCHANGED <<db, rq, todo, hist>>

-----------------------------------------------------------------------------
(* Lost processes, lost entries and time. *)

\* Children of an ended job that p had still to cancel.
Owed(p) == {d \in Jobs : ~Active(d) /\ \E i \in DOMAIN todo[p] :
                            todo[p][i].op = "children" /\ d \in todo[p][i].of}
DiesRunning(p) == {j \in Jobs : j = cur[p] /\ jobs[j].status = "running"}

\* The horse of p is gone; the worker runs the callback of its job.
HorseGone(p, s) ==
    /\ phase[p] \in {"init", "run", "exit"}
    /\ phase' = [phase EXCEPT ![p] = "callback"]
    /\ todo' = [todo EXCEPT ![p] = <<Finish(cur[p], s, FALSE)>> \o CancelChildrenOf(cur[p])]
    /\ orphaned' = orphaned \cup (Owed(p) \ {cur[p]})
    /\ UNCHANGED <<db, rq, cur, tok, unsure, stops>>

\* handle_work_horse_killed: memory, a hard timeout, a signal.
HorseDies(p) ==
    /\ HorseGone(p, "error")
    /\ Fault
    /\ died' = died \cup DiesRunning(p)
    /\ UNCHANGED stopCmds

\* The stop command reaches the worker of the job: job_stopped.
StopDelivered(p) ==
    /\ cur[p] \in stopCmds
    /\ HorseGone(p, "cancelled")
    /\ stopCmds' = stopCmds \ {cur[p]}
    /\ UNCHANGED <<died, faults>>

\* A worker or a caller is lost with all it had to do.
ProcessDies(p) ==
    /\ phase[p] # "off" \/ todo[p] # <<>>
    /\ Fault
    /\ died' = died \cup DiesRunning(p)
    /\ orphaned' = orphaned \cup Owed(p)
    /\ phase' = [phase EXCEPT ![p] = "off"]
    /\ cur' = [cur EXCEPT ![p] = NoJob]
    /\ tok' = [tok EXCEPT ![p] = "live"]
    /\ todo' = [todo EXCEPT ![p] = <<>>]
    /\ stopCmds' = stopCmds \ {cur[p]}
    /\ UNCHANGED <<db, rq, unsure, stops>>

\* An RQ entry outlives its ttl, or Redis loses it.
RqLoses(j) ==
    /\ j \in rq
    /\ rq' = rq \ {j}
    /\ Fault
    /\ UNCHANGED <<db, stopCmds, mem, todo, died, orphaned, unsure, stops>>

Beating(j) == \E p \in Workers : cur[p] = j /\ phase[p] \in {"init", "run"}

\* created_at passes the queue ttl, or heartbeat_at is two minutes old: its
\* process is lost, its heartbeat thread died of a database error, or it stalled.
Age(j) ==
    /\ Active(j) /\ ~jobs[j].stale
    /\ jobs' = [jobs EXCEPT ![j].stale = TRUE]
    /\ IF Beating(j) THEN Fault ELSE UNCHANGED faults
    /\ UNCHANGED <<rows, runs, rq, stopCmds, mem, todo, died, orphaned, unsure, stops>>

-----------------------------------------------------------------------------
StepTaken(p) ==
    \/ ReserveGranted(p) \/ ReserveRefused(p) \/ Enqueued(p) \/ EnqueueFails(p)
    \/ CancelChildren(p) \/ DropQueued(p) \/ SendStop(p)
    \/ ResetRows(p) \/ ForceRows(p)
    \/ FinishStepTaken(p) \/ CloseRun(p)

CallerNext(p) ==
    \/ \E a \in Agents : CallerStarts(p, a) \/ StopAgent(p, a)
    \/ \E t \in Tenants : StopAll(p, t)
    \/ RepairRows(p)

WorkerNext(p) ==
    \/ \E a \in Agents : DirectorStarts(p, a)
    \/ \E j \in Jobs : SkipJob(p, j) \/ RefuseJob(p, j) \/ ClaimJob(p, j)
    \/ AgentReady(p) \/ AgentNotReady(p) \/ Heartbeat(p) \/ PollToken(p)
    \/ TimeLimit(p) \/ ConsumeApiCall(p) \/ AgentReturns(p) \/ AgentRaises(p)
    \/ \E s \in Reports : SetStatus(p, s)
    \/ LeaveJob(p) \/ HorseDies(p) \/ StopDelivered(p)

Next ==
    \/ \E p \in Procs : StepTaken(p) \/ ProcessDies(p)
    \/ \E p \in Procs, T \in SUBSET Tenants : Recover(p, T)
    \/ \E p \in Callers : CallerNext(p)
    \/ \E p \in Workers : WorkerNext(p)
    \/ \E j \in Jobs : RqLoses(j) \/ Age(j)

Spec == Init /\ [][Next]_vars

-----------------------------------------------------------------------------
(* Fairness: a process that lives takes its steps; an agent's run() ends, RQ's
   death penalty and hard timeout see to it; time passes for a job no process
   executes; the scheduler's tick recovers expired jobs every minute. *)

Fairness ==
    /\ \A p \in Procs : WF_vars(StepTaken(p))
    /\ \A p \in Workers :
         /\ WF_vars(AgentReady(p) \/ AgentNotReady(p) \/ LeaveJob(p))
         /\ SF_vars(AgentReturns(p) \/ AgentRaises(p))
    /\ \A j \in Jobs : WF_vars(Age(j) /\ ~Beating(j))
    /\ SF_vars(\E p \in Callers : Recover(p, Tenants))

LiveSpec == Spec /\ Fairness

-----------------------------------------------------------------------------
(* Properties. *)

JobRow == [status : {"free"} \cup Live \cup Ended, agent : Agents \cup {NoJob},
           parent : Jobs \cup {NoJob}, cancel : BOOLEAN, retryable : BOOLEAN,
           stale : BOOLEAN, calls : 0 .. MaxCalls]

JobsType ==
    /\ jobs \in [Jobs -> JobRow]
    /\ \A j \in Jobs : jobs[j].status # "free" => jobs[j].agent \in Agents
DbType ==
    /\ JobsType
    /\ rows \in [Agents -> {"idle", "starting", "working", "done", "error"}]
    /\ runs \in [Jobs -> {"none", "running"} \cup Ended]
ProcType ==
    /\ phase \in [Procs -> {"off", "init", "run", "exit", "callback"}]
    /\ cur \in [Procs -> Jobs \cup {NoJob}]
    /\ tok \in [Procs -> {"live", "cut", "limit"}]
    /\ \A p \in Procs : phase[p] # "off" <=> cur[p] \in Jobs
TodoType == todo \in [Procs -> Seq(Step)]
HistType ==
    /\ died \subseteq Jobs /\ orphaned \subseteq Jobs /\ unsure \subseteq Jobs
    /\ stops \in 0 .. MaxStops /\ faults \in 0 .. MaxFaults

\* Types.  Beyond them, a reserved job names its agent, a process has a job exactly
\* while it is inside execute_job, and a job makes at most MaxCalls calls to the
\* Claude API (consume_api_call).
TypeOK ==
    /\ DbType /\ ProcType /\ TodoType /\ HistType
    /\ rq \subseteq Jobs /\ stopCmds \subseteq Jobs

\* No two active jobs of a tenant run the same agent or both write content,
\* however starts, stops, recoveries and crashes interleave (reserve_job).
Rival(a, b) ==
    a = b \/ (TenantOf[a] = TenantOf[b] /\ a \in Writers /\ b \in Writers)
Exclusion ==
    \A j, k \in Jobs : j # k /\ Active(j) /\ Active(k) => ~Rival(jobs[j].agent, jobs[k].agent)

\* The leases implement the slots of JobSlots.
SlotOf == [j \in Jobs |-> jobs[j].agent]
LifeOf == [j \in Jobs |-> IF jobs[j].status = "free" THEN "new"
                         ELSE IF jobs[j].status = "queued" THEN "waiting"
                         ELSE IF jobs[j].status = "running" THEN "started" ELSE "over"]
Slots == INSTANCE JobSlots WITH
           slot <- SlotOf, life <- LifeOf,
           Rivals <- {r \in Agents \X Agents : Rival(r[1], r[2])}
SlotsSpec == Slots!Spec

\* A job that ended keeps its outcome and its retry verdict: whichever of the
\* worker, RQ's callbacks, the recovery and the user's stop comes first decides.
EndedIsFinal ==
    [][\A j \in Jobs : jobs[j].status \in Ended =>
          /\ jobs'[j].status = jobs[j].status
          /\ jobs'[j].retryable = jobs[j].retryable]_vars

\* An agent shown as starting has an active job behind it.
StartingHasJob ==
    \A a \in Agents : rows[a] = "starting" => \E j \in Jobs : Active(j) /\ jobs[j].agent = a

\* A cancelled batch stays cancelled: once a Director ended in error or cancelled
\* and the cancellation it owes its children was made, no active child is left
\* without a cancellation request.  A lost process may leave some (orphaned), and
\* so may a Director its starter reports as not enqueued (unsure).
ChildrenCancelled ==
    \A d \in Jobs :
        \/ ~(jobs[d].status \in {"error", "cancelled"}) \/ ~IsDirector(d)
        \/ d \in orphaned \cup unsure
        \/ \E p \in Procs : \/ d \in Owed(p)
                            \/ cur[p] = d /\ phase[p] # "off"
        \/ \A c \in Jobs : Active(c) /\ jobs[c].parent = d => jobs[c].cancel

\* A job whose worker was lost while it ran never ends retryable; the exception is
\* a job its starter still reports as not enqueued (unsure).
DeathBlocksRetry ==
    \A j \in died \ unsure : jobs[j].status \in Ended => ~jobs[j].retryable

\* A batch stops as a whole: a Director the user stopped has no child without a
\* cancellation request, and reserves none any more, even while it does not know.
StopIsJoint ==
    \A d, c \in Jobs :
        /\ jobs[d].status = "running" /\ IsDirector(d)
        /\ jobs[d].cancel /\ jobs[d].retryable
        /\ Active(c) /\ jobs[c].parent = d
        => jobs[c].cancel

\* Every active job ends: queued jobs nobody takes, jobs of lost workers and
\* cancelled jobs too.
JobsEnd == \A j \in Jobs : Active(j) ~> ~Active(j)

\* A run, once closed, keeps the outcome of its job (docs/AGENT_RUNTIME_LIMITS.md:10, a
\* late worker cannot overwrite a job that already ended).
RunAgreesWithJob ==
    \A j \in Jobs : runs[j] \in Ended => runs[j] = jobs[j].status

=============================================================================
