--------------------------- MODULE AgentJobs_proofs ---------------------------
(***************************************************************************)
(* Proofs about AgentJobs: type correctness, the exclusion of rival jobs,  *)
(* the finality of an ended job, that the leases implement JobSlots, and   *)
(* that an agent shown as starting has a job.                              *)
(***************************************************************************)
EXTENDS AgentJobs, SequenceTheorems, TLAPS

-----------------------------------------------------------------------------
(* The steps an operation leaves are well formed. *)

\* cancel_children of any set of jobs is a sequence of steps.
LEMMA SweepType ==
    ASSUME NEW D \in SUBSET Jobs
    PROVE  Sweep(D) \in Seq(Step)
<1>1. [op |-> "children", of |-> D] \in Step
  BY DEF Step, ChildrenStep
<1>2. <<[op |-> "children", of |-> D]>> \in Seq(Step)
  BY <1>1
<1> QED
  BY <1>2, EmptySeq DEF Sweep

\* So is what _request_stop does after its commit.
LEMMA SignalType ==
    ASSUME NEW D \in SUBSET Jobs, NEW K \in SUBSET Jobs
    PROVE  Signal(D, K) \in Seq(Step)
<1>1. [op |-> "signal", drop |-> D, kill |-> K] \in Step
  BY DEF Step, SignalStep
<1>2. <<[op |-> "signal", drop |-> D, kill |-> K]>> \in Seq(Step)
  BY <1>1
<1> QED
  BY <1>2, EmptySeq DEF Signal

\* And one finish_job.
LEMMA FinishType ==
    ASSUME NEW j \in Jobs, NEW s \in Ended, NEW r \in BOOLEAN
    PROVE  /\ Finish(j, s, r) \in Step
           /\ <<Finish(j, s, r)>> \in Seq(Step)
<1>1. Finish(j, s, r) \in Step
  BY DEF Finish, Step, FinishStep
<1> QED
  BY <1>1

\* The finally block of execute_job and RQ's failure callback.
LEMMA ExitType ==
    ASSUME NEW j \in Jobs, NEW s \in Ended, NEW raised \in BOOLEAN
    PROVE  ExitSteps(j, s, raised) \in Seq(Step)
<1> DEFINE first == <<Finish(j, s, TRUE)>>
           kids == IF s \in {"error", "cancelled"} THEN CancelChildrenOf(j) ELSE <<>>
           close == <<[op |-> "close", job |-> j, as |-> s]>>
           last == IF raised THEN CancelChildrenOf(j) ELSE <<>>
<1>1. first \in Seq(Step)
  BY FinishType
<1>2. CancelChildrenOf(j) \in Seq(Step)
  BY SweepType, EmptySeq DEF CancelChildrenOf
<1>3. close \in Seq(Step)
  <2>1. [op |-> "close", job |-> j, as |-> s] \in Step
    BY DEF Step, CloseStep
  <2> QED
    BY <2>1
<1>4. kids \in Seq(Step) /\ last \in Seq(Step)
  BY <1>2, EmptySeq
<1>5. ExitSteps(j, s, raised) = first \o kids \o close \o last
  BY DEF ExitSteps
<1> HIDE DEF first, kids, close, last
<1> QED
  BY <1>1, <1>3, <1>4, <1>5, ConcatProperties

\* A process that replaces the step it is at keeps a sequence of steps.
LEMMA BecomesType ==
    ASSUME TodoType, NEW p \in Procs, todo[p] # <<>>,
           NEW s \in Seq(Step), Becomes(p, s)
    PROVE  TodoType'
<1>1. Tail(todo[p]) \in Seq(Step)
  BY HeadTailProperties DEF TodoType
<1>2. s \o Tail(todo[p]) \in Seq(Step)
  BY <1>1, ConcatProperties
<1> QED
  BY <1>2 DEF Becomes, TodoType

-----------------------------------------------------------------------------
(* The transactions keep the three tables well typed. *)

\* finish_job.
LEMMA FinishJobType ==
    ASSUME DbType, NEW j \in Jobs, NEW s \in Ended, NEW r \in BOOLEAN, FinishJob(j, s, r)
    PROVE  DbType'
<1>1. CASE ~MayFinish(j)
  BY <1>1 DEF FinishJob, DbType, JobsType, db
<1>2. CASE MayFinish(j)
  <2>1. JobsType'
    BY <1>2 DEF FinishJob, DbType, JobsType, JobRow, MayFinish, Active, Live, Ended
  <2>2. FinishedRow(s) \in {"idle", "starting", "working", "done", "error"}
    BY DEF FinishedRow, Ended
  <2>3. (rows \in [Agents -> {"idle", "starting", "working", "done", "error"}])'
    BY <1>2, <2>2 DEF FinishJob, DbType
  <2>4. (runs \in [Jobs -> {"none", "running"} \cup Ended])'
    BY <1>2 DEF FinishJob, DbType
  <2> QED
    BY <2>1, <2>3, <2>4 DEF DbType
<1> QED
  BY <1>1, <1>2

\* recover_expired_jobs.
LEMMA ExpireType ==
    ASSUME DbType, NEW T \in SUBSET Tenants, Expire(Expired(T))
    PROVE  DbType'
<1>1. JobsType'
  <2>1. \A j \in Jobs : ExpiredJob(jobs[j]) \in JobRow
    BY DEF DbType, JobsType, JobRow, ExpiredJob, Ended
  <2>2. (jobs \in [Jobs -> JobRow])'
    BY <2>1 DEF Expire, ExpireJobs, DbType, JobsType
  <2>3. \A j \in Jobs : jobs'[j].agent = jobs[j].agent
                        /\ (jobs[j].status = "free" => j \notin Expired(T))
    BY DEF Expire, ExpireJobs, ExpiredJob, DbType, JobsType, JobRow, Expired, Active, Live
  <2>4. \A j \in Jobs : jobs'[j].status # "free" => jobs[j].status # "free"
    BY <2>3 DEF Expire, ExpireJobs, DbType, JobsType
  <2> QED
    BY <2>2, <2>3, <2>4 DEF JobsType, DbType
<1>2. (rows \in [Agents -> {"idle", "starting", "working", "done", "error"}])'
  BY DEF Expire, ExpireRows, DbType
<1>3. (runs \in [Jobs -> {"none", "running"} \cup Ended])'
  BY DEF Expire, ExpireRuns, DbType, Ended
<1> QED
  BY <1>1, <1>2, <1>3 DEF DbType

\* _request_stop.
LEMMA RequestCancelType ==
    ASSUME DbType, NEW hits \in SUBSET Jobs, RequestCancel(hits), UNCHANGED <<rows, runs>>
    PROVE  DbType'
<1>1. \A j \in Jobs : [jobs[j] EXCEPT !.cancel = TRUE] \in JobRow
  BY DEF DbType, JobsType, JobRow
<1>2. \A j \in Jobs : jobs'[j].agent = jobs[j].agent /\ jobs'[j].status = jobs[j].status
  BY DEF RequestCancel, DbType, JobsType, JobRow
<1>3. (jobs \in [Jobs -> JobRow])'
  BY <1>1 DEF RequestCancel, DbType, JobsType
<1> QED
  BY <1>2, <1>3 DEF DbType, JobsType

\* reserve_job; the caller then enqueues the job.
LEMMA ReserveType ==
    ASSUME TypeOK, NEW p \in Procs, NEW a \in Agents, NEW q \in Jobs \cup {NoJob},
           NEW rest \in Seq(Step), Reserve(p, a, q, rest)
    PROVE  TypeOK'
<1>1. PICK j \in Jobs :
        /\ jobs[j].status = "free"
        /\ jobs' = [jobs EXCEPT ![j] = JobWith("queued", a, q)]
        /\ rows' = [rows EXCEPT ![a] = "starting"]
        /\ todo' = [todo EXCEPT ![p] = <<[op |-> "enqueue", job |-> j]>> \o rest]
  BY DEF Reserve
<1>2. JobWith("queued", a, q) \in JobRow /\ JobWith("queued", a, q).agent = a
  <2>1. 0 \in 0 .. MaxCalls
    BY ConstantsAssumption DEF ConstantsAssumption
  <2> QED
    BY <2>1 DEF JobWith, JobRow, Live
<1>3. DbType'
  <2>1. JobsType'
    BY <1>1, <1>2 DEF TypeOK, DbType, JobsType
  <2>2. (runs \in [Jobs -> {"none", "running"} \cup Ended])' /\ UNCHANGED runs
    BY DEF Reserve, TypeOK, DbType
  <2> QED
    BY <1>1, <2>1, <2>2 DEF TypeOK, DbType
<1>4. TodoType'
  <2>1. [op |-> "enqueue", job |-> j] \in Step
    BY DEF Step, EnqueueStep
  <2>2. <<[op |-> "enqueue", job |-> j]>> \o rest \in Seq(Step)
    BY <2>1, ConcatProperties
  <2> QED
    BY <1>1, <2>2 DEF TypeOK, TodoType
<1> QED
  BY <1>3, <1>4 DEF TypeOK, Reserve, mem, hist, ProcType, HistType

-----------------------------------------------------------------------------
(* Type correctness. *)

\* The initial state is well typed.
LEMMA InitType == Init => TypeOK
<1> SUFFICES ASSUME Init PROVE TypeOK
  OBVIOUS
<1>1. JobWith("free", NoJob, NoJob) \in JobRow
  <2>1. 0 \in 0 .. MaxCalls
    BY ConstantsAssumption DEF ConstantsAssumption
  <2> QED
    BY <2>1 DEF JobWith, JobRow
<1>2. DbType
  BY <1>1 DEF Init, DbType, JobsType, JobWith
<1>3. ProcType
  BY ConstantsAssumption DEF Init, ProcType, ConstantsAssumption
<1>4. TodoType
  BY EmptySeq DEF Init, TodoType
<1>5. HistType
  BY ConstantsAssumption DEF Init, HistType, ConstantsAssumption
<1> QED
  BY <1>2, <1>3, <1>4, <1>5 DEF TypeOK, Init

\* What a process is about to do is one of the steps.
LEMMA HeadType ==
    ASSUME TypeOK, NEW p \in Procs, NEW op, At(p, op)
    PROVE  /\ Head(todo[p]) \in Step /\ Head(todo[p]).op = op
           /\ todo[p] # <<>> /\ Tail(todo[p]) \in Seq(Step)
BY HeadTailProperties DEF At, TypeOK, TodoType

\* The kind of the step a process is at.
LEMMA HeadKind ==
    ASSUME TypeOK, NEW p \in Procs
    PROVE  /\ At(p, "finish") => Head(todo[p]) \in FinishStep
           /\ At(p, "close") => Head(todo[p]) \in CloseStep
           /\ At(p, "children") => Head(todo[p]) \in ChildrenStep
           /\ At(p, "signal") => Head(todo[p]) \in SignalStep
           /\ At(p, "reserve") => Head(todo[p]) \in ReserveStep
           /\ At(p, "enqueue") => Head(todo[p]) \in EnqueueStep
           /\ At(p, "reset") => Head(todo[p]) \in ResetStep
BY HeadType DEF Step, ReserveStep, FinishStep, CloseStep, ChildrenStep, SignalStep,
   ResetStep, EnqueueStep

\* A fault keeps the count of faults within its bound.
LEMMA FaultType ==
    ASSUME HistType, Fault
    PROVE  faults' \in 0 .. MaxFaults
BY ConstantsAssumption DEF HistType, Fault, ConstantsAssumption

\* recover_expired_jobs, then the steps that follow it.
LEMMA ExpireKeepsType ==
    ASSUME TypeOK, NEW p \in Procs, NEW T \in SUBSET Tenants, NEW s \in Seq(Step),
           Expire(Expired(T)), todo' = [todo EXCEPT ![p] = s],
           UNCHANGED <<rq, stopCmds, mem, hist>>
    PROVE  TypeOK'
<1>1. DbType'
  BY ExpireType DEF TypeOK
<1>2. TodoType'
  BY DEF TypeOK, TodoType
<1> QED
  BY <1>1, <1>2 DEF TypeOK, mem, hist, ProcType, HistType

\* AgentRunner.start, of a caller and of a Director.
LEMMA BeginStartType ==
    ASSUME TypeOK, NEW p \in Procs, NEW a \in Agents, NEW q \in Jobs \cup {NoJob},
           BeginStart(p, a, q)
    PROVE  TypeOK'
<1>1. CASE Expired(Tenants) = {}
  BY <1>1, ReserveType, EmptySeq DEF BeginStart
<1>2. CASE Expired(Tenants) # {}
  <2> DEFINE steps == Sweep(ExpiredDirectors(Tenants))
                      \o <<[op |-> "reserve", agent |-> a, parent |-> q]>>
  <2>1. Sweep(ExpiredDirectors(Tenants)) \in Seq(Step)
    BY SweepType DEF ExpiredDirectors, Expired
  <2>2. [op |-> "reserve", agent |-> a, parent |-> q] \in Step
    BY DEF Step, ReserveStep
  <2>3. steps \in Seq(Step)
    BY <2>1, <2>2, ConcatProperties
  <2>4. /\ Expire(Expired(Tenants)) /\ todo' = [todo EXCEPT ![p] = steps]
        /\ UNCHANGED <<rq, stopCmds, mem, hist>>
    BY <1>2 DEF BeginStart
  <2> HIDE DEF steps
  <2> QED
    BY <2>3, <2>4, ExpireKeepsType
<1> QED
  BY <1>1, <1>2

\* Every step of StepTaken keeps the types.
LEMMA StepTakenType ==
    ASSUME TypeOK, NEW p \in Procs, StepTaken(p)
    PROVE  TypeOK'
<1> DEFINE s == Head(todo[p])
<1> USE DEF mem, hist, db
<1>1. CASE ReserveGranted(p)
  <2>1. s \in ReserveStep /\ Tail(todo[p]) \in Seq(Step)
    BY <1>1, HeadKind, HeadType DEF ReserveGranted
  <2> QED
    BY <1>1, <2>1, ReserveType DEF ReserveGranted, ReserveStep
<1>2. CASE ReserveRefused(p)
  <2>1. TodoType'
    BY <1>2, HeadType, EmptySeq, BecomesType DEF ReserveRefused, TypeOK
  <2> QED
    BY <1>2, <2>1 DEF ReserveRefused, TypeOK, DbType, JobsType, ProcType, HistType
<1>3. CASE Enqueued(p)
  <2>1. s \in EnqueueStep
    BY <1>3, HeadKind DEF Enqueued
  <2>2. TodoType'
    BY <1>3, HeadType, EmptySeq, BecomesType DEF Enqueued, TypeOK
  <2> QED
    BY <1>3, <2>1, <2>2
    DEF Enqueued, EnqueueStep, TypeOK, DbType, JobsType, ProcType, HistType
<1>4. CASE EnqueueFails(p)
  <2>1. s \in EnqueueStep
    BY <1>4, HeadKind DEF EnqueueFails
  <2>2. <<Finish(s.job, "error", TRUE)>> \in Seq(Step)
    BY <2>1, FinishType DEF EnqueueStep, Ended
  <2>3. TodoType'
    BY <1>4, <2>2, HeadType, BecomesType DEF EnqueueFails, TypeOK
  <2>4. faults' \in 0 .. MaxFaults
    BY <1>4, FaultType DEF EnqueueFails, TypeOK
  <2> QED
    BY <1>4, <2>1, <2>3, <2>4
    DEF EnqueueFails, EnqueueStep, TypeOK, DbType, JobsType, ProcType, HistType
<1>5. CASE CancelChildren(p)
  <2>1. s \in ChildrenStep
    BY <1>5, HeadKind DEF CancelChildren
  <2> DEFINE hits(d) == {j \in Jobs : Active(j) /\ jobs[j].parent = d}
  <2>2. PICK d \in s.of : /\ RequestCancel(hits(d))
                          /\ Becomes(p, StopSteps(hits(d)) \o Sweep(s.of \ {d}))
    BY <1>5 DEF CancelChildren
  <2>3. StopSteps(hits(d)) \in Seq(Step)
    BY SignalType DEF StopSteps
  <2>4. Sweep(s.of \ {d}) \in Seq(Step)
    BY <2>1, SweepType DEF ChildrenStep
  <2>5. TodoType'
    BY <1>5, <2>2, <2>3, <2>4, HeadType, BecomesType, ConcatProperties
    DEF CancelChildren, TypeOK
  <2>6. DbType'
    BY <1>5, <2>2, RequestCancelType DEF CancelChildren, TypeOK
  <2> QED
    BY <1>5, <2>5, <2>6 DEF CancelChildren, TypeOK, ProcType, HistType
<1>6. CASE DropQueued(p)
  <2>1. s \in SignalStep
    BY <1>6, HeadKind DEF DropQueued
  <2>2. PICK j \in s.drop : /\ FinishJob(j, "cancelled", TRUE)
                            /\ \/ rq' = rq \ {j} /\ UNCHANGED faults
                               \/ Fault /\ UNCHANGED rq
                            /\ Becomes(p, Signal(s.drop \ {j}, s.kill))
    BY <1>6 DEF DropQueued
  <2>3. Signal(s.drop \ {j}, s.kill) \in Seq(Step)
    BY <2>1, SignalType DEF SignalStep
  <2>4. TodoType'
    BY <1>6, <2>2, <2>3, HeadType, BecomesType DEF DropQueued, TypeOK
  <2>5. DbType'
    BY <2>1, <2>2, FinishJobType DEF SignalStep, Ended, TypeOK
  <2>6. faults' \in 0 .. MaxFaults
    BY <2>2, FaultType DEF TypeOK, HistType
  <2> QED
    BY <1>6, <2>2, <2>4, <2>5, <2>6 DEF DropQueued, TypeOK, ProcType, HistType
<1>7. CASE SendStop(p)
  <2>1. s \in SignalStep
    BY <1>7, HeadKind DEF SendStop
  <2>2. PICK j \in s.kill : /\ \/ /\ stopCmds' = IF \E w \in Workers : cur[w] = j
                                             THEN stopCmds \cup {j} ELSE stopCmds
                                  /\ UNCHANGED faults
                               \/ Fault /\ UNCHANGED stopCmds
                            /\ Becomes(p, Signal(s.drop, s.kill \ {j}))
    BY <1>7 DEF SendStop
  <2>3. Signal(s.drop, s.kill \ {j}) \in Seq(Step)
    BY <2>1, SignalType DEF SignalStep
  <2>4. TodoType'
    BY <1>7, <2>2, <2>3, HeadType, BecomesType DEF SendStop, TypeOK
  <2>5. faults' \in 0 .. MaxFaults
    BY <2>2, FaultType DEF TypeOK, HistType
  <2>6. stopCmds' \subseteq Jobs
    BY <2>1, <2>2 DEF SignalStep, TypeOK
  <2> QED
    BY <1>7, <2>4, <2>5, <2>6 DEF SendStop, TypeOK, DbType, JobsType, ProcType, HistType
<1>8. CASE ResetRows(p)
  <2>1. TodoType'
    <3>1. [op |-> "force", tenant |-> s.tenant] \in Step
      BY <1>8, HeadKind DEF ResetRows, ResetStep, Step
    <3>2. <<[op |-> "force", tenant |-> s.tenant]>> \in Seq(Step)
      BY <3>1
    <3> QED
      BY <1>8, <3>2, HeadType, EmptySeq, BecomesType DEF ResetRows, TypeOK
  <2>2. DbType'
    BY <1>8 DEF ResetRows, TypeOK, DbType, JobsType
  <2> QED
    BY <1>8, <2>1, <2>2 DEF ResetRows, TypeOK, ProcType, HistType
<1>11. CASE ForceRows(p)
  <2>1. TodoType'
    BY <1>11, HeadType, EmptySeq, BecomesType DEF ForceRows, TypeOK
  <2>2. DbType'
    BY <1>11 DEF ForceRows, TypeOK, DbType, JobsType
  <2> QED
    BY <1>11, <2>1, <2>2 DEF ForceRows, TypeOK, ProcType, HistType
<1>9. CASE FinishStepTaken(p)
  <2>1. s \in FinishStep
    BY <1>9, HeadKind DEF FinishStepTaken
  <2>2. TodoType'
    BY <1>9, HeadType, EmptySeq, BecomesType DEF FinishStepTaken, TypeOK
  <2>3. DbType'
    BY <1>9, <2>1, FinishJobType DEF FinishStepTaken, FinishStep, TypeOK
  <2> QED
    BY <1>9, <2>2, <2>3 DEF FinishStepTaken, TypeOK, ProcType, HistType
<1>10. CASE CloseRun(p)
  <2>1. s \in CloseStep
    BY <1>10, HeadKind DEF CloseRun
  <2>2. TodoType'
    BY <1>10, HeadType, EmptySeq, BecomesType DEF CloseRun, TypeOK
  <2>3. DbType'
    BY <1>10, <2>1 DEF CloseRun, CloseStep, TypeOK, DbType, JobsType
  <2> QED
    BY <1>10, <2>2, <2>3 DEF CloseRun, TypeOK, ProcType, HistType
<1> QED
  BY <1>1, <1>2, <1>3, <1>4, <1>5, <1>6, <1>7, <1>8, <1>9, <1>10, <1>11 DEF StepTaken

\* What a web process or the scheduler begins keeps the types.
LEMMA CallerType ==
    ASSUME TypeOK, NEW p \in Callers, CallerNext(p)
    PROVE  TypeOK'
<1>0. p \in Procs
  BY DEF Procs
<1> USE DEF mem, hist, db
<1>1. ASSUME NEW a \in Agents, CallerStarts(p, a) PROVE TypeOK'
  BY <1>0, <1>1, BeginStartType DEF CallerStarts
<1>2. ASSUME NEW a \in Agents, StopAgent(p, a) PROVE TypeOK'
  <2> DEFINE hits == {j \in Jobs : Active(j) /\ jobs[j].agent = a}
  <2>1. StopSteps(hits) \in Seq(Step)
    BY SignalType DEF StopSteps
  <2>2. TodoType'
    BY <1>0, <1>2, <2>1 DEF StopAgent, TypeOK, TodoType
  <2>3. DbType'
    BY <1>2, RequestCancelType DEF StopAgent, TypeOK
  <2>4. stops' \in 0 .. MaxStops
    BY <1>2, ConstantsAssumption
    DEF StopAgent, UserStop, TypeOK, HistType, ConstantsAssumption
  <2> QED
    BY <1>2, <2>2, <2>3, <2>4 DEF StopAgent, TypeOK, ProcType, HistType
<1>3. ASSUME NEW t \in Tenants, StopAll(p, t) PROVE TypeOK'
  <2> DEFINE hits == {j \in Jobs : Active(j) /\ JobTenant(j) = t}
             reset == [op |-> "reset", tenant |-> t]
  <2>1. StopSteps(hits) \in Seq(Step)
    BY SignalType DEF StopSteps
  <2>2. reset \in Step
    BY DEF Step, ResetStep
  <2>3. StopSteps(hits) \o <<reset>> \in Seq(Step)
    BY <2>1, <2>2, ConcatProperties
  <2>4. TodoType'
    BY <1>0, <1>3, <2>3 DEF StopAll, TypeOK, TodoType
  <2>5. DbType'
    BY <1>3, RequestCancelType DEF StopAll, TypeOK
  <2>6. stops' \in 0 .. MaxStops
    BY <1>3, ConstantsAssumption
    DEF StopAll, UserStop, TypeOK, HistType, ConstantsAssumption
  <2> QED
    BY <1>3, <2>4, <2>5, <2>6 DEF StopAll, TypeOK, ProcType, HistType
<1>4. ASSUME RepairRows(p) PROVE TypeOK'
  BY <1>4 DEF RepairRows, TypeOK, DbType, JobsType, ProcType, TodoType, HistType
<1> QED
  BY <1>1, <1>2, <1>3, <1>4 DEF CallerNext

\* recover_expired_jobs of the scheduler, of a web process and of a Director.
LEMMA RecoverType ==
    ASSUME TypeOK, NEW p \in Procs, NEW T \in SUBSET Tenants, Recover(p, T)
    PROVE  TypeOK'
<1>1. Sweep(ExpiredDirectors(T)) \in Seq(Step)
  BY SweepType DEF ExpiredDirectors, Expired
<1> QED
  BY <1>1, ExpireKeepsType DEF Recover

\* A process that leaves execute_job keeps the types.
LEMMA LeavingType ==
    ASSUME TypeOK, NEW p \in Procs, NEW s \in Seq(Step), Leaving(p, s), cur[p] \in Jobs,
           UNCHANGED <<db, rq, stopCmds, cur, tok, hist>>
    PROVE  TypeOK'
<1>1. ProcType'
  BY DEF Leaving, TypeOK, ProcType
<1>2. TodoType'
  BY DEF Leaving, TypeOK, TodoType
<1> QED
  BY <1>1, <1>2 DEF TypeOK, DbType, JobsType, HistType, db, hist

\* The horse of a worker is gone and the worker runs its callback.
LEMMA HorseGoneType ==
    ASSUME TypeOK, NEW p \in Procs, NEW s \in Ended, HorseGone(p, s)
    PROVE  DbType' /\ ProcType' /\ TodoType' /\ orphaned' \subseteq Jobs /\ rq' \subseteq Jobs
<1>1. cur[p] \in Jobs
  BY DEF HorseGone, TypeOK, ProcType
<1>2. CancelChildrenOf(cur[p]) \in Seq(Step)
  BY <1>1, SweepType, EmptySeq DEF CancelChildrenOf
<1>3. <<Finish(cur[p], s, FALSE)>> \o CancelChildrenOf(cur[p]) \in Seq(Step)
  BY <1>1, <1>2, FinishType, ConcatProperties
<1>4. TodoType'
  BY <1>3 DEF HorseGone, TypeOK, TodoType
<1>5. ProcType'
  BY <1>1 DEF HorseGone, TypeOK, ProcType
<1> QED
  BY <1>4, <1>5 DEF HorseGone, Owed, TypeOK, DbType, JobsType, HistType, db

\* A worker that changes one row of agent_jobs, and what it knows of it.
LEMMA JobUpdateType ==
    ASSUME TypeOK, NEW j \in Jobs, NEW r \in JobRow, jobs' = [jobs EXCEPT ![j] = r],
           r.status # "free" => r.agent \in Agents
    PROVE  JobsType'
BY DEF TypeOK, DbType, JobsType

\* Cancellation.block keeps the rows of agent_jobs well typed.
LEMMA BlockJobType ==
    ASSUME TypeOK, NEW j \in Jobs, BlockJob(j)
    PROVE  JobsType'
<1>1. [jobs[j] EXCEPT !.retryable = FALSE, !.cancel = TRUE] \in JobRow
  BY DEF TypeOK, DbType, JobsType, JobRow
<1>2. CASE jobs[j].status = "running"
  <2>1. jobs' = [jobs EXCEPT ![j] = [jobs[j] EXCEPT !.retryable = FALSE, !.cancel = TRUE]]
    BY <1>2 DEF BlockJob, TypeOK, DbType, JobsType, JobRow
  <2>2. jobs'[j].agent = jobs[j].agent /\ jobs'[j].status = jobs[j].status
    BY <2>1 DEF TypeOK, DbType, JobsType, JobRow
  <2> QED
    BY <1>1, <2>1, <2>2 DEF TypeOK, DbType, JobsType
<1>3. CASE jobs[j].status # "running"
  BY <1>3 DEF BlockJob, TypeOK, DbType, JobsType
<1> QED
  BY <1>2, <1>3

\* What a worker does with a job keeps the types.
LEMMA WorkerType ==
    ASSUME TypeOK, NEW p \in Workers, WorkerNext(p)
    PROVE  TypeOK'
<1>0. p \in Procs
  BY DEF Procs
<1> USE DEF mem, hist, db
<1>a. cur[p] \in Jobs <=> phase[p] # "off"
  BY <1>0 DEF TypeOK, ProcType
<1>1. ASSUME NEW a \in Agents, DirectorStarts(p, a) PROVE TypeOK'
  BY <1>0, <1>a, <1>1, BeginStartType DEF DirectorStarts
<1>2. ASSUME NEW j \in Jobs, SkipJob(p, j) PROVE TypeOK'
  BY <1>2 DEF SkipJob, Take, TypeOK, DbType, JobsType, ProcType, TodoType, HistType
<1>3. ASSUME NEW j \in Jobs, RefuseJob(p, j) PROVE TypeOK'
  <2>1. CancelChildrenOf(j) \in Seq(Step)
    BY SweepType, EmptySeq DEF CancelChildrenOf
  <2>2. /\ <<Finish(j, "cancelled", TRUE)>> \in Seq(Step)
        /\ <<Finish(j, "error", TRUE)>> \o CancelChildrenOf(j) \in Seq(Step)
    BY <2>1, FinishType, ConcatProperties DEF Ended
  <2>3. TodoType'
    BY <1>0, <1>3, <2>2 DEF RefuseJob, Leaving, TypeOK, TodoType
  <2>4. ProcType'
    BY <1>0, <1>3 DEF RefuseJob, Leaving, TypeOK, ProcType
  <2> QED
    BY <1>3, <2>3, <2>4 DEF RefuseJob, Take, TypeOK, DbType, JobsType, HistType
<1>4. ASSUME NEW j \in Jobs, ClaimJob(p, j) PROVE TypeOK'
  <2>1. JobsType'
    <3> DEFINE r == [jobs[j] EXCEPT !.status = "running", !.stale = FALSE]
    <3>1. r \in JobRow /\ r.agent \in Agents
      BY <1>4 DEF ClaimJob, Claimable, TypeOK, DbType, JobsType, JobRow, Live
    <3>2. jobs' = [jobs EXCEPT ![j] = r]
      BY <1>4 DEF ClaimJob, TypeOK, DbType, JobsType, JobRow
    <3> HIDE DEF r
    <3> QED
      BY <3>1, <3>2, JobUpdateType
  <2>2. DbType'
    BY <1>4, <2>1 DEF ClaimJob, TypeOK, DbType
  <2>3. ProcType'
    BY <1>0, <1>4 DEF ClaimJob, TypeOK, ProcType
  <2> QED
    BY <1>4, <2>2, <2>3 DEF ClaimJob, Take, TypeOK, TodoType, HistType
<1>5. ASSUME AgentReady(p) PROVE TypeOK'
  <2>1. ProcType'
    BY <1>0, <1>5 DEF AgentReady, TypeOK, ProcType
  <2> QED
    BY <1>5, <2>1 DEF AgentReady, TypeOK, DbType, JobsType, TodoType, HistType
<1>6. ASSUME AgentNotReady(p) PROVE TypeOK'
  <2>1. cur[p] \in Jobs
    BY <1>a, <1>6 DEF AgentNotReady
  <2>2. /\ ExitSteps(cur[p], "idle", FALSE) \in Seq(Step)
        /\ ExitSteps(cur[p], "error", TRUE) \in Seq(Step)
    BY <2>1, ExitType DEF Ended
  <2> QED
    BY <1>0, <1>6, <2>1, <2>2, LeavingType DEF AgentNotReady
<1>7. ASSUME Heartbeat(p) PROVE TypeOK'
  <2>1. cur[p] \in Jobs
    BY <1>a, <1>7 DEF Heartbeat
  <2>2. JobsType'
    BY <1>7, <2>1 DEF Heartbeat, TypeOK, DbType, JobsType, JobRow
  <2> QED
    BY <1>7, <2>2 DEF Heartbeat, TypeOK, DbType, ProcType, TodoType, HistType
<1>8. ASSUME PollToken(p) PROVE TypeOK'
  <2>1. ProcType'
    BY <1>0, <1>8 DEF PollToken, TypeOK, ProcType
  <2> QED
    BY <1>8, <2>1 DEF PollToken, TypeOK, DbType, JobsType, TodoType, HistType
<1>9. ASSUME TimeLimit(p) PROVE TypeOK'
  <2>1. cur[p] \in Jobs
    BY <1>a, <1>9 DEF TimeLimit, Running
  <2>2. JobsType'
    BY <1>9, <2>1, BlockJobType DEF TimeLimit
  <2>3. ProcType'
    BY <1>0, <1>9 DEF TimeLimit, TypeOK, ProcType
  <2> QED
    BY <1>9, <2>2, <2>3 DEF TimeLimit, TypeOK, DbType, TodoType, HistType
<1>10. ASSUME ConsumeApiCall(p) PROVE TypeOK'
  <2> DEFINE j == cur[p]
  <2>1. j \in Jobs
    BY <1>a, <1>10 DEF ConsumeApiCall, Running
  <2>2. JobsType'
    <3>1. CASE /\ InBudget(j) /\ jobs' = [jobs EXCEPT ![j].calls = @ + 1]
      <4>1. jobs[j].calls + 1 \in 0 .. MaxCalls
        BY <2>1, <3>1, ConstantsAssumption
        DEF InBudget, TypeOK, DbType, JobsType, JobRow, ConstantsAssumption
      <4>2. [jobs[j] EXCEPT !.calls = @ + 1] \in JobRow
        BY <2>1, <4>1 DEF TypeOK, DbType, JobsType, JobRow
      <4>3. \A k \in Jobs : jobs'[k].agent = jobs[k].agent
                            /\ jobs'[k].status = jobs[k].status
        BY <2>1, <3>1 DEF TypeOK, DbType, JobsType, JobRow
      <4> QED
        BY <2>1, <3>1, <4>2, <4>3 DEF TypeOK, DbType, JobsType
    <3>2. CASE UNCHANGED jobs
      BY <3>2 DEF TypeOK, DbType, JobsType
    <3>3. CASE BlockJob(j)
      BY <2>1, <3>3, BlockJobType
    <3> QED
      BY <1>10, <3>1, <3>2, <3>3 DEF ConsumeApiCall
  <2>3. ProcType'
    BY <1>0, <1>10 DEF ConsumeApiCall, TypeOK, ProcType
  <2> QED
    BY <1>10, <2>2, <2>3 DEF ConsumeApiCall, TypeOK, DbType, TodoType, HistType
<1>11. ASSUME AgentReturns(p) PROVE TypeOK'
  <2>1. cur[p] \in Jobs
    BY <1>a, <1>11 DEF AgentReturns, Running
  <2>2. PICK s \in {"cancelled", "error", "done"}, raised \in BOOLEAN :
          Leaving(p, ExitSteps(cur[p], s, raised))
    BY <1>11 DEF AgentReturns
  <2>3. ExitSteps(cur[p], s, raised) \in Seq(Step)
    BY <2>1, ExitType DEF Ended
  <2> QED
    BY <1>0, <1>11, <2>1, <2>2, <2>3, LeavingType DEF AgentReturns
<1>12. ASSUME AgentRaises(p) PROVE TypeOK'
  <2>1. cur[p] \in Jobs
    BY <1>a, <1>12 DEF AgentRaises, Running
  <2>2. PICK s \in {"cancelled", "error"}, raised \in BOOLEAN :
          Leaving(p, ExitSteps(cur[p], s, raised))
    BY <1>12 DEF AgentRaises
  <2>3. ExitSteps(cur[p], s, raised) \in Seq(Step)
    BY <2>1, ExitType DEF Ended
  <2> QED
    BY <1>0, <1>12, <2>1, <2>2, <2>3, LeavingType DEF AgentRaises
<1>13. ASSUME NEW s \in Reports, SetStatus(p, s) PROVE TypeOK'
  <2>1. s \in {"working", "done", "error", "idle"}
    BY ConstantsAssumption DEF ConstantsAssumption
  <2>2. DbType'
    BY <1>13, <2>1 DEF SetStatus, TypeOK, DbType, JobsType
  <2> QED
    BY <1>13, <2>2 DEF SetStatus, TypeOK, ProcType, TodoType, HistType
<1>14. ASSUME LeaveJob(p) PROVE TypeOK'
  <2>1. ProcType'
    BY <1>0, <1>14, ConstantsAssumption
    DEF LeaveJob, TypeOK, ProcType, ConstantsAssumption
  <2> QED
    BY <1>14, <2>1 DEF LeaveJob, TypeOK, DbType, JobsType, TodoType, HistType
<1>15. ASSUME HorseDies(p) PROVE TypeOK'
  <2>1. DbType' /\ ProcType' /\ TodoType' /\ orphaned' \subseteq Jobs /\ rq' \subseteq Jobs
    BY <1>0, <1>15, HorseGoneType DEF HorseDies, Ended
  <2>2. faults' \in 0 .. MaxFaults
    BY <1>15, FaultType DEF HorseDies, TypeOK
  <2> QED
    BY <1>15, <2>1, <2>2 DEF HorseDies, HorseGone, DiesRunning, TypeOK, HistType
<1>16. ASSUME StopDelivered(p) PROVE TypeOK'
  <2>1. DbType' /\ ProcType' /\ TodoType' /\ orphaned' \subseteq Jobs /\ rq' \subseteq Jobs
    BY <1>0, <1>16, HorseGoneType DEF StopDelivered, Ended
  <2> QED
    BY <1>16, <2>1 DEF StopDelivered, HorseGone, TypeOK, HistType
<1> QED
  BY <1>1, <1>2, <1>3, <1>4, <1>5, <1>6, <1>7, <1>8, <1>9, <1>10, <1>11, <1>12,
     <1>13, <1>14, <1>15, <1>16 DEF WorkerNext

\* Every step of the system keeps the types.
LEMMA NextType == TypeOK /\ [Next]_vars => TypeOK'
<1> SUFFICES ASSUME TypeOK, [Next]_vars PROVE TypeOK'
  OBVIOUS
<1> USE DEF mem, hist, db
<1>1. ASSUME NEW p \in Procs, ProcessDies(p) PROVE TypeOK'
  <2>1. ProcType'
    BY <1>1, ConstantsAssumption DEF ProcessDies, TypeOK, ProcType, ConstantsAssumption
  <2>2. TodoType'
    BY <1>1, EmptySeq DEF ProcessDies, TypeOK, TodoType
  <2>3. HistType'
    BY <1>1, FaultType DEF ProcessDies, Owed, DiesRunning, TypeOK, HistType
  <2> QED
    BY <1>1, <2>1, <2>2, <2>3 DEF ProcessDies, TypeOK, DbType, JobsType
<1>2. ASSUME NEW j \in Jobs, RqLoses(j) PROVE TypeOK'
  <2>1. faults' \in 0 .. MaxFaults
    BY <1>2, FaultType DEF RqLoses, TypeOK
  <2> QED
    BY <1>2, <2>1 DEF RqLoses, TypeOK, DbType, JobsType, ProcType, TodoType, HistType
<1>3. ASSUME NEW j \in Jobs, Age(j) PROVE TypeOK'
  <2>1. faults' \in 0 .. MaxFaults
    BY <1>3, FaultType DEF Age, TypeOK, HistType
  <2>2. JobsType'
    BY <1>3 DEF Age, TypeOK, DbType, JobsType, JobRow
  <2> QED
    BY <1>3, <2>1, <2>2 DEF Age, TypeOK, DbType, ProcType, TodoType, HistType
<1>4. CASE UNCHANGED vars
  BY <1>4 DEF vars, TypeOK, DbType, JobsType, ProcType, TodoType, HistType
<1>5. Callers \subseteq Procs /\ Workers \subseteq Procs
  BY DEF Procs
<1> QED
  BY <1>1, <1>2, <1>3, <1>4, <1>5, StepTakenType, RecoverType, CallerType, WorkerType
  DEF Next

\* Type correctness of every reachable state, for all values of the constants.
THEOREM TypeCorrect == Spec => []TypeOK
BY InitType, NextType, PTL DEF Spec

-----------------------------------------------------------------------------
(* What one step of the system can do to the jobs: nothing, end some, start one *)
(* or grant one that has no rival.                                              *)

SameJob(j) == jobs'[j].status = jobs[j].status /\ jobs'[j].agent = jobs[j].agent
Released == \A j \in Jobs : \/ SameJob(j)
                            \/ /\ Active(j) /\ jobs'[j].status \in Ended
                               /\ jobs'[j].agent = jobs[j].agent
Started == \E j \in Jobs : /\ jobs[j].status = "queued" /\ jobs'[j].status = "running"
                           /\ jobs'[j].agent = jobs[j].agent
                           /\ \A k \in Jobs \ {j} : SameJob(k)
Granted == \E j \in Jobs, a \in Agents :
             /\ jobs[j].status = "free" /\ jobs'[j].status = "queued"
             /\ jobs'[j].agent = a /\ ~Conflict(a)
             /\ \A k \in Jobs \ {j} : SameJob(k)
Final == \A j \in Jobs : jobs[j].status \in Ended =>
            jobs'[j].status = jobs[j].status /\ jobs'[j].retryable = jobs[j].retryable

\* A step that leaves agent_jobs alone.
LEMMA SameJobs == ASSUME UNCHANGED jobs PROVE Released /\ Final
BY DEF Released, SameJob, Final

\* finish_job ends at most one active job.
LEMMA FinishJobMove ==
    ASSUME TypeOK, NEW j \in Jobs, NEW s \in Ended, NEW r \in BOOLEAN, FinishJob(j, s, r)
    PROVE  Released /\ Final
<1>1. CASE ~MayFinish(j)
  BY <1>1, SameJobs DEF FinishJob, db
<1>2. CASE MayFinish(j)
  <2>1. /\ jobs'[j].status = s /\ jobs'[j].agent = jobs[j].agent
        /\ \A k \in Jobs \ {j} : jobs'[k] = jobs[k]
    BY <1>2 DEF FinishJob, TypeOK, DbType, JobsType, JobRow
  <2>2. Active(j) /\ jobs[j].status \notin Ended
    BY <1>2 DEF MayFinish, Active, Live, Ended
  <2> QED
    BY <2>1, <2>2 DEF Released, SameJob, Final
<1> QED
  BY <1>1, <1>2

\* recover_expired_jobs ends active jobs only.
LEMMA ExpireMove ==
    ASSUME TypeOK, NEW T \in SUBSET Tenants, Expire(Expired(T))
    PROVE  Released /\ Final
<1>1. \A j \in Jobs : j \in Expired(T) => Active(j) /\ jobs[j].status \notin Ended
  BY DEF Expired, Active, Live, Ended
<1>2. \A j \in Jobs : j \notin Expired(T) => jobs'[j] = jobs[j]
  BY DEF Expire, ExpireJobs
<1>3. \A j \in Jobs : j \in Expired(T) => /\ jobs'[j].status = "error"
                                          /\ jobs'[j].agent = jobs[j].agent
  BY DEF Expire, ExpireJobs, ExpiredJob, TypeOK, DbType, JobsType, JobRow
<1> QED
  BY <1>1, <1>2, <1>3 DEF Released, SameJob, Final, Ended

\* _request_stop ends no job.
LEMMA RequestCancelMove ==
    ASSUME TypeOK, NEW hits \in SUBSET Jobs, RequestCancel(hits)
    PROVE  Released /\ Final
BY DEF RequestCancel, Released, SameJob, Final, TypeOK, DbType, JobsType, JobRow

\* reserve_job grants one job without a rival.
LEMMA ReserveMove ==
    ASSUME TypeOK, NEW p \in Procs, NEW a \in Agents, NEW q, NEW rest,
           Reserve(p, a, q, rest)
    PROVE  Granted /\ Final
<1>1. PICK j \in Jobs : /\ jobs[j].status = "free"
                        /\ jobs' = [jobs EXCEPT ![j] = JobWith("queued", a, q)]
  BY DEF Reserve
<1>2. /\ jobs'[j].status = "queued" /\ jobs'[j].agent = a
      /\ \A k \in Jobs \ {j} : jobs'[k] = jobs[k]
  BY <1>1 DEF JobWith, TypeOK, DbType, JobsType
<1>3. ~Conflict(a)
  BY DEF Reserve, Refused
<1>4. jobs[j].status \notin Ended
  BY <1>1 DEF Ended
<1> QED
  BY <1>1, <1>2, <1>3, <1>4 DEF Granted, SameJob, Final

\* AgentRunner.start: a recovery or a grant.
LEMMA BeginStartMove ==
    ASSUME TypeOK, NEW p \in Procs, NEW a \in Agents, NEW q, BeginStart(p, a, q)
    PROVE  (Released \/ Granted) /\ Final
<1>1. CASE Expired(Tenants) = {}
  BY <1>1, ReserveMove DEF BeginStart
<1>2. CASE Expired(Tenants) # {}
  BY <1>2, ExpireMove DEF BeginStart
<1> QED
  BY <1>1, <1>2

\* Cancellation.block ends no job.
LEMMA BlockJobMove ==
    ASSUME TypeOK, NEW j \in Jobs, BlockJob(j)
    PROVE  Released /\ Final
BY DEF BlockJob, Released, SameJob, Final, Ended, TypeOK, DbType, JobsType, JobRow

\* A step of StepTaken ends some jobs or grants one.
LEMMA StepTakenMove ==
    ASSUME TypeOK, NEW p \in Procs, StepTaken(p)
    PROVE  (Released \/ Granted) /\ Final
<1> USE DEF db
<1>1. CASE ReserveGranted(p)
  <2>1. Head(todo[p]).agent \in Agents
    BY <1>1, HeadKind DEF ReserveGranted, ReserveStep
  <2> QED
    BY <1>1, <2>1, ReserveMove DEF ReserveGranted
<1>2. CASE ReserveRefused(p) \/ Enqueued(p) \/ EnqueueFails(p) \/ SendStop(p)
           \/ ResetRows(p) \/ ForceRows(p) \/ CloseRun(p)
  BY <1>2, SameJobs
  DEF ReserveRefused, Enqueued, EnqueueFails, SendStop, ResetRows, ForceRows,
      CloseRun
<1>3. CASE CancelChildren(p)
  <2>1. PICK d : RequestCancel({j \in Jobs : Active(j) /\ jobs[j].parent = d})
    BY <1>3 DEF CancelChildren
  <2> QED
    BY <2>1, RequestCancelMove
<1>4. CASE DropQueued(p)
  <2>1. Head(todo[p]) \in SignalStep
    BY <1>4, HeadKind DEF DropQueued
  <2>2. PICK j \in Head(todo[p]).drop : FinishJob(j, "cancelled", TRUE)
    BY <1>4 DEF DropQueued
  <2> QED
    BY <2>1, <2>2, FinishJobMove DEF SignalStep, Ended
<1>5. CASE FinishStepTaken(p)
  <2>1. Head(todo[p]) \in FinishStep
    BY <1>5, HeadKind DEF FinishStepTaken
  <2> QED
    BY <1>5, <2>1, FinishJobMove DEF FinishStepTaken, FinishStep
<1> QED
  BY <1>1, <1>2, <1>3, <1>4, <1>5 DEF StepTaken

\* A caller ends some jobs or grants one.
LEMMA CallerMove ==
    ASSUME TypeOK, NEW p \in Callers, CallerNext(p)
    PROVE  (Released \/ Granted) /\ Final
<1>0. p \in Procs
  BY DEF Procs
<1>1. ASSUME NEW a \in Agents, CallerStarts(p, a) PROVE (Released \/ Granted) /\ Final
  BY <1>0, <1>1, BeginStartMove DEF CallerStarts
<1>2. ASSUME NEW a \in Agents, StopAgent(p, a) PROVE Released /\ Final
  BY <1>2, RequestCancelMove DEF StopAgent
<1>3. ASSUME NEW t \in Tenants, StopAll(p, t) PROVE Released /\ Final
  BY <1>3, RequestCancelMove DEF StopAll
<1>4. ASSUME RepairRows(p) PROVE Released /\ Final
  BY <1>4, SameJobs DEF RepairRows
<1> QED
  BY <1>1, <1>2, <1>3, <1>4 DEF CallerNext

\* A worker starts a queued job, or a Director grants one; no other step of a
\* worker changes what a job is.
LEMMA WorkerMove ==
    ASSUME TypeOK, NEW p \in Workers, WorkerNext(p)
    PROVE  (Released \/ Started \/ Granted) /\ Final
<1>0. p \in Procs
  BY DEF Procs
<1> USE DEF db
<1>a. phase[p] # "off" => cur[p] \in Jobs
  BY <1>0 DEF TypeOK, ProcType
<1>1. ASSUME NEW a \in Agents, DirectorStarts(p, a) PROVE (Released \/ Granted) /\ Final
  BY <1>0, <1>1, BeginStartMove DEF DirectorStarts
<1>2. ASSUME NEW j \in Jobs, SkipJob(p, j) \/ RefuseJob(p, j) PROVE Released /\ Final
  BY <1>2, SameJobs DEF SkipJob, RefuseJob
<1>3. ASSUME NEW j \in Jobs, ClaimJob(p, j) PROVE Started /\ Final
  <2>1. /\ jobs[j].status = "queued" /\ jobs'[j].status = "running"
        /\ jobs'[j].agent = jobs[j].agent
        /\ \A k \in Jobs \ {j} : jobs'[k] = jobs[k]
    BY <1>3 DEF ClaimJob, Claimable, TypeOK, DbType, JobsType, JobRow
  <2> QED
    BY <2>1 DEF Started, SameJob, Final, Ended
<1>4. CASE Heartbeat(p)
  BY <1>4 DEF Heartbeat, Released, SameJob, Final, TypeOK, DbType, JobsType, JobRow
<1>5. CASE TimeLimit(p)
  BY <1>a, <1>5, BlockJobMove DEF TimeLimit, Running
<1>6. CASE ConsumeApiCall(p)
  <2>1. CASE UNCHANGED jobs
    BY <2>1, SameJobs
  <2>2. CASE BlockJob(cur[p])
    BY <1>a, <1>6, <2>2, BlockJobMove DEF ConsumeApiCall, Running
  <2>3. CASE jobs' = [jobs EXCEPT ![cur[p]].calls = @ + 1]
    BY <2>3 DEF Released, SameJob, Final, TypeOK, DbType, JobsType, JobRow
  <2> QED
    BY <1>6, <2>1, <2>2, <2>3 DEF ConsumeApiCall
<1>7. ASSUME NEW s \in Reports, SetStatus(p, s) PROVE Released /\ Final
  BY <1>7, SameJobs DEF SetStatus
<1>8. CASE AgentReady(p) \/ AgentNotReady(p) \/ PollToken(p) \/ AgentReturns(p)
           \/ AgentRaises(p) \/ LeaveJob(p) \/ HorseDies(p) \/ StopDelivered(p)
  BY <1>8, SameJobs DEF AgentReady, AgentNotReady, PollToken, AgentReturns,
     AgentRaises, LeaveJob, HorseDies, StopDelivered, HorseGone
<1> QED
  BY <1>1, <1>2, <1>3, <1>4, <1>5, <1>6, <1>7, <1>8 DEF WorkerNext

\* Every step of the system is one of the four kinds.
LEMMA NextMove ==
    ASSUME TypeOK, [Next]_vars
    PROVE  (Released \/ Started \/ Granted) /\ Final
<1>1. ASSUME NEW p \in Procs, ProcessDies(p) PROVE Released /\ Final
  BY <1>1, SameJobs DEF ProcessDies, db
<1>2. ASSUME NEW p \in Procs, NEW T \in SUBSET Tenants, Recover(p, T)
      PROVE  Released /\ Final
  BY <1>2, ExpireMove DEF Recover
<1>3. ASSUME NEW j \in Jobs, RqLoses(j) PROVE Released /\ Final
  BY <1>3, SameJobs DEF RqLoses, db
<1>4. ASSUME NEW j \in Jobs, Age(j) PROVE Released /\ Final
  BY <1>4 DEF Age, Released, SameJob, Final, TypeOK, DbType, JobsType, JobRow
<1>5. CASE UNCHANGED vars
  BY <1>5, SameJobs DEF vars
<1> QED
  BY <1>1, <1>2, <1>3, <1>4, <1>5, StepTakenMove, CallerMove, WorkerMove DEF Next

-----------------------------------------------------------------------------
(* Exclusion, finality, refinement. *)

\* No step of a well-typed state breaks the exclusion.
LEMMA ExclusionStep ==
    ASSUME TypeOK, TypeOK', Exclusion, [Next]_vars
    PROVE  Exclusion'
<1>1. CASE Released
  <2>1. \A j \in Jobs : Active(j)' => Active(j) /\ jobs'[j].agent = jobs[j].agent
    BY <1>1 DEF Released, SameJob, Active, Live, Ended
  <2> QED
    BY <2>1 DEF Exclusion, Rival
<1>2. CASE Started
  <2>1. \A j \in Jobs : Active(j)' => Active(j) /\ jobs'[j].agent = jobs[j].agent
    BY <1>2 DEF Started, SameJob, Active, Live
  <2> QED
    BY <2>1 DEF Exclusion, Rival
<1>3. CASE Granted
  <2>1. PICK j \in Jobs, a \in Agents :
          /\ jobs'[j].agent = a /\ ~Conflict(a)
          /\ \A k \in Jobs \ {j} : SameJob(k)
    BY <1>3 DEF Granted
  <2>2. \A k \in Jobs \ {j} : Active(k) => ~Rival(a, jobs[k].agent)
                                            /\ ~Rival(jobs[k].agent, a)
    BY <2>1 DEF Conflict, Rival, JobTenant
  <2>3. \A k \in Jobs \ {j} : /\ Active(k)' <=> Active(k)
                              /\ jobs'[k].agent = jobs[k].agent
    BY <2>1 DEF SameJob, Active
  <2> QED
    BY <2>1, <2>2, <2>3 DEF Exclusion, Rival
<1> QED
  BY <1>1, <1>2, <1>3, NextMove

\* No two active jobs of a tenant are rivals, in any interleaving of any number of
\* processes, jobs and tenants.
THEOREM ExclusionHolds == Spec => []Exclusion
<1>1. Init => Exclusion
  BY DEF Init, Exclusion, Active, Live, JobWith
<1>2. TypeOK /\ TypeOK' /\ Exclusion /\ [Next]_vars => Exclusion'
  BY ExclusionStep
<1> QED
  BY <1>1, <1>2, TypeCorrect, PTL DEF Spec

\* The first to end a job decides its outcome and whether it may be retried.
THEOREM EndedStaysFinal == Spec => EndedIsFinal
<1>1. TypeOK /\ [Next]_vars =>
        [\A j \in Jobs : jobs[j].status \in Ended =>
            /\ jobs'[j].status = jobs[j].status
            /\ jobs'[j].retryable = jobs[j].retryable]_vars
  BY NextMove DEF Final
<1> QED
  BY <1>1, TypeCorrect, PTL DEF Spec, EndedIsFinal

\* Seen through the mapping, an active job holds its slot.
LEMMA SlotView ==
    ASSUME TypeOK, TypeOK', NEW j \in Jobs
    PROVE  /\ Slots!Holds(j) <=> Active(j)
           /\ SlotOf[j] = jobs[j].agent /\ SlotOf'[j] = jobs'[j].agent
           /\ SameJob(j) => SlotOf'[j] = SlotOf[j] /\ LifeOf'[j] = LifeOf[j]
BY DEF Slots!Holds, SlotOf, LifeOf, Active, Live, SameJob, TypeOK, DbType, JobsType, JobRow, Ended

\* A step that ends jobs gives their slots back, all at once.
LEMMA ReleasedRefines ==
    ASSUME TypeOK, TypeOK', Released
    PROVE  Slots!Next
<1> DEFINE S == {j \in Jobs : ~SameJob(j)}
<1>1. \A j \in S : Active(j) /\ LifeOf'[j] = "over" /\ SlotOf'[j] = SlotOf[j]
  BY DEF Released, SlotOf, LifeOf, Ended
<1>2. \A j \in Jobs \ S : SlotOf'[j] = SlotOf[j] /\ LifeOf'[j] = LifeOf[j]
  BY SlotView
<1>3. SlotOf' = SlotOf
  BY <1>1, <1>2 DEF SlotOf
<1>4. LifeOf' = [j \in Jobs |-> IF j \in S THEN "over" ELSE LifeOf[j]]
  BY <1>1, <1>2 DEF LifeOf
<1>5. \A j \in S : Slots!Holds(j)
  BY <1>1, SlotView
<1>6. S \in SUBSET Jobs
  OBVIOUS
<1> HIDE DEF S
<1> QED
  BY <1>3, <1>4, <1>5, <1>6 DEF Slots!Next, Slots!Release

\* A claim starts the granted slot.
LEMMA StartedRefines ==
    ASSUME TypeOK, TypeOK', Started
    PROVE  Slots!Next
<1>1. PICK j \in Jobs : /\ jobs[j].status = "queued" /\ jobs'[j].status = "running"
                        /\ jobs'[j].agent = jobs[j].agent
                        /\ \A k \in Jobs \ {j} : SameJob(k)
  BY DEF Started
<1>2. \A k \in Jobs \ {j} : SlotOf'[k] = SlotOf[k] /\ LifeOf'[k] = LifeOf[k]
  BY <1>1, SlotView
<1>3. LifeOf[j] = "waiting" /\ LifeOf'[j] = "started" /\ SlotOf'[j] = SlotOf[j]
  BY <1>1 DEF LifeOf, SlotOf
<1>4. SlotOf' = SlotOf
  BY <1>2, <1>3 DEF SlotOf
<1>5. LifeOf' = [LifeOf EXCEPT ![j] = "started"]
  BY <1>2, <1>3 DEF LifeOf
<1> QED
  BY <1>3, <1>4, <1>5 DEF Slots!Next, Slots!Start

\* A reservation grants a slot without a rival.
LEMMA GrantedRefines ==
    ASSUME TypeOK, TypeOK', Granted
    PROVE  Slots!Next
<1>1. PICK j \in Jobs, a \in Agents :
        /\ jobs[j].status = "free" /\ jobs'[j].status = "queued"
        /\ jobs'[j].agent = a /\ ~Conflict(a)
        /\ \A k \in Jobs \ {j} : SameJob(k)
  BY DEF Granted
<1>2. \A k \in Jobs \ {j} : SlotOf'[k] = SlotOf[k] /\ LifeOf'[k] = LifeOf[k]
  BY <1>1, SlotView
<1>3. LifeOf[j] = "new" /\ LifeOf'[j] = "waiting" /\ SlotOf'[j] = a
  BY <1>1 DEF LifeOf, SlotOf
<1>4. SlotOf' = [SlotOf EXCEPT ![j] = a]
  BY <1>2, <1>3 DEF SlotOf
<1>5. LifeOf' = [LifeOf EXCEPT ![j] = "waiting"]
  BY <1>2, <1>3 DEF LifeOf
<1>6. ASSUME NEW k \in Jobs, Slots!Holds(k)
      PROVE  <<a, SlotOf[k]>> \notin {r \in Agents \X Agents : Rival(r[1], r[2])}
  <2>1. Active(k) /\ SlotOf[k] = jobs[k].agent
    BY <1>6, SlotView
  <2>2. ~Rival(a, jobs[k].agent)
    BY <1>1, <2>1 DEF Conflict, Rival, JobTenant
  <2> QED
    BY <2>1, <2>2
<1> QED
  BY <1>1, <1>3, <1>4, <1>5, <1>6 DEF Slots!Next, Slots!Grant

\* The leases implement the slots: whatever the processes, callbacks and crashes
\* do, they only ever grant, start and give back.
THEOREM ImplementsSlots == Spec => SlotsSpec
<1>1. Init => Slots!Init
  BY DEF Init, Slots!Init, SlotOf, LifeOf, JobWith
<1>2. TypeOK /\ TypeOK' /\ [Next]_vars => [Slots!Next]_(Slots!vars)
  BY NextMove, ReleasedRefines, StartedRefines, GrantedRefines
<1> QED
  BY <1>1, <1>2, TypeCorrect, PTL DEF Spec, SlotsSpec, Slots!Spec

-----------------------------------------------------------------------------
(* A row shown as starting. *)

\* A step that ends no job and shows no new row as starting keeps the rows honest.
LEMMA StartingFrame ==
    ASSUME StartingHasJob,
           \A j \in Jobs : Active(j) => Active(j)' /\ jobs'[j].agent = jobs[j].agent,
           \A a \in Agents : rows'[a] = "starting" => rows[a] = "starting"
    PROVE  StartingHasJob'
BY DEF StartingHasJob

\* finish_job writes the row of the job it ends, unless another job holds it.
LEMMA FinishJobStarting ==
    ASSUME TypeOK, StartingHasJob,
           NEW j \in Jobs, NEW s \in Ended, NEW r \in BOOLEAN, FinishJob(j, s, r)
    PROVE  StartingHasJob'
<1>1. CASE ~MayFinish(j)
  BY <1>1, StartingFrame DEF FinishJob, db, Active
<1>2. CASE MayFinish(j)
  <2>1. jobs'[j].agent = jobs[j].agent /\ jobs[j].agent \in Agents
    BY <1>2 DEF FinishJob, MayFinish, Active, Live, TypeOK, DbType, JobsType, JobRow
  <2>2. \A k \in Jobs \ {j} : jobs'[k] = jobs[k]
    BY <1>2 DEF FinishJob, TypeOK, DbType, JobsType
  <2>3. \A k \in Jobs \ {j} : (Active(k)' <=> Active(k)) /\ jobs'[k].agent = jobs[k].agent
    BY <2>2 DEF Active
  <2>4. CASE \E k \in Jobs \ {j} : Active(k) /\ jobs[k].agent = jobs[j].agent
    <3>1. UNCHANGED rows
      BY <1>2, <2>4 DEF FinishJob
    <3> QED
      BY <2>3, <2>4, <3>1 DEF StartingHasJob
  <2>5. CASE ~\E k \in Jobs \ {j} : Active(k) /\ jobs[k].agent = jobs[j].agent
    <3>1. rows' = [rows EXCEPT ![jobs[j].agent] = FinishedRow(s)]
      BY <1>2, <2>5 DEF FinishJob
    <3>2. FinishedRow(s) # "starting"
      BY DEF FinishedRow, Ended
    <3>3. \A a \in Agents : rows'[a] = "starting" =>
             rows[a] = "starting" /\ a # jobs[j].agent
      BY <2>1, <3>1, <3>2 DEF TypeOK, DbType
    <3> QED
      BY <2>3, <3>3 DEF StartingHasJob
  <2> QED
    BY <2>4, <2>5
<1> QED
  BY <1>1, <1>2

\* The recovery writes the rows of the jobs it ends.
LEMMA ExpireStarting ==
    ASSUME TypeOK, StartingHasJob, NEW T \in SUBSET Tenants, Expire(Expired(T))
    PROVE  StartingHasJob'
<1>1. \A j \in Jobs : j \notin Expired(T) => jobs'[j] = jobs[j]
  BY DEF Expire, ExpireJobs
<1>2. \A a \in Agents : rows'[a] = "starting" =>
         rows[a] = "starting" /\ \A j \in Expired(T) : jobs[j].agent # a
  BY DEF Expire, ExpireRows
<1> QED
  BY <1>1, <1>2 DEF StartingHasJob, Active

\* reserve_job shows the agent of the job it queues as starting.
LEMMA ReserveStarting ==
    ASSUME TypeOK, StartingHasJob, NEW p \in Procs, NEW a \in Agents, NEW q, NEW rest,
           Reserve(p, a, q, rest)
    PROVE  StartingHasJob'
<1>1. PICK j \in Jobs : /\ jobs[j].status = "free"
                        /\ jobs' = [jobs EXCEPT ![j] = JobWith("queued", a, q)]
                        /\ rows' = [rows EXCEPT ![a] = "starting"]
  BY DEF Reserve
<1>2. jobs'[j].status = "queued" /\ jobs'[j].agent = a
  BY <1>1 DEF JobWith, TypeOK, DbType, JobsType
<1>3. \A k \in Jobs : Active(k) => jobs'[k] = jobs[k]
  BY <1>1 DEF Active, Live, TypeOK, DbType, JobsType
<1>4. \A b \in Agents \ {a} : rows'[b] = rows[b]
  BY <1>1 DEF TypeOK, DbType
<1> QED
  BY <1>2, <1>3, <1>4 DEF StartingHasJob, Active, Live

\* Starting an agent, by reservation or by recovery first.
LEMMA BeginStartStarting ==
    ASSUME TypeOK, StartingHasJob, NEW p \in Procs, NEW a \in Agents, NEW q,
           BeginStart(p, a, q)
    PROVE  StartingHasJob'
<1>1. CASE Expired(Tenants) = {}
  BY <1>1, ReserveStarting DEF BeginStart
<1>2. CASE Expired(Tenants) # {}
  BY <1>2, ExpireStarting DEF BeginStart
<1> QED
  BY <1>1, <1>2

\* _request_stop, a heartbeat, time and the budget end no job.
LEMMA SameLife ==
    ASSUME TypeOK, StartingHasJob, UNCHANGED rows,
           \A j \in Jobs : jobs'[j].status = jobs[j].status /\ jobs'[j].agent = jobs[j].agent
    PROVE  StartingHasJob'
BY DEF StartingHasJob, Active

\* A stop request changes no status, agent or parent.
LEMMA RequestCancelLife ==
    ASSUME TypeOK, NEW hits, RequestCancel(hits)
    PROVE  \A j \in Jobs : jobs'[j].status = jobs[j].status /\ jobs'[j].agent = jobs[j].agent
BY DEF RequestCancel, TypeOK, DbType, JobsType, JobRow

\* A blocked job keeps its status, agent and parent.
LEMMA BlockJobLife ==
    ASSUME TypeOK, NEW j \in Jobs, BlockJob(j)
    PROVE  \A k \in Jobs : jobs'[k].status = jobs[k].status /\ jobs'[k].agent = jobs[k].agent
BY DEF BlockJob, TypeOK, DbType, JobsType, JobRow

\* The steps an operation has left.
LEMMA StepTakenStarting ==
    ASSUME TypeOK, StartingHasJob, NEW p \in Procs, StepTaken(p)
    PROVE  StartingHasJob'
<1> USE DEF db
<1>1. CASE ReserveGranted(p)
  BY <1>1, HeadKind, ReserveStarting DEF ReserveGranted, ReserveStep
<1>2. CASE ReserveRefused(p) \/ Enqueued(p) \/ EnqueueFails(p) \/ SendStop(p) \/ CloseRun(p)
  BY <1>2, SameLife DEF ReserveRefused, Enqueued, EnqueueFails, SendStop, CloseRun
<1>3. CASE ResetRows(p) \/ ForceRows(p)
  BY <1>3 DEF ResetRows, ForceRows, StartingHasJob, Active
<1>4. CASE CancelChildren(p)
  BY <1>4, SameLife, RequestCancelLife DEF CancelChildren
<1>5. CASE DropQueued(p)
  <2>1. Head(todo[p]) \in SignalStep
    BY <1>5, HeadKind DEF DropQueued
  <2>2. PICK j \in Head(todo[p]).drop : FinishJob(j, "cancelled", TRUE)
    BY <1>5 DEF DropQueued
  <2> QED
    BY <2>1, <2>2, FinishJobStarting DEF SignalStep, Ended
<1>6. CASE FinishStepTaken(p)
  BY <1>6, HeadKind, FinishJobStarting DEF FinishStepTaken, FinishStep
<1> QED
  BY <1>1, <1>2, <1>3, <1>4, <1>5, <1>6 DEF StepTaken

\* The operations of the web application and the scheduler.
LEMMA CallerStarting ==
    ASSUME TypeOK, StartingHasJob, NEW p \in Callers, CallerNext(p)
    PROVE  StartingHasJob'
<1>0. p \in Procs
  BY DEF Procs
<1>1. ASSUME NEW a \in Agents, CallerStarts(p, a) PROVE StartingHasJob'
  BY <1>0, <1>1, BeginStartStarting DEF CallerStarts
<1>2. ASSUME NEW a \in Agents, StopAgent(p, a) PROVE StartingHasJob'
  BY <1>2, RequestCancelLife, SameLife DEF StopAgent
<1>3. ASSUME NEW t \in Tenants, StopAll(p, t) PROVE StartingHasJob'
  BY <1>3, RequestCancelLife, SameLife DEF StopAll
<1>4. ASSUME RepairRows(p) PROVE StartingHasJob'
  BY <1>4 DEF RepairRows, StartingHasJob, Active
<1> QED
  BY <1>1, <1>2, <1>3, <1>4 DEF CallerNext

\* The operations of a worker.
LEMMA WorkerStarting ==
    ASSUME TypeOK, StartingHasJob, NEW p \in Workers, WorkerNext(p)
    PROVE  StartingHasJob'
<1>0. p \in Procs
  BY DEF Procs
<1> USE DEF db
<1>a. phase[p] # "off" => cur[p] \in Jobs
  BY <1>0 DEF TypeOK, ProcType
<1>1. ASSUME NEW a \in Agents, DirectorStarts(p, a) PROVE StartingHasJob'
  BY <1>0, <1>1, BeginStartStarting DEF DirectorStarts
<1>2. ASSUME NEW j \in Jobs, SkipJob(p, j) \/ RefuseJob(p, j) PROVE StartingHasJob'
  BY <1>2, SameLife DEF SkipJob, RefuseJob
<1>3. ASSUME NEW j \in Jobs, ClaimJob(p, j) PROVE StartingHasJob'
  <2>1. /\ jobs'[j].status = "running" /\ jobs'[j].agent = jobs[j].agent
        /\ \A k \in Jobs \ {j} : jobs'[k] = jobs[k]
    BY <1>3 DEF ClaimJob, TypeOK, DbType, JobsType, JobRow
  <2>2. \A a \in Agents : rows'[a] = "starting" => rows[a] = "starting"
    BY <1>3 DEF ClaimJob, TypeOK, DbType
  <2> QED
    BY <2>1, <2>2, StartingFrame DEF Active, Live
<1>4. CASE Heartbeat(p)
  <2>1. \A k \in Jobs : jobs'[k].status = jobs[k].status /\ jobs'[k].agent = jobs[k].agent
    BY <1>4 DEF Heartbeat, TypeOK, DbType, JobsType, JobRow
  <2> QED
    BY <1>4, <2>1, SameLife DEF Heartbeat
<1>5. CASE TimeLimit(p)
  BY <1>a, <1>5, BlockJobLife, SameLife DEF TimeLimit, Running
<1>6. CASE ConsumeApiCall(p)
  <2>1. \A k \in Jobs : jobs'[k].status = jobs[k].status /\ jobs'[k].agent = jobs[k].agent
    <3>1. CASE UNCHANGED jobs
      BY <3>1
    <3>2. CASE BlockJob(cur[p])
      BY <1>a, <1>6, <3>2, BlockJobLife DEF ConsumeApiCall, Running
    <3>3. CASE jobs' = [jobs EXCEPT ![cur[p]].calls = @ + 1]
      BY <3>3 DEF TypeOK, DbType, JobsType, JobRow
    <3> QED
      BY <1>6, <3>1, <3>2, <3>3 DEF ConsumeApiCall
  <2> QED
    BY <1>6, <2>1, SameLife DEF ConsumeApiCall
<1>7. ASSUME NEW s \in Reports, SetStatus(p, s) PROVE StartingHasJob'
  <2>1. s # "starting"
    BY ConstantsAssumption DEF ConstantsAssumption
  <2>2. /\ UNCHANGED jobs
        /\ \A a \in Agents : rows'[a] = "starting" => rows[a] = "starting"
    BY <1>7, <2>1 DEF SetStatus, TypeOK, DbType
  <2> QED
    BY <2>2, StartingFrame DEF Active
<1>8. CASE AgentReady(p) \/ AgentNotReady(p) \/ PollToken(p) \/ AgentReturns(p)
           \/ AgentRaises(p) \/ LeaveJob(p) \/ HorseDies(p) \/ StopDelivered(p)
  BY <1>8, SameLife DEF AgentReady, AgentNotReady, PollToken, AgentReturns,
     AgentRaises, LeaveJob, HorseDies, StopDelivered, HorseGone
<1> QED
  BY <1>1, <1>2, <1>3, <1>4, <1>5, <1>6, <1>7, <1>8 DEF WorkerNext

\* Every step leaves an active job behind an agent shown as starting.
LEMMA NextStarting ==
    ASSUME TypeOK, StartingHasJob, [Next]_vars
    PROVE  StartingHasJob'
<1> USE DEF db
<1>1. ASSUME NEW p \in Procs, ProcessDies(p) PROVE StartingHasJob'
  BY <1>1, SameLife DEF ProcessDies
<1>2. ASSUME NEW p \in Procs, NEW T \in SUBSET Tenants, Recover(p, T)
      PROVE  StartingHasJob'
  BY <1>2, ExpireStarting DEF Recover
<1>3. ASSUME NEW j \in Jobs, RqLoses(j) PROVE StartingHasJob'
  BY <1>3, SameLife DEF RqLoses
<1>4. ASSUME NEW j \in Jobs, Age(j) PROVE StartingHasJob'
  <2>1. \A k \in Jobs : jobs'[k].status = jobs[k].status /\ jobs'[k].agent = jobs[k].agent
    BY <1>4 DEF Age, TypeOK, DbType, JobsType, JobRow
  <2> QED
    BY <1>4, <2>1, SameLife DEF Age
<1>5. CASE UNCHANGED vars
  BY <1>5, SameLife DEF vars
<1> QED
  BY <1>1, <1>2, <1>3, <1>4, <1>5, StepTakenStarting, CallerStarting, WorkerStarting
  DEF Next

\* No row shows an agent as starting that nothing will run: whichever of the
\* reservation, the claim, the stops, the recoveries and the resets wrote it last.
THEOREM StartingIsBacked == Spec => []StartingHasJob
<1>1. Init => StartingHasJob
  BY DEF Init, StartingHasJob
<1>2. TypeOK /\ StartingHasJob /\ [Next]_vars => StartingHasJob'
  BY NextStarting
<1> QED
  BY <1>1, <1>2, TypeCorrect, PTL DEF Spec

=============================================================================
