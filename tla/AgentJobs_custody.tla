-------------------------- MODULE AgentJobs_custody --------------------------
(***************************************************************************)
(* More proofs about AgentJobs: who may execute and end a job, and what a  *)
(* batch does to its children.  A job's licence to run passes from the     *)
(* process that reserved it to RQ and to one worker; Custody says that no  *)
(* two hold it and that only the holder ends the job.  From it follow that *)
(* a job whose worker died is not retried, and that the children of an     *)
(* ended Director are swept by the process that ended it.                  *)
(***************************************************************************)
EXTENDS AgentJobs_proofs

-----------------------------------------------------------------------------
(* Invariants. *)

\* Steps p has still to take, and those behind the one it is at.
Elems(s) == {s[i] : i \in DOMAIN s}
Steps(p) == Elems(todo[p])
Later(p) == {todo[p][i] : i \in 2 .. Len(todo[p])}

\* A child has the tenant of its parent and is no Director; its parent was claimed.
KinOf(a, q) == a \notin Directors /\ TenantOf[a] = JobTenant(q)
KinJobs ==
    \A c \in Jobs : jobs[c].parent # NoJob =>
        /\ jobs[c].status # "free" /\ KinOf(jobs[c].agent, jobs[c].parent)
        /\ jobs[jobs[c].parent].status \notin {"free", "queued"}
KinSteps ==
    \A p \in Procs : \A s \in Steps(p) : s.op = "reserve" /\ s.parent # NoJob =>
        jobs[s.parent].status # "free" /\ KinOf(s.agent, s.parent)

\* Where the only licence to execute a job is: with the process that enqueues it,
\* in RQ, or with one worker.
Enqueuing(p, j) == [op |-> "enqueue", job |-> j] \in Steps(p)
Unheld(j) == j \notin rq /\ \A p \in Procs : cur[p] # j /\ ~Enqueuing(p, j)

HeadOnly ==
    \A p \in Procs : /\ \A s \in Later(p) : s.op \notin {"enqueue", "finish"}
                     /\ phase[p] = "init" => todo[p] = <<>>
                     /\ p \in Callers => phase[p] = "off"
Waiting(j) == jobs[j].status \notin {"free", "running"}
EnqueueAlone ==
    \A p \in Procs, j \in Jobs : Enqueuing(p, j) =>
        /\ Waiting(j) /\ j \notin rq \cup unsure \cup died
        /\ \A q \in Procs : cur[q] # j /\ (q # p => ~Enqueuing(q, j))
        /\ \A q \in Procs : \A s \in Steps(q) : s.op = "finish" => s.job # j
QueuedAlone == \A j \in rq : Waiting(j) /\ j \notin died /\ \A p \in Procs : cur[p] # j
HeldAlone ==
    \A p \in Procs, j \in Jobs : cur[p] = j =>
        /\ jobs[j].status # "free"
        /\ j \in died => phase[p] = "callback"
        /\ \A q \in Procs : cur[q] = j => q = p
FinishOwned ==
    \A p \in Procs : \A s \in Steps(p) : s.op = "finish" =>
        /\ jobs[s.job].status # "free"
        /\ \/ cur[p] = s.job /\ phase[p] = IF s.retry THEN "exit" ELSE "callback"
           \/ s.retry /\ s.job \in unsure
           \/ s.retry /\ Unheld(s.job) /\ s.job \notin died /\ jobs[s.job].status # "running"
DropWaits ==
    \A p \in Procs : \A s \in Steps(p) : s.op = "signal" =>
        \A j \in s.drop : Waiting(j) /\ jobs[j].cancel
Past == /\ \A j \in died : jobs[j].status \notin {"free", "queued"}
        /\ \A j \in unsure : jobs[j].status # "free"
Custody == /\ HeadOnly /\ EnqueueAlone /\ QueuedAlone /\ HeldAlone
           /\ FinishOwned /\ DropWaits /\ Past

\* The children of an ended Director.
Owes(p, d) == \E s \in Steps(p) : s.op = "children" /\ d \in s.of
FinishThenSweep ==
    \A p \in Procs : \A s \in Steps(p) :
        s.op = "finish" /\ s.as \in {"error", "cancelled"} /\ IsDirector(s.job) =>
            s.job \in unsure \/ jobs[s.job].status # "running" \/ Owes(p, s.job)
Swept(d) == \A c \in Jobs : Active(c) /\ jobs[c].parent = d => jobs[c].cancel
BatchSwept ==
    \A d \in Jobs : 
        jobs[d].status \in {"error", "cancelled"} /\ IsDirector(d) /\ d \notin orphaned \cup unsure
        => Swept(d) \/ \E p \in Procs : Owes(p, d)

-----------------------------------------------------------------------------
(* Sequences of steps as sets. *)

\* The steps of two sequences, one after the other.
LEMMA ElemsConcat ==
    ASSUME NEW s \in Seq(Step), NEW t \in Seq(Step)
    PROVE  Elems(s \o t) = Elems(s) \cup Elems(t)
<1>1. /\ s \o t \in Seq(Step) /\ Len(s \o t) = Len(s) + Len(t)
      /\ \A i \in 1 .. Len(s) + Len(t) :
           (s \o t)[i] = IF i <= Len(s) THEN s[i] ELSE t[i - Len(s)]
  BY ConcatProperties
<1>2. Len(s) \in Nat /\ Len(t) \in Nat /\ DOMAIN s = 1 .. Len(s) /\ DOMAIN t = 1 .. Len(t)
      /\ DOMAIN (s \o t) = 1 .. Len(s) + Len(t)
  BY <1>1
<1>3. Elems(s \o t) \subseteq Elems(s) \cup Elems(t)
  <2> SUFFICES ASSUME NEW i \in 1 .. Len(s) + Len(t)
               PROVE  (s \o t)[i] \in Elems(s) \cup Elems(t)
    BY <1>2 DEF Elems
  <2>1. CASE i <= Len(s)
    BY <1>1, <1>2, <2>1 DEF Elems
  <2>2. CASE ~(i <= Len(s))
    <3>1. i - Len(s) \in 1 .. Len(t) /\ (s \o t)[i] = t[i - Len(s)]
      BY <1>1, <1>2, <2>2
    <3> QED
      BY <1>2, <3>1 DEF Elems
  <2> QED
    BY <2>1, <2>2
<1>4. Elems(s) \subseteq Elems(s \o t)
  <2> SUFFICES ASSUME NEW i \in 1 .. Len(s) PROVE s[i] \in Elems(s \o t)
    BY <1>2 DEF Elems
  <2>1. i \in 1 .. Len(s) + Len(t) /\ (s \o t)[i] = s[i]
    BY <1>1, <1>2
  <2> QED
    BY <1>2, <2>1 DEF Elems
<1>5. Elems(t) \subseteq Elems(s \o t)
  <2> SUFFICES ASSUME NEW i \in 1 .. Len(t) PROVE t[i] \in Elems(s \o t)
    BY <1>2 DEF Elems
  <2> DEFINE k == i + Len(s)
  <2>1. k \in 1 .. Len(s) + Len(t) /\ ~(k <= Len(s)) /\ k - Len(s) = i
    BY <1>2
  <2>2. (s \o t)[k] = t[i]
    BY <1>1, <2>1
  <2> QED
    BY <1>2, <2>1, <2>2 DEF Elems
<1> QED
  BY <1>3, <1>4, <1>5

\* The one step of a sequence of one.
LEMMA ElemsOne == ASSUME NEW x PROVE Elems(<<x>>) = {x}
<1>1. DOMAIN <<x>> = {1} /\ <<x>>[1] = x
  OBVIOUS
<1> QED
  BY <1>1 DEF Elems

\* The empty sequence has no step.
LEMMA ElemsNone == Elems(<<>>) = {}
BY DEF Elems

\* A sweep is one step, or none for no jobs.
LEMMA ElemsSweep ==
    ASSUME NEW D
    PROVE  /\ Elems(Sweep(D)) \subseteq {[op |-> "children", of |-> D]}
           /\ D # {} => [op |-> "children", of |-> D] \in Elems(Sweep(D))
BY ElemsOne, ElemsNone DEF Sweep

\* So is what follows a stop request.
LEMMA ElemsSignal ==
    ASSUME NEW D, NEW K
    PROVE  Elems(Signal(D, K)) \subseteq {[op |-> "signal", drop |-> D, kill |-> K]}
BY ElemsOne, ElemsNone DEF Signal

\* The first step and those behind it.
LEMMA ElemsTail ==
    ASSUME NEW t \in Seq(Step), t # <<>>
    PROVE  /\ Elems(t) = {Head(t)} \cup {t[i] : i \in 2 .. Len(t)}
           /\ Elems(Tail(t)) = {t[i] : i \in 2 .. Len(t)}
<1>1. Len(t) \in Nat \ {0} /\ DOMAIN t = 1 .. Len(t) /\ Head(t) = t[1]
  OBVIOUS
<1>2. /\ Tail(t) \in Seq(Step) /\ Len(Tail(t)) = Len(t) - 1
      /\ DOMAIN Tail(t) = 1 .. Len(t) - 1
      /\ \A i \in 1 .. Len(Tail(t)) : Tail(t)[i] = t[i + 1]
  BY <1>1, HeadTailProperties
<1>3. Elems(t) = {Head(t)} \cup {t[i] : i \in 2 .. Len(t)}
  BY <1>1 DEF Elems
<1>4. ASSUME NEW x \in Elems(Tail(t)) PROVE x \in {t[i] : i \in 2 .. Len(t)}
  <2>1. PICK i \in 1 .. Len(t) - 1 : x = Tail(t)[i]
    BY <1>2, <1>4 DEF Elems
  <2>2. i + 1 \in 2 .. Len(t) /\ x = t[i + 1]
    BY <1>1, <1>2, <2>1
  <2> QED
    BY <2>2
<1>5. ASSUME NEW x \in {t[i] : i \in 2 .. Len(t)} PROVE x \in Elems(Tail(t))
  <2>1. PICK i \in 2 .. Len(t) : x = t[i]
    BY <1>5
  <2>2. i - 1 \in 1 .. Len(t) - 1 /\ (i - 1) + 1 = i
    BY <1>1
  <2>3. Tail(t)[i - 1] = t[i]
    BY <1>2, <2>2
  <2> QED
    BY <1>2, <2>1, <2>2, <2>3 DEF Elems
<1> QED
  BY <1>3, <1>4, <1>5

\* A step put in front of others.
LEMMA ElemsCons ==
    ASSUME NEW x \in Step, NEW t \in Seq(Step)
    PROVE  /\ <<x>> \o t \in Seq(Step) /\ <<x>> \o t # <<>>
           /\ {(<<x>> \o t)[i] : i \in 2 .. Len(<<x>> \o t)} = Elems(t)
           /\ Elems(<<x>> \o t) = {x} \cup Elems(t)
<1>1. <<x>> \in Seq(Step) /\ Len(<<x>>) = 1
  OBVIOUS
<1>2. /\ <<x>> \o t \in Seq(Step) /\ Len(<<x>> \o t) = 1 + Len(t)
      /\ \A i \in 1 .. 1 + Len(t) :
           (<<x>> \o t)[i] = IF i <= 1 THEN <<x>>[i] ELSE t[i - 1]
  BY <1>1, ConcatProperties
<1>3. <<x>> \o t # <<>>
  BY <1>2
<1>4. Elems(<<x>> \o t) = {x} \cup Elems(t)
  BY <1>1, ElemsConcat, ElemsOne
<1>5. Len(t) \in Nat /\ DOMAIN t = 1 .. Len(t)
  OBVIOUS
<1>6. \A i \in 2 .. 1 + Len(t) : i - 1 \in DOMAIN t /\ (<<x>> \o t)[i] = t[i - 1]
  BY <1>2, <1>5
<1>7. \A k \in DOMAIN t : k + 1 \in 2 .. 1 + Len(t) /\ (<<x>> \o t)[k + 1] = t[k]
  BY <1>2, <1>5
<1>8. {(<<x>> \o t)[i] : i \in 2 .. Len(<<x>> \o t)} \subseteq Elems(t)
  BY <1>2, <1>6 DEF Elems
<1>9. Elems(t) \subseteq {(<<x>> \o t)[i] : i \in 2 .. Len(<<x>> \o t)}
  <2> SUFFICES ASSUME NEW k \in DOMAIN t
               PROVE  t[k] \in {(<<x>> \o t)[i] : i \in 2 .. Len(<<x>> \o t)}
    BY DEF Elems
  <2>1. k + 1 \in 2 .. Len(<<x>> \o t) /\ (<<x>> \o t)[k + 1] = t[k]
    BY <1>2, <1>7
  <2> QED
    BY <2>1
<1> QED
  BY <1>2, <1>3, <1>4, <1>8, <1>9

\* The step a process is at, and those behind it.
LEMMA StepsSplit ==
    ASSUME TypeOK, NEW p \in Procs, todo[p] # <<>>
    PROVE  /\ Steps(p) = {Head(todo[p])} \cup Later(p)
           /\ Elems(Tail(todo[p])) = Later(p)
BY ElemsTail DEF Steps, Later, TypeOK, TodoType

\* p replaces the step it is at.
LEMMA StepsBecome ==
    ASSUME TypeOK, NEW p \in Procs, todo[p] # <<>>, NEW s \in Seq(Step), Becomes(p, s)
    PROVE  /\ Steps(p)' = Elems(s) \cup Later(p)
           /\ Later(p)' \subseteq Steps(p)'
           /\ Steps(p) = {Head(todo[p])} \cup Later(p)
           /\ \A q \in Procs \ {p} : Steps(q)' = Steps(q) /\ Later(q)' = Later(q)
           /\ \A q \in Procs \ {p} : todo'[q] = todo[q]
<1>1. Tail(todo[p]) \in Seq(Step)
  BY HeadTailProperties DEF TypeOK, TodoType
<1>2. Elems(Tail(todo[p])) = Later(p) /\ Steps(p) = {Head(todo[p])} \cup Later(p)
  BY StepsSplit
<1>3. Elems(s \o Tail(todo[p])) = Elems(s) \cup Later(p)
  BY <1>1, <1>2, ElemsConcat
<1>4. todo'[p] = s \o Tail(todo[p]) /\ \A q \in Procs \ {p} : todo'[q] = todo[q]
  BY DEF Becomes, TypeOK, TodoType
<1>5. todo'[p] \in Seq(Step)
  BY <1>1, <1>4, ConcatProperties
<1>6. Later(p)' \subseteq Steps(p)'
  BY <1>5 DEF Later, Steps, Elems
<1> QED
  BY <1>2, <1>3, <1>4, <1>6 DEF Steps, Later

\* p is given steps.
LEMMA StepsGiven ==
    ASSUME TypeOK, NEW p \in Procs, NEW s \in Seq(Step), todo' = [todo EXCEPT ![p] = s]
    PROVE  /\ Steps(p)' = Elems(s)
           /\ Later(p)' \subseteq Steps(p)'
           /\ \A q \in Procs \ {p} : Steps(q)' = Steps(q) /\ Later(q)' = Later(q)
           /\ \A q \in Procs \ {p} : todo'[q] = todo[q]
<1>1. todo'[p] = s /\ \A q \in Procs \ {p} : todo'[q] = todo[q]
  BY DEF TypeOK, TodoType
<1>2. Later(p)' \subseteq Steps(p)'
  BY <1>1 DEF Later, Steps, Elems
<1> QED
  BY <1>1, <1>2 DEF Steps, Later

-----------------------------------------------------------------------------
(* What one step can do to the rows of agent_jobs, column by column. *)

Calm ==
    \A j \in Jobs :
        \/ jobs'[j] = jobs[j]
        \/ /\ jobs[j].status # "free"
           /\ jobs'[j].agent = jobs[j].agent /\ jobs'[j].parent = jobs[j].parent
           /\ jobs'[j].cancel = jobs[j].cancel
           /\ jobs'[j].retryable => jobs[j].retryable
           /\ \/ jobs'[j].status = jobs[j].status
              \/ Active(j) /\ jobs'[j].status \in Ended
Stopped ==
    \E H \in SUBSET Jobs :
        /\ RequestCancel(H) /\ \A j \in H : Active(j)
        /\ \/ \A j \in H : ~IsDirector(j) \/ jobs[j].parent # NoJob
           \/ \E t \in Tenants : H = {j \in Jobs : Active(j) /\ JobTenant(j) = t}
Blocked ==
    \E j \in Jobs : /\ jobs[j].status = "running"
                    /\ jobs' = [jobs EXCEPT ![j].retryable = FALSE, ![j].cancel = TRUE]
Claimed ==
    \E j \in Jobs : /\ jobs[j].status = "queued" /\ ~jobs[j].cancel
                    /\ jobs' = [jobs EXCEPT ![j].status = "running", ![j].stale = FALSE]
Born ==
    \E j \in Jobs, a \in Agents, q \in Jobs \cup {NoJob} :
        /\ jobs[j].status = "free" /\ ~ParentGone(q) /\ (q # NoJob => KinOf(a, q))
        /\ jobs' = [jobs EXCEPT ![j] = JobWith("queued", a, q)]

\* Leaving the table alone is calm.
LEMMA CalmSame == ASSUME UNCHANGED jobs PROVE Calm
BY DEF Calm

\* finish_job ends at most one active job.
LEMMA FinishJobCalm ==
    ASSUME TypeOK, NEW j \in Jobs, NEW s \in Ended, NEW r \in BOOLEAN, FinishJob(j, s, r)
    PROVE  Calm
<1>1. CASE ~MayFinish(j)
  BY <1>1, CalmSame DEF FinishJob, db
<1>2. CASE MayFinish(j)
  <2>1. /\ jobs'[j].status = s /\ jobs'[j].agent = jobs[j].agent
        /\ jobs'[j].parent = jobs[j].parent /\ jobs'[j].cancel = jobs[j].cancel
        /\ jobs'[j].retryable => jobs[j].retryable
        /\ \A k \in Jobs \ {j} : jobs'[k] = jobs[k]
    BY <1>2 DEF FinishJob, TypeOK, DbType, JobsType, JobRow
  <2>2. Active(j) /\ jobs[j].status # "free"
    BY <1>2 DEF MayFinish, Active, Live
  <2> QED
    BY <2>1, <2>2 DEF Calm
<1> QED
  BY <1>1, <1>2

\* The recovery ends active jobs, without a retry.
LEMMA ExpireCalm ==
    ASSUME TypeOK, NEW T \in SUBSET Tenants, Expire(Expired(T))
    PROVE  Calm
<1>1. \A j \in Expired(T) : Active(j) /\ jobs[j].status # "free"
  BY DEF Expired, Active, Live
<1>2. \A j \in Jobs : j \notin Expired(T) => jobs'[j] = jobs[j]
  BY DEF Expire, ExpireJobs
<1>3. \A j \in Jobs : j \in Expired(T) =>
         /\ jobs'[j].status = "error" /\ ~jobs'[j].retryable
         /\ jobs'[j].agent = jobs[j].agent /\ jobs'[j].parent = jobs[j].parent
         /\ jobs'[j].cancel = jobs[j].cancel
  BY DEF Expire, ExpireJobs, ExpiredJob, TypeOK, DbType, JobsType, JobRow
<1> QED
  BY <1>1, <1>2, <1>3 DEF Calm, Ended

\* A reservation names a parent that runs and is not cancelled.
LEMMA ReserveBorn ==
    ASSUME TypeOK, NEW p \in Procs, NEW a \in Agents, NEW q \in Jobs \cup {NoJob}, NEW rest,
           Reserve(p, a, q, rest), q # NoJob => KinOf(a, q)
    PROVE  Born
<1>1. PICK j \in Jobs : /\ jobs[j].status = "free"
                        /\ jobs' = [jobs EXCEPT ![j] = JobWith("queued", a, q)]
  BY DEF Reserve
<1>2. ~ParentGone(q)
  BY DEF Reserve, Refused
<1> QED
  BY <1>1, <1>2 DEF Born

\* A start recovers or reserves.
LEMMA BeginStartBorn ==
    ASSUME TypeOK, NEW p \in Procs, NEW a \in Agents, NEW q \in Jobs \cup {NoJob},
           BeginStart(p, a, q), q # NoJob => KinOf(a, q)
    PROVE  Calm \/ Born
<1>1. CASE Expired(Tenants) = {}
  BY <1>1, ReserveBorn DEF BeginStart
<1>2. CASE Expired(Tenants) # {}
  BY <1>2, ExpireCalm DEF BeginStart
<1> QED
  BY <1>1, <1>2

\* block touches a running job or none.
LEMMA BlockJobBlocked ==
    ASSUME TypeOK, NEW j \in Jobs, BlockJob(j)
    PROVE  Calm \/ Blocked
BY CalmSame DEF BlockJob, Blocked

\* The steps an operation has left.
LEMMA StepTakenKind ==
    ASSUME TypeOK, KinSteps, NEW p \in Procs, StepTaken(p)
    PROVE  Calm \/ Stopped \/ Born
<1> USE DEF db
<1>1. CASE ReserveGranted(p)
  <2> DEFINE s == Head(todo[p])
  <2>1. s \in ReserveStep /\ s \in Steps(p)
    BY <1>1, HeadKind, HeadType, StepsSplit DEF ReserveGranted
  <2>2. s.agent \in Agents /\ s.parent \in Jobs \cup {NoJob} /\ s.op = "reserve"
    BY <2>1 DEF ReserveStep
  <2>3. s.parent # NoJob => KinOf(s.agent, s.parent)
    BY <2>1, <2>2 DEF KinSteps
  <2> QED
    BY <1>1, <2>2, <2>3, ReserveBorn DEF ReserveGranted
<1>2. CASE ReserveRefused(p) \/ Enqueued(p) \/ EnqueueFails(p) \/ SendStop(p)
           \/ ResetRows(p) \/ ForceRows(p) \/ CloseRun(p)
  BY <1>2, CalmSame
  DEF ReserveRefused, Enqueued, EnqueueFails, SendStop, ResetRows, ForceRows,
      CloseRun
<1>3. CASE CancelChildren(p)
  <2>1. Head(todo[p]).of \subseteq Jobs
    BY <1>3, HeadKind DEF CancelChildren, ChildrenStep
  <2>2. PICK d \in Jobs : RequestCancel({j \in Jobs : Active(j) /\ jobs[j].parent = d})
    BY <1>3, <2>1 DEF CancelChildren
  <2> DEFINE H == {j \in Jobs : Active(j) /\ jobs[j].parent = d}
  <2>3. \A j \in H : Active(j) /\ jobs[j].parent # NoJob
    BY ConstantsAssumption DEF ConstantsAssumption
  <2>4. H \in SUBSET Jobs /\ RequestCancel(H)
    BY <2>2
  <2> HIDE DEF H
  <2> QED
    BY <2>3, <2>4 DEF Stopped
<1>4. CASE DropQueued(p)
  <2>1. Head(todo[p]) \in SignalStep
    BY <1>4, HeadKind DEF DropQueued
  <2>2. PICK j \in Head(todo[p]).drop : FinishJob(j, "cancelled", TRUE)
    BY <1>4 DEF DropQueued
  <2> QED
    BY <2>1, <2>2, FinishJobCalm DEF SignalStep, Ended
<1>5. CASE FinishStepTaken(p)
  BY <1>5, HeadKind, FinishJobCalm DEF FinishStepTaken, FinishStep
<1> QED
  BY <1>1, <1>2, <1>3, <1>4, <1>5 DEF StepTaken

\* The operations of the web application and the scheduler.
LEMMA CallerKind ==
    ASSUME TypeOK, NEW p \in Callers, CallerNext(p)
    PROVE  Calm \/ Stopped \/ Born
<1>0. p \in Procs
  BY DEF Procs
<1>1. ASSUME NEW a \in Agents, CallerStarts(p, a) PROVE Calm \/ Born
  BY <1>0, <1>1, BeginStartBorn DEF CallerStarts
<1>2. ASSUME NEW a \in Agents, StopAgent(p, a) PROVE Stopped
  <2> DEFINE H == {j \in Jobs : Active(j) /\ jobs[j].agent = a}
  <2>1. H \in SUBSET Jobs /\ RequestCancel(H)
        /\ \A j \in H : Active(j) /\ ~IsDirector(j)
    BY <1>2 DEF StopAgent, IsDirector
  <2> HIDE DEF H
  <2> QED
    BY <2>1 DEF Stopped
<1>3. ASSUME NEW t \in Tenants, StopAll(p, t) PROVE Stopped
  <2> DEFINE H == {j \in Jobs : Active(j) /\ JobTenant(j) = t}
  <2>1. H \in SUBSET Jobs /\ RequestCancel(H) /\ \A j \in H : Active(j)
    BY <1>3 DEF StopAll
  <2> QED
    BY <2>1 DEF Stopped
<1>4. ASSUME RepairRows(p) PROVE Calm
  BY <1>4, CalmSame DEF RepairRows
<1> QED
  BY <1>1, <1>2, <1>3, <1>4 DEF CallerNext

\* The operations of a worker.
LEMMA WorkerKind ==
    ASSUME TypeOK, NEW p \in Workers, WorkerNext(p)
    PROVE  Calm \/ Blocked \/ Claimed \/ Born
<1>0. p \in Procs
  BY DEF Procs
<1> USE DEF db
<1>a. phase[p] # "off" => cur[p] \in Jobs
  BY <1>0 DEF TypeOK, ProcType
<1>1. ASSUME NEW a \in Agents, DirectorStarts(p, a) PROVE Calm \/ Born
  BY <1>0, <1>a, <1>1, BeginStartBorn DEF DirectorStarts, KinOf
<1>2. ASSUME NEW j \in Jobs, SkipJob(p, j) \/ RefuseJob(p, j) PROVE Calm
  BY <1>2, CalmSame DEF SkipJob, RefuseJob
<1>3. ASSUME NEW j \in Jobs, ClaimJob(p, j) PROVE Claimed
  BY <1>3 DEF ClaimJob, Claimable, Claimed
<1>4. CASE Heartbeat(p)
  BY <1>4 DEF Heartbeat, Calm, TypeOK, DbType, JobsType, JobRow
<1>5. CASE TimeLimit(p)
  BY <1>a, <1>5, BlockJobBlocked DEF TimeLimit, Running
<1>6. CASE ConsumeApiCall(p)
  <2>1. CASE UNCHANGED jobs
    BY <2>1, CalmSame
  <2>2. CASE BlockJob(cur[p])
    BY <1>a, <1>6, <2>2, BlockJobBlocked DEF ConsumeApiCall, Running
  <2>3. CASE jobs[cur[p]].status = "running" /\ jobs' = [jobs EXCEPT ![cur[p]].calls = @ + 1]
    BY <2>3 DEF Calm, TypeOK, DbType, JobsType, JobRow
  <2> QED
    BY <1>6, <2>1, <2>2, <2>3 DEF ConsumeApiCall
<1>7. ASSUME NEW s \in Reports, SetStatus(p, s) PROVE Calm
  BY <1>7, CalmSame DEF SetStatus
<1>8. CASE AgentReady(p) \/ AgentNotReady(p) \/ PollToken(p) \/ AgentReturns(p)
           \/ AgentRaises(p) \/ LeaveJob(p) \/ HorseDies(p) \/ StopDelivered(p)
  BY <1>8, CalmSame DEF AgentReady, AgentNotReady, PollToken, AgentReturns,
     AgentRaises, LeaveJob, HorseDies, StopDelivered, HorseGone
<1> QED
  BY <1>1, <1>2, <1>3, <1>4, <1>5, <1>6, <1>7, <1>8 DEF WorkerNext

\* Every step does one of these to the table.
LEMMA NextKind ==
    ASSUME TypeOK, KinSteps, [Next]_vars
    PROVE  Calm \/ Stopped \/ Blocked \/ Claimed \/ Born
<1>1. ASSUME NEW p \in Procs, ProcessDies(p) PROVE Calm
  BY <1>1, CalmSame DEF ProcessDies, db
<1>2. ASSUME NEW p \in Procs, NEW T \in SUBSET Tenants, Recover(p, T) PROVE Calm
  BY <1>2, ExpireCalm DEF Recover
<1>3. ASSUME NEW j \in Jobs, RqLoses(j) PROVE Calm
  BY <1>3, CalmSame DEF RqLoses, db
<1>4. ASSUME NEW j \in Jobs, Age(j) PROVE Calm
  <2>1. jobs[j].status # "free"
    BY <1>4 DEF Age, Active, Live
  <2> QED
    BY <1>4, <2>1 DEF Age, Calm, TypeOK, DbType, JobsType, JobRow
<1>5. CASE UNCHANGED vars
  BY <1>5, CalmSame DEF vars
<1> QED
  BY <1>1, <1>2, <1>3, <1>4, <1>5, StepTakenKind, CallerKind, WorkerKind DEF Next

\* Once reserved, a job keeps its agent and its parent; a cancellation is never
\* taken back, nor the verdict that it may not be retried.
GoesOn(j) ==
    /\ jobs'[j].status # "free"
    /\ jobs'[j].agent = jobs[j].agent /\ jobs'[j].parent = jobs[j].parent
    /\ jobs[j].cancel => jobs'[j].cancel
    /\ jobs'[j].retryable => jobs[j].retryable
    /\ jobs'[j].status = "queued" => jobs[j].status = "queued"
    /\ Active(j)' => Active(j)
BornAs(j) ==
    \E a \in Agents, q \in Jobs \cup {NoJob} :
        /\ ~ParentGone(q) /\ (q # NoJob => KinOf(a, q))
        /\ jobs'[j] = JobWith("queued", a, q)

\* What any step may do to one row.
LEMMA JobsGoOn ==
    ASSUME TypeOK, KinSteps, [Next]_vars, NEW j \in Jobs
    PROVE  /\ jobs[j].status # "free" => GoesOn(j)
           /\ jobs[j].status = "free" => jobs'[j] = jobs[j] \/ BornAs(j)
<1> USE DEF TypeOK, DbType, JobsType
<1>0. jobs \in [Jobs -> JobRow]
  OBVIOUS
<1>1. CASE Calm
  BY <1>1 DEF Calm, GoesOn, Active, Live, Ended
<1>2. CASE Stopped
  BY <1>0, <1>2 DEF Stopped, RequestCancel, GoesOn, Active, Live, JobRow
<1>3. CASE Blocked
  BY <1>0, <1>3 DEF Blocked, GoesOn, Active, JobRow
<1>4. CASE Claimed
  BY <1>0, <1>4 DEF Claimed, GoesOn, Active, Live, JobRow
<1>5. CASE Born
  BY <1>0, <1>5 DEF Born, BornAs, GoesOn, Active
<1> QED
  BY <1>1, <1>2, <1>3, <1>4, <1>5, NextKind

-----------------------------------------------------------------------------
(* Relatives. *)

\* Every step keeps parent and child of one tenant, the parent claimed before.
LEMMA KinJobsStep ==
    ASSUME TypeOK, KinSteps, KinJobs, [Next]_vars
    PROVE  KinJobs'
<1> SUFFICES ASSUME NEW c \in Jobs, jobs'[c].parent # NoJob
             PROVE  /\ jobs'[c].status # "free"
                    /\ KinOf(jobs[c].agent, jobs[c].parent)'
                    /\ jobs'[jobs'[c].parent].status \notin {"free", "queued"}
  BY DEF KinJobs
<1>1. ASSUME NEW q \in Jobs, NEW a, KinOf(a, q), jobs[q].status \notin {"free", "queued"}
      PROVE  /\ jobs'[q].status \notin {"free", "queued"}
             /\ a \notin Directors /\ TenantOf[a] = TenantOf[jobs'[q].agent]
  BY <1>1, JobsGoOn DEF GoesOn, KinOf, JobTenant
<1>2. CASE jobs[c].status = "free"
  <2>1. jobs[c].parent = NoJob
    BY <1>2 DEF KinJobs
  <2>2. PICK a \in Agents, q \in Jobs \cup {NoJob} :
          /\ ~ParentGone(q) /\ (q # NoJob => KinOf(a, q))
          /\ jobs'[c] = JobWith("queued", a, q)
    BY <1>2, <2>1, JobsGoOn DEF BornAs
  <2>3. jobs'[c].status = "queued" /\ jobs'[c].agent = a /\ jobs'[c].parent = q
    BY <2>2 DEF JobWith
  <2>4. q \in Jobs /\ jobs[q].status = "running"
    BY <2>2, <2>3 DEF ParentGone
  <2> QED
    BY <1>1, <2>2, <2>3, <2>4 DEF KinOf, JobTenant
<1>3. CASE jobs[c].status # "free"
  <2>1. GoesOn(c)
    BY <1>3, JobsGoOn
  <2>2. jobs[c].parent \in Jobs
    BY <2>1 DEF GoesOn, TypeOK, DbType, JobsType, JobRow
  <2>3. /\ KinOf(jobs[c].agent, jobs[c].parent)
        /\ jobs[jobs[c].parent].status \notin {"free", "queued"}
    BY <2>1 DEF GoesOn, KinJobs
  <2> QED
    BY <1>1, <2>1, <2>2, <2>3 DEF GoesOn, KinOf, JobTenant
<1> QED
  BY <1>2, <1>3

\* A batch stops as a whole.
LEMMA StopStep ==
    ASSUME TypeOK, KinSteps, KinJobs, StopIsJoint, [Next]_vars
    PROVE  StopIsJoint'
<1> SUFFICES ASSUME NEW d \in Jobs, NEW c \in Jobs,
                    jobs'[d].status = "running", IsDirector(d)',
                    jobs'[d].cancel, jobs'[d].retryable,
                    Active(c)', jobs'[c].parent = d
             PROVE  jobs'[c].cancel
  BY DEF StopIsJoint
<1>0. jobs \in [Jobs -> JobRow] /\ NoJob \notin Jobs
  BY ConstantsAssumption DEF TypeOK, DbType, JobsType, ConstantsAssumption
<1>1. jobs[d].status # "free" /\ GoesOn(d)
  <2>1. ASSUME BornAs(d) PROVE FALSE
    BY <2>1 DEF BornAs, JobWith
  <2> QED
    BY <2>1, JobsGoOn
<1>2. jobs[d].status \in {"queued", "running"} /\ IsDirector(d) /\ jobs[d].retryable
  BY <1>1 DEF GoesOn, Active, Live, IsDirector
<1>3. CASE jobs[d].cancel
  <2>1. jobs[c].status # "free"
    <3> SUFFICES ASSUME jobs[c].status = "free" PROVE FALSE
      OBVIOUS
    <3>1. ~(jobs[c].parent = d)
      BY <1>0 DEF KinJobs
    <3>2. BornAs(c)
      BY <3>1, JobsGoOn
    <3>3. ~ParentGone(d)
      BY <3>2 DEF BornAs, JobWith
    <3> QED
      BY <1>0, <1>3, <3>3 DEF ParentGone
  <2>2. GoesOn(c)
    BY <2>1, JobsGoOn
  <2>3. jobs[d].status = "running"
    <3> SUFFICES ASSUME jobs[d].status = "queued" PROVE FALSE
      BY <1>2
    <3>1. ~Calm
      BY DEF Calm, Ended
    <3>2. ~Stopped
      BY RequestCancelLife DEF Stopped
    <3>5. ~Blocked
      BY <1>0 DEF Blocked, JobRow
    <3>3. ~Claimed
      BY <1>0, <1>3 DEF Claimed, JobRow
    <3>4. ~Born
      BY <1>0 DEF Born
    <3> QED
      BY <3>1, <3>2, <3>3, <3>4, <3>5, NextKind
  <2> QED
    BY <1>2, <1>3, <2>2, <2>3 DEF StopIsJoint, GoesOn
<1>4. CASE ~jobs[d].cancel
  <2>1. ~Calm /\ ~Claimed /\ ~Born /\ ~Blocked
    <3>1. ~Calm
      BY <1>1, <1>4 DEF Calm
    <3>2. ~Claimed
      BY <1>0, <1>4 DEF Claimed, JobRow
    <3>3. ~Born
      BY <1>0, <1>1, <1>4 DEF Born
    <3>4. ~Blocked
      BY <1>0, <1>4 DEF Blocked, JobRow
    <3> QED
      BY <3>1, <3>2, <3>3, <3>4
  <2>2. PICK H \in SUBSET Jobs :
        /\ RequestCancel(H) /\ \A j \in H : Active(j)
        /\ \/ \A j \in H : ~IsDirector(j) \/ jobs[j].parent # NoJob
           \/ \E t \in Tenants : H = {j \in Jobs : Active(j) /\ JobTenant(j) = t}
    BY <2>1, NextKind DEF Stopped
  <2>3. d \in H
    BY <1>0, <1>4, <2>2 DEF RequestCancel
  <2>4. jobs[d].parent = NoJob
    BY <1>2 DEF KinJobs, KinOf, IsDirector
  <2>5. PICK t \in Tenants : H = {j \in Jobs : Active(j) /\ JobTenant(j) = t}
    BY <1>2, <2>2, <2>3, <2>4
  <2>6. Active(c) /\ jobs[c].parent = d
    BY <1>0, <2>2 DEF RequestCancel, Active, JobRow
  <2>7. JobTenant(c) = JobTenant(d)
    BY <1>0, <2>6 DEF KinJobs, KinOf, JobTenant
  <2>8. c \in H
    BY <2>3, <2>5, <2>6, <2>7
  <2> QED
    BY <1>0, <2>2, <2>8 DEF RequestCancel, JobRow
<1> QED
  BY <1>3, <1>4

-----------------------------------------------------------------------------
(* Most steps of the system move no job between the processes: what they leave
   to do ends and enqueues nothing. *)

Mild(x) ==
    /\ x.op \notin {"enqueue", "finish"}
    /\ x.op = "reserve" /\ x.parent # NoJob =>
         jobs[x.parent].status # "free" /\ KinOf(x.agent, x.parent)
    /\ x.op = "signal" => \A j \in x.drop : Waiting(j)' /\ jobs'[j].cancel

MildSteps ==
    \A q \in Procs : /\ \A x \in Steps(q)' : x \in Steps(q) \/ Mild(x)
                     /\ \A x \in Later(q)' : x \in Later(q) \/ Mild(x)
                     /\ phase[q] = "init" => todo'[q] = todo[q] \/ todo'[q] = <<>>

SameHolders ==
    /\ rq' \subseteq rq /\ UNCHANGED <<cur, died, unsure>>
    /\ \A q \in Procs : phase'[q] = phase[q] \/ (phase[q] = "init" /\ phase'[q] = "run")
SameLives ==
    \A j \in Jobs : /\ jobs'[j].status = "free" <=> jobs[j].status = "free"
                    /\ jobs'[j].status = "running" => jobs[j].status = "running"
Still == MildSteps /\ SameHolders /\ SameLives

\* Steps that stay are mild.
LEMMA SameTodo == ASSUME UNCHANGED todo PROVE MildSteps
BY DEF MildSteps, Steps, Later

\* A process replaces its step by mild ones.
LEMMA BecomeMild ==
    ASSUME TypeOK, HeadOnly, NEW p \in Procs, todo[p] # <<>>, NEW s \in Seq(Step),
           Becomes(p, s), \A x \in Elems(s) : Mild(x)
    PROVE  MildSteps
<1>1. phase[p] # "init"
  BY DEF HeadOnly
<1> QED
  BY <1>1, StepsBecome DEF MildSteps

\* A process is given mild steps.
LEMMA GivenMild ==
    ASSUME TypeOK, NEW p \in Procs, phase[p] # "init", NEW s \in Seq(Step),
           todo' = [todo EXCEPT ![p] = s], \A x \in Elems(s) : Mild(x)
    PROVE  MildSteps
<1>1. /\ Steps(p)' = Elems(s) /\ Later(p)' \subseteq Steps(p)'
      /\ \A q \in Procs \ {p} : Steps(q)' = Steps(q) /\ Later(q)' = Later(q)
      /\ \A q \in Procs \ {p} : todo'[q] = todo[q]
  BY StepsGiven
<1> QED
  BY <1>1 DEF MildSteps

\* A calm step starts no job.
LEMMA CalmLives == ASSUME TypeOK, Calm PROVE SameLives
BY DEF Calm, SameLives, Active, Live, Ended

\* Nor does a stop request.
LEMMA RequestCancelLives ==
    ASSUME TypeOK, NEW H, RequestCancel(H)
    PROVE  SameLives
BY RequestCancelLife DEF SameLives

\* _request_stop: the jobs it saw queued carry its request from now on.
LEMMA StopStepsMild ==
    ASSUME TypeOK, NEW H \in SUBSET Jobs, RequestCancel(H)
    PROVE  StopSteps(H) \in Seq(Step) /\ \A x \in Elems(StopSteps(H)) : Mild(x)
<1> DEFINE D == {j \in H : jobs[j].status = "queued"}
           K == {j \in H : jobs[j].status = "running"}
<1>1. \A j \in D : Waiting(j)' /\ jobs'[j].cancel
  BY DEF RequestCancel, Waiting, TypeOK, DbType, JobsType, JobRow
<1>2. StopSteps(H) = Signal(D, K) /\ D \in SUBSET Jobs /\ K \in SUBSET Jobs
  BY DEF StopSteps
<1>3. Mild([op |-> "signal", drop |-> D, kill |-> K])
  BY <1>1 DEF Mild
<1> HIDE DEF D, K
<1> QED
  BY <1>2, <1>3, ElemsSignal, SignalType

\* A sweep is mild.
LEMMA SweepMild ==
    ASSUME NEW D \in SUBSET Jobs
    PROVE  Sweep(D) \in Seq(Step) /\ \A x \in Elems(Sweep(D)) : Mild(x)
<1>1. Mild([op |-> "children", of |-> D])
  BY DEF Mild
<1> QED
  BY <1>1, ElemsSweep, SweepType

\* Mild steps after mild steps.
LEMMA MildConcat ==
    ASSUME NEW s \in Seq(Step), NEW t \in Seq(Step),
           \A x \in Elems(s) : Mild(x), \A x \in Elems(t) : Mild(x)
    PROVE  s \o t \in Seq(Step) /\ \A x \in Elems(s \o t) : Mild(x)
BY ElemsConcat, ConcatProperties

\* No steps are mild steps.
LEMMA NoneMild == <<>> \in Seq(Step) /\ \A x \in Elems(<<>>) : Mild(x)
BY ElemsNone, EmptySeq

\* What is left of a signal step is as mild as the step was.
LEMMA SignalMild ==
    ASSUME TypeOK, DropWaits, NEW p \in Procs, NEW s \in SignalStep, s \in Steps(p),
           NEW D \in SUBSET s.drop, NEW K \in SUBSET s.kill, Calm, SameLives
    PROVE  Signal(D, K) \in Seq(Step) /\ \A x \in Elems(Signal(D, K)) : Mild(x)
<1>1. s.drop \subseteq Jobs /\ s.kill \subseteq Jobs /\ s.op = "signal"
  BY DEF SignalStep
<1>2. \A j \in s.drop : Waiting(j) /\ jobs[j].cancel
  BY <1>1 DEF DropWaits
<1>3. \A j \in D : Waiting(j)' /\ jobs'[j].cancel
  BY <1>1, <1>2 DEF Waiting, Calm, SameLives
<1>4. Mild([op |-> "signal", drop |-> D, kill |-> K])
  BY <1>3 DEF Mild
<1> QED
  BY <1>1, <1>4, ElemsSignal, SignalType

\* The recovery moves no job.
LEMMA ExpireStill ==
    ASSUME TypeOK, NEW p \in Procs, phase[p] # "init", NEW T \in SUBSET Tenants,
           NEW s \in Seq(Step), \A x \in Elems(s) : Mild(x),
           Expire(Expired(T)), todo' = [todo EXCEPT ![p] = Sweep(ExpiredDirectors(T)) \o s],
           UNCHANGED <<rq, stopCmds, mem, hist>>
    PROVE  Still
<1>1. ExpiredDirectors(T) \in SUBSET Jobs
  BY DEF ExpiredDirectors, Expired
<1> DEFINE t == Sweep(ExpiredDirectors(T)) \o s
<1>2. t \in Seq(Step) /\ \A x \in Elems(t) : Mild(x)
  BY <1>1, SweepMild, MildConcat
<1>3. todo' = [todo EXCEPT ![p] = t]
  OBVIOUS
<1> HIDE DEF t
<1>4. MildSteps
  BY <1>2, <1>3, GivenMild
<1>5. SameLives
  BY ExpireCalm, CalmLives
<1> QED
  BY <1>4, <1>5 DEF Still, SameHolders, mem, hist

\* AgentRunner.start, when it has to recover first.
LEMMA BeginStartStill ==
    ASSUME TypeOK, NEW p \in Procs, phase[p] # "init", NEW a \in Agents,
           NEW q \in Jobs \cup {NoJob}, q # NoJob => jobs[q].status # "free" /\ KinOf(a, q),
           Expired(Tenants) # {}, BeginStart(p, a, q)
    PROVE  Still
<1> DEFINE r == [op |-> "reserve", agent |-> a, parent |-> q]
<1>1. r \in Step /\ Mild(r)
  BY DEF Step, ReserveStep, Mild
<1>2. <<r>> \in Seq(Step) /\ \A x \in Elems(<<r>>) : Mild(x)
  BY <1>1, ElemsOne
<1>3. /\ Expire(Expired(Tenants))
      /\ todo' = [todo EXCEPT ![p] = Sweep(ExpiredDirectors(Tenants)) \o <<r>>]
      /\ UNCHANGED <<rq, stopCmds, mem, hist>>
  BY DEF BeginStart
<1> HIDE DEF r
<1> QED
  BY <1>2, <1>3, ExpireStill

\* Nor do these steps of an operation.
LEMMA StepTakenStill ==
    ASSUME TypeOK, HeadOnly, DropWaits, NEW p \in Procs,
           \/ ReserveRefused(p) \/ CancelChildren(p) \/ DropQueued(p) \/ SendStop(p)
           \/ ResetRows(p) \/ ForceRows(p) \/ FinishStepTaken(p) \/ CloseRun(p)
    PROVE  Still
<1> USE DEF mem, hist, db
<1>0. todo[p] # <<>> /\ Head(todo[p]) \in Steps(p)
  <2>1. todo[p] # <<>>
    BY DEF At, ReserveRefused, CancelChildren, DropQueued, SendStop, ResetRows, ForceRows,
       FinishStepTaken, CloseRun
  <2> QED
    BY <2>1, StepsSplit
<1>1. CASE ReserveRefused(p) \/ ForceRows(p) \/ CloseRun(p)
  <2>1. MildSteps
    BY <1>0, <1>1, NoneMild, BecomeMild DEF ReserveRefused, ForceRows, CloseRun
  <2> QED
    BY <1>1, <2>1 DEF ReserveRefused, ForceRows, CloseRun, Still, SameHolders, SameLives
<1>2. CASE CancelChildren(p)
  <2> DEFINE s == Head(todo[p])
             hits(d) == {j \in Jobs : Active(j) /\ jobs[j].parent = d}
  <2>1. s \in ChildrenStep
    BY <1>2, HeadKind DEF CancelChildren
  <2>2. PICK d \in s.of : /\ RequestCancel(hits(d))
                          /\ Becomes(p, StopSteps(hits(d)) \o Sweep(s.of \ {d}))
    BY <1>2 DEF CancelChildren
  <2>3. /\ StopSteps(hits(d)) \in Seq(Step)
        /\ \A x \in Elems(StopSteps(hits(d))) : Mild(x)
    BY <2>2, StopStepsMild
  <2>4. s.of \ {d} \in SUBSET Jobs
    BY <2>1 DEF ChildrenStep
  <2> DEFINE t == StopSteps(hits(d)) \o Sweep(s.of \ {d})
  <2>5. t \in Seq(Step) /\ \A x \in Elems(t) : Mild(x)
    BY <2>3, <2>4, SweepMild, MildConcat
  <2>6. Becomes(p, t) /\ RequestCancel(hits(d))
    BY <2>2
  <2> HIDE DEF t, hits
  <2>7. MildSteps
    BY <1>0, <2>5, <2>6, BecomeMild
  <2>8. SameLives
    BY <2>6, RequestCancelLives
  <2> QED
    BY <1>2, <2>7, <2>8 DEF CancelChildren, Still, SameHolders
<1>3. CASE DropQueued(p)
  <2> DEFINE s == Head(todo[p])
  <2>1. s \in SignalStep
    BY <1>3, HeadKind DEF DropQueued
  <2>2. PICK j \in s.drop : /\ FinishJob(j, "cancelled", TRUE)
                            /\ \/ rq' = rq \ {j} /\ UNCHANGED faults
                               \/ Fault /\ UNCHANGED rq
                            /\ Becomes(p, Signal(s.drop \ {j}, s.kill))
    BY <1>3 DEF DropQueued
  <2>3. Calm /\ SameLives
    BY <2>1, <2>2, FinishJobCalm, CalmLives DEF SignalStep, Ended
  <2> DEFINE t == Signal(s.drop \ {j}, s.kill)
  <2>4. t \in Seq(Step) /\ \A x \in Elems(t) : Mild(x)
    BY <1>0, <2>1, <2>3, SignalMild
  <2>5. Becomes(p, t)
    BY <2>2
  <2> HIDE DEF t
  <2>6. MildSteps
    BY <1>0, <2>4, <2>5, BecomeMild
  <2> QED
    BY <1>3, <2>2, <2>3, <2>6 DEF DropQueued, Still, SameHolders
<1>4. CASE SendStop(p)
  <2> DEFINE s == Head(todo[p])
  <2>1. s \in SignalStep
    BY <1>4, HeadKind DEF SendStop
  <2>2. PICK j \in s.kill : Becomes(p, Signal(s.drop, s.kill \ {j}))
    BY <1>4 DEF SendStop
  <2>3. Calm /\ SameLives
    BY <1>4, CalmSame, CalmLives DEF SendStop
  <2> DEFINE t == Signal(s.drop, s.kill \ {j})
  <2>4. t \in Seq(Step) /\ \A x \in Elems(t) : Mild(x)
    BY <1>0, <2>1, <2>3, SignalMild
  <2>5. Becomes(p, t)
    BY <2>2
  <2> HIDE DEF t
  <2>6. MildSteps
    BY <1>0, <2>4, <2>5, BecomeMild
  <2> QED
    BY <1>4, <2>3, <2>6 DEF SendStop, Still, SameHolders
<1>5. CASE ResetRows(p)
  <2> DEFINE f == [op |-> "force", tenant |-> Head(todo[p]).tenant]
  <2>1. f \in Step /\ Mild(f)
    BY <1>5, HeadKind DEF ResetRows, ResetStep, Step, Mild
  <2>2. <<f>> \in Seq(Step) /\ \A x \in Elems(<<f>>) : Mild(x)
    BY <2>1, ElemsOne
  <2>3. Becomes(p, <<>>) \/ Becomes(p, <<f>>)
    BY <1>5 DEF ResetRows
  <2> HIDE DEF f
  <2>4. MildSteps
    BY <1>0, <2>2, <2>3, NoneMild, BecomeMild
  <2> QED
    BY <1>5, <2>4 DEF ResetRows, Still, SameHolders, SameLives
<1>6. CASE FinishStepTaken(p)
  <2>1. MildSteps
    BY <1>0, <1>6, NoneMild, BecomeMild DEF FinishStepTaken
  <2>2. SameLives
    BY <1>6, HeadKind, FinishJobCalm, CalmLives DEF FinishStepTaken, FinishStep
  <2> QED
    BY <1>6, <2>1, <2>2 DEF FinishStepTaken, Still, SameHolders
<1> QED
  BY <1>1, <1>2, <1>3, <1>4, <1>5, <1>6

\* An operation of a caller moves no job, or reserves one.
LEMMA CallerStill ==
    ASSUME TypeOK, HeadOnly, NEW p \in Callers, CallerNext(p)
    PROVE  Still \/ \E a \in Agents : Reserve(p, a, NoJob, <<>>)
<1>0. p \in Procs /\ phase[p] # "init"
  BY DEF Procs, HeadOnly
<1> USE DEF mem, hist, db
<1>1. ASSUME NEW a \in Agents, CallerStarts(p, a)
      PROVE  Still \/ Reserve(p, a, NoJob, <<>>)
  <2>1. BeginStart(p, a, NoJob)
    BY <1>1 DEF CallerStarts
  <2>2. CASE Expired(Tenants) # {}
    BY <1>0, <2>1, <2>2, BeginStartStill
  <2>3. CASE Expired(Tenants) = {}
    BY <2>1, <2>3 DEF BeginStart
  <2> QED
    BY <2>2, <2>3
<1>2. ASSUME NEW a \in Agents, StopAgent(p, a) PROVE Still
  <2> DEFINE hits == {j \in Jobs : Active(j) /\ jobs[j].agent = a}
  <2>1. RequestCancel(hits) /\ todo' = [todo EXCEPT ![p] = StopSteps(hits)]
    BY <1>2 DEF StopAgent
  <2>2. hits \in SUBSET Jobs
    OBVIOUS
  <2> HIDE DEF hits
  <2>3. MildSteps
    BY <1>0, <2>1, <2>2, StopStepsMild, GivenMild
  <2>4. SameLives
    BY <2>1, RequestCancelLives
  <2> QED
    BY <1>2, <2>3, <2>4 DEF StopAgent, Still, SameHolders
<1>3. ASSUME NEW t \in Tenants, StopAll(p, t) PROVE Still
  <2> DEFINE hits == {j \in Jobs : Active(j) /\ JobTenant(j) = t}
             reset == [op |-> "reset", tenant |-> t]
             steps == StopSteps(hits) \o <<reset>>
  <2>1. RequestCancel(hits) /\ todo' = [todo EXCEPT ![p] = steps]
    BY <1>3 DEF StopAll
  <2>2. hits \in SUBSET Jobs
    OBVIOUS
  <2>3. reset \in Step /\ Mild(reset)
    BY DEF Step, ResetStep, Mild
  <2>4. <<reset>> \in Seq(Step) /\ \A x \in Elems(<<reset>>) : Mild(x)
    BY <2>3, ElemsOne
  <2> HIDE DEF hits, reset
  <2>5. steps \in Seq(Step) /\ \A x \in Elems(steps) : Mild(x)
    BY <2>1, <2>2, <2>4, StopStepsMild, MildConcat
  <2> HIDE DEF steps
  <2>6. MildSteps
    BY <1>0, <2>1, <2>5, GivenMild
  <2>7. SameLives
    BY <2>1, RequestCancelLives
  <2> QED
    BY <1>3, <2>6, <2>7 DEF StopAll, Still, SameHolders
<1>4. ASSUME RepairRows(p) PROVE Still
  BY <1>4, SameTodo DEF RepairRows, Still, SameHolders, SameLives
<1> QED
  BY <1>1, <1>2, <1>3, <1>4 DEF CallerNext

\* A worker's steps, but for those that move a job.
Moving(p) ==
    \/ \E a \in Agents : KinOf(a, cur[p]) /\ phase[p] = "run" /\ Reserve(p, a, cur[p], <<>>)
    \/ \E j \in Jobs : RefuseJob(p, j) \/ ClaimJob(p, j)
    \/ AgentNotReady(p) \/ AgentReturns(p) \/ AgentRaises(p)
    \/ LeaveJob(p) \/ HorseDies(p) \/ StopDelivered(p)

\* Nor does a worker, but for those operations.
LEMMA WorkerStill ==
    ASSUME TypeOK, HeadOnly, HeldAlone, NEW p \in Workers, WorkerNext(p)
    PROVE  Still \/ Moving(p)
<1>0. p \in Procs
  BY DEF Procs
<1> USE DEF mem, hist, db
<1>a. phase[p] # "off" => cur[p] \in Jobs
  BY <1>0 DEF TypeOK, ProcType
<1>b. \A q \in Procs : cur[q] \in Jobs \cup {NoJob}
  BY DEF TypeOK, ProcType
<1>1. ASSUME NEW a \in Agents, DirectorStarts(p, a) PROVE Still \/ Moving(p)
  <2>1. /\ BeginStart(p, a, cur[p]) /\ phase[p] = "run" /\ cur[p] \in Jobs
        /\ KinOf(a, cur[p])
    BY <1>a, <1>1 DEF DirectorStarts, KinOf
  <2>2. jobs[cur[p]].status # "free"
    BY <1>0, <2>1 DEF HeldAlone
  <2>3. CASE Expired(Tenants) # {}
    BY <1>0, <2>1, <2>2, <2>3, BeginStartStill
  <2>4. CASE Expired(Tenants) = {}
    BY <2>1, <2>4 DEF BeginStart, Moving
  <2> QED
    BY <2>3, <2>4
<1>2. ASSUME NEW j \in Jobs, SkipJob(p, j) PROVE Still
  BY <1>2, SameTodo DEF SkipJob, Take, Still, SameHolders, SameLives
<1>3. CASE AgentReady(p)
  <2>1. \A q \in Procs : phase'[q] = phase[q] \/ (phase[q] = "init" /\ phase'[q] = "run")
    BY <1>0, <1>3 DEF AgentReady, TypeOK, ProcType
  <2> QED
    BY <1>3, <2>1, SameTodo DEF AgentReady, Still, SameHolders, SameLives
<1>4. CASE Heartbeat(p)
  <2>1. SameLives
    BY <1>4 DEF Heartbeat, SameLives, TypeOK, DbType, JobsType, JobRow
  <2> QED
    BY <1>4, <2>1, SameTodo DEF Heartbeat, Still, SameHolders
<1>5. CASE TimeLimit(p)
  <2>1. SameLives
    BY <1>a, <1>5, BlockJobLife DEF TimeLimit, Running, SameLives
  <2> QED
    BY <1>5, <2>1, SameTodo DEF TimeLimit, Still, SameHolders
<1>6. CASE ConsumeApiCall(p)
  <2>1. SameLives
    <3>1. CASE UNCHANGED jobs
      BY <3>1 DEF SameLives
    <3>2. CASE BlockJob(cur[p])
      BY <1>a, <1>6, <3>2, BlockJobLife DEF ConsumeApiCall, Running, SameLives
    <3>3. CASE jobs' = [jobs EXCEPT ![cur[p]].calls = @ + 1]
      BY <3>3 DEF SameLives, TypeOK, DbType, JobsType, JobRow
    <3> QED
      BY <1>6, <3>1, <3>2, <3>3 DEF ConsumeApiCall
  <2> QED
    BY <1>6, <2>1, SameTodo DEF ConsumeApiCall, Still, SameHolders
<1>7. ASSUME NEW s \in Reports, SetStatus(p, s) PROVE Still
  BY <1>7, SameTodo DEF SetStatus, Still, SameHolders, SameLives
<1>8. CASE PollToken(p)
  BY <1>8, SameTodo DEF PollToken, Still, SameHolders, SameLives
<1> QED
  BY <1>1, <1>2, <1>3, <1>4, <1>5, <1>6, <1>7, <1>8 DEF WorkerNext, Moving

\* Every step either moves a job or leaves it where it is.
Reserving(p) ==
    \E a \in Agents, q \in Jobs \cup {NoJob}, rest \in Seq(Step) :
        /\ Reserve(p, a, q, rest) /\ (q # NoJob => KinOf(a, q))
        /\ phase[p] # "init" /\ Elems(rest) \subseteq Later(p)
WorkerMoving(p) ==
    \/ \E j \in Jobs : RefuseJob(p, j) \/ ClaimJob(p, j)
    \/ AgentNotReady(p) \/ AgentReturns(p) \/ AgentRaises(p)
    \/ LeaveJob(p) \/ HorseDies(p) \/ StopDelivered(p)

\* The whole next-state relation, by what it moves.
LEMMA NextStill ==
    ASSUME TypeOK, KinSteps, HeadOnly, HeldAlone, DropWaits, [Next]_vars
    PROVE  \/ Still
           \/ \E p \in Procs : Reserving(p) \/ Enqueued(p) \/ EnqueueFails(p) \/ ProcessDies(p)
           \/ \E p \in Workers : WorkerMoving(p)
<1> USE DEF mem, hist, db
<1>1. ASSUME NEW p \in Procs, StepTaken(p)
      PROVE  Still \/ Reserving(p) \/ Enqueued(p) \/ EnqueueFails(p)
  <2>1. ASSUME ReserveGranted(p) PROVE Reserving(p)
    <3> DEFINE s == Head(todo[p])
    <3>1. /\ s \in ReserveStep /\ s \in Steps(p) /\ todo[p] # <<>>
          /\ Tail(todo[p]) \in Seq(Step) /\ Elems(Tail(todo[p])) = Later(p)
      BY <2>1, HeadKind, HeadType, StepsSplit DEF ReserveGranted
    <3>2. s.agent \in Agents /\ s.parent \in Jobs \cup {NoJob} /\ s.op = "reserve"
      BY <3>1 DEF ReserveStep
    <3>3. s.parent # NoJob => KinOf(s.agent, s.parent)
      BY <3>1, <3>2 DEF KinSteps
    <3>4. phase[p] # "init"
      BY <3>1 DEF HeadOnly
    <3>5. Reserve(p, s.agent, s.parent, Tail(todo[p]))
      BY <2>1 DEF ReserveGranted
    <3> QED
      BY <3>1, <3>2, <3>3, <3>4, <3>5 DEF Reserving
  <2> QED
    BY <1>1, <2>1, StepTakenStill DEF StepTaken
<1>2. ASSUME NEW p \in Procs, NEW T \in SUBSET Tenants, Recover(p, T) PROVE Still
  <2>1. phase[p] # "init"
    BY <1>2 DEF Recover, Idle, HeadOnly
  <2> DEFINE s == Sweep(ExpiredDirectors(T))
  <2>2. s \in Seq(Step)
    BY SweepType DEF ExpiredDirectors, Expired
  <2>3. s \o <<>> = s
    BY <2>2, ConcatEmptySeq
  <2> HIDE DEF s
  <2>4. todo' = [todo EXCEPT ![p] = s \o <<>>]
    BY <1>2, <2>3 DEF Recover, s
  <2> QED
    BY <1>2, <2>1, <2>4, NoneMild, ExpireStill DEF Recover, s
<1>3. ASSUME NEW p \in Callers, CallerNext(p) PROVE Still \/ Reserving(p)
  <2>1. p \in Procs /\ phase[p] # "init"
    BY DEF Procs, HeadOnly
  <2>2. ASSUME NEW a \in Agents, Reserve(p, a, NoJob, <<>>) PROVE Reserving(p)
    BY <2>1, <2>2, ElemsNone, EmptySeq DEF Reserving
  <2> QED
    BY <1>3, <2>2, CallerStill
<1>4. ASSUME NEW p \in Workers, WorkerNext(p) PROVE Still \/ Reserving(p) \/ WorkerMoving(p)
  <2>1. p \in Procs
    BY DEF Procs
  <2>2. ASSUME NEW a \in Agents, KinOf(a, cur[p]), phase[p] = "run", Reserve(p, a, cur[p], <<>>)
        PROVE  Reserving(p)
    <3>1. cur[p] \in Jobs \cup {NoJob}
      BY <2>1 DEF TypeOK, ProcType
    <3> QED
      BY <2>1, <2>2, <3>1, ElemsNone, EmptySeq DEF Reserving
  <2> QED
    BY <1>4, <2>2, WorkerStill DEF Moving, WorkerMoving
<1>5. ASSUME NEW j \in Jobs, RqLoses(j) PROVE Still
  BY <1>5, SameTodo DEF RqLoses, Still, SameHolders, SameLives
<1>6. ASSUME NEW j \in Jobs, Age(j) PROVE Still
  <2>1. SameLives
    BY <1>6 DEF Age, SameLives, TypeOK, DbType, JobsType, JobRow
  <2> QED
    BY <1>6, <2>1, SameTodo DEF Age, Still, SameHolders
<1>7. CASE UNCHANGED vars
  BY <1>7, SameTodo DEF vars, Still, SameHolders, SameLives
<1>8. Workers \subseteq Procs
  BY DEF Procs
<1>9. CASE \E p \in Procs : StepTaken(p)
  BY <1>1, <1>9
<1>10. CASE \E p \in Callers : CallerNext(p)
  <2>1. \A p \in Callers : p \in Procs
    BY DEF Procs
  <2> QED
    BY <1>3, <1>10, <2>1
<1>11. CASE \E p \in Workers : WorkerNext(p)
  BY <1>4, <1>8, <1>11
<1>12. CASE \E p \in Procs : ProcessDies(p)
  BY <1>12
<1> QED
  BY <1>2, <1>5, <1>6, <1>7, <1>9, <1>10, <1>11, <1>12 DEF Next

-----------------------------------------------------------------------------
(* Custody of a job: one step at a time. *)

\* p is given a first step and some that neither enqueue nor finish.
Trailing(x) == x.op \notin {"enqueue", "finish", "reserve", "signal"}

\* p is given a first step and others behind it.
LEMMA GivenFirst ==
    ASSUME TypeOK, NEW p \in Procs, NEW x \in Step, NEW t \in Seq(Step),
           todo' = [todo EXCEPT ![p] = <<x>> \o t]
    PROVE  /\ Steps(p)' = {x} \cup Elems(t) /\ Later(p)' = Elems(t)
           /\ \A q \in Procs \ {p} : Steps(q)' = Steps(q) /\ Later(q)' = Later(q)
           /\ \A q \in Procs \ {p} : todo'[q] = todo[q]
<1>1. todo'[p] = <<x>> \o t /\ \A q \in Procs \ {p} : todo'[q] = todo[q]
  BY DEF TypeOK, TodoType
<1>2. Steps(p)' = Elems(<<x>> \o t)
      /\ Later(p)' = {(<<x>> \o t)[i] : i \in 2 .. Len(<<x>> \o t)}
  BY <1>1 DEF Steps, Later
<1>3. \A q \in Procs \ {p} : Steps(q)' = Steps(q) /\ Later(q)' = Later(q)
  BY <1>1 DEF Steps, Later
<1>4. /\ Elems(<<x>> \o t) = {x} \cup Elems(t)
      /\ {(<<x>> \o t)[i] : i \in 2 .. Len(<<x>> \o t)} = Elems(t)
  BY ElemsCons
<1> QED
  BY <1>1, <1>2, <1>3, <1>4

\* cancel_children of one job is a sweep, of a Director at least.
LEMMA ChildrenOfElems ==
    ASSUME NEW j \in Jobs
    PROVE  /\ CancelChildrenOf(j) \in Seq(Step)
           /\ \A x \in Elems(CancelChildrenOf(j)) : Trailing(x)
           /\ IsDirector(j) => [op |-> "children", of |-> {j}] \in Elems(CancelChildrenOf(j))
<1>1. CASE IsDirector(j)
  <2> DEFINE D == {j}
  <2>1. D \in SUBSET Jobs /\ D # {}
    OBVIOUS
  <2>2. CancelChildrenOf(j) = Sweep(D)
    BY <1>1 DEF CancelChildrenOf
  <2> HIDE DEF D
  <2>3. Trailing([op |-> "children", of |-> D])
    BY DEF Trailing
  <2>4. Sweep(D) \in Seq(Step) /\ \A x \in Elems(Sweep(D)) : Trailing(x)
    BY <2>1, <2>3, ElemsSweep, SweepType
  <2>5. [op |-> "children", of |-> D] \in Elems(Sweep(D))
    BY <2>1, ElemsSweep
  <2> QED
    BY <2>2, <2>4, <2>5 DEF D
<1>2. CASE ~IsDirector(j)
  BY <1>2, ElemsNone, EmptySeq DEF CancelChildrenOf
<1> QED
  BY <1>1, <1>2

\* The finally block first ends the job; the sweep of its children follows.
LEMMA ExitFirst ==
    ASSUME NEW j \in Jobs, NEW s \in Ended, NEW raised \in BOOLEAN
    PROVE  \E t \in Seq(Step) :
             /\ ExitSteps(j, s, raised) = <<Finish(j, s, TRUE)>> \o t
             /\ \A x \in Elems(t) : Trailing(x)
             /\ IsDirector(j) /\ s \in {"error", "cancelled"} =>
                  [op |-> "children", of |-> {j}] \in Elems(t)
<1> DEFINE first == <<Finish(j, s, TRUE)>>
           kids == IF s \in {"error", "cancelled"} THEN CancelChildrenOf(j) ELSE <<>>
           c == [op |-> "close", job |-> j, as |-> s]
           close == <<c>>
           last == IF raised THEN CancelChildrenOf(j) ELSE <<>>
           end == close \o last
           t == kids \o end
<1>1. first \in Seq(Step)
  BY FinishType
<1>2. c \in Step /\ Trailing(c)
  BY DEF Step, CloseStep, Trailing
<1>3. close \in Seq(Step) /\ Elems(close) = {c}
  BY <1>2, ElemsOne
<1>4. kids \in Seq(Step) /\ \A x \in Elems(kids) : Trailing(x)
  BY ChildrenOfElems, EmptySeq, ElemsNone
<1>5. last \in Seq(Step) /\ \A x \in Elems(last) : Trailing(x)
  BY ChildrenOfElems, EmptySeq, ElemsNone
<1>6. IsDirector(j) /\ s \in {"error", "cancelled"} =>
        [op |-> "children", of |-> {j}] \in Elems(kids)
  BY ChildrenOfElems
<1>7. ExitSteps(j, s, raised) = first \o kids \o close \o last
  BY DEF ExitSteps
<1> HIDE DEF first, kids, close, last, c
<1>8. end \in Seq(Step) /\ Elems(end) = {c} \cup Elems(last)
  BY <1>3, <1>5, ElemsConcat, ConcatProperties
<1>a. (first \o kids) \o close \o last = (first \o kids) \o end
  <2>1. first \o kids \in Seq(Step)
    BY <1>1, <1>4, ConcatProperties
  <2> QED
    BY <1>3, <1>5, <2>1, ConcatAssociative
<1> HIDE DEF end
<1>9. t \in Seq(Step) /\ Elems(t) = Elems(kids) \cup {c} \cup Elems(last)
  BY <1>4, <1>8, ElemsConcat, ConcatProperties
<1>10. ExitSteps(j, s, raised) = first \o t
  <2>1. (first \o kids) \o end = first \o (kids \o end)
    BY <1>1, <1>4, <1>8, ConcatAssociative
  <2> QED
    BY <1>7, <1>a, <2>1
<1>11. \A x \in Elems(t) : Trailing(x)
  BY <1>2, <1>4, <1>5, <1>9
<1>12. IsDirector(j) /\ s \in {"error", "cancelled"} =>
        [op |-> "children", of |-> {j}] \in Elems(t)
  BY <1>6, <1>9
<1> HIDE DEF t
<1> QED
  BY <1>9, <1>10, <1>11, <1>12 DEF first

\* The steps a process has are steps.
LEMMA StepsType == ASSUME TypeOK, NEW p \in Procs PROVE \A x \in Steps(p) : x \in Step
BY DEF Steps, Elems, TypeOK, TodoType

\* A step that moves no job.
LEMMA StillCustody ==
    ASSUME TypeOK, TypeOK', KinSteps, Custody, Still, [Next]_vars
    PROVE  Custody'
<1> USE DEF Custody, Still, SameHolders
<1>0. \A q \in Procs : \A x \in Steps(q)' : x \in Steps(q) \/ (Mild(x) /\ x.op \notin {"enqueue", "finish"})
  BY DEF MildSteps, Mild
<1>a. \A j \in Jobs : Waiting(j) => Waiting(j)'
  BY DEF SameLives, Waiting
<1>b. \A q \in Procs, j \in Jobs : Enqueuing(q, j)' => Enqueuing(q, j)
  BY <1>0 DEF Enqueuing
<1>c. rq \subseteq Jobs /\ unsure \subseteq Jobs /\ died \subseteq Jobs
  BY DEF TypeOK, HistType
<1>1. HeadOnly'
  <2>1. \A q \in Procs : \A x \in Later(q)' : x.op \notin {"enqueue", "finish"}
    BY DEF MildSteps, Mild, HeadOnly
  <2>2. \A q \in Procs : phase'[q] = "init" => todo'[q] = <<>>
    BY DEF MildSteps, HeadOnly
  <2>3. \A q \in Callers : q \in Procs /\ phase'[q] = "off"
    BY DEF HeadOnly, Procs
  <2> QED
    BY <2>1, <2>2, <2>3 DEF HeadOnly
<1>2. EnqueueAlone'
  BY <1>0, <1>a, <1>b DEF EnqueueAlone
<1>3. QueuedAlone'
  BY <1>a, <1>c DEF QueuedAlone
<1>4. HeldAlone'
  BY DEF HeldAlone, SameLives
<1>5. FinishOwned'
  <2> SUFFICES ASSUME NEW p \in Procs, NEW s \in Steps(p)', s.op = "finish"
               PROVE  /\ jobs'[s.job].status # "free"
                      /\ \/ cur'[p] = s.job /\ phase'[p] = IF s.retry THEN "exit" ELSE "callback"
                         \/ s.retry /\ s.job \in unsure'
                         \/ /\ s.retry /\ Unheld(s.job)' /\ s.job \notin died'
                            /\ jobs'[s.job].status # "running"
    BY DEF FinishOwned
  <2>1. s \in Steps(p)
    BY <1>0
  <2>2. s.job \in Jobs
    BY <2>1, StepsType DEF Step, FinishStep, CloseStep, ChildrenStep, SignalStep, ResetStep,
       ReserveStep, EnqueueStep
  <2>3. jobs'[s.job].status # "free"
    BY <2>1, <2>2 DEF FinishOwned, SameLives
  <2>4. CASE cur[p] = s.job /\ phase[p] = IF s.retry THEN "exit" ELSE "callback"
    BY <2>3, <2>4
  <2>5. CASE s.retry /\ s.job \in unsure
    BY <2>3, <2>5
  <2>6. CASE s.retry /\ Unheld(s.job) /\ s.job \notin died /\ jobs[s.job].status # "running"
    <3>1. Unheld(s.job)'
      BY <1>b, <2>2, <2>6 DEF Unheld
    <3> QED
      BY <2>2, <2>3, <2>6, <3>1 DEF SameLives
  <2> QED
    BY <2>1, <2>4, <2>5, <2>6 DEF FinishOwned
<1>6. DropWaits'
  <2> SUFFICES ASSUME NEW p \in Procs, NEW s \in Steps(p)', s.op = "signal", NEW j \in s.drop
               PROVE  Waiting(j)' /\ jobs'[j].cancel
    BY DEF DropWaits
  <2>1. CASE Mild(s)
    BY <2>1 DEF Mild
  <2>2. CASE s \in Steps(p)
    <3>1. j \in Jobs
      BY <2>2, StepsType DEF Step, FinishStep, CloseStep, ChildrenStep, SignalStep, ResetStep,
         ReserveStep, EnqueueStep
    <3>2. Waiting(j) /\ jobs[j].cancel
      BY <2>2 DEF DropWaits
    <3> QED
      BY <1>a, <3>1, <3>2, JobsGoOn DEF GoesOn, Waiting
  <2> QED
    BY <1>0, <2>1, <2>2
<1>7. Past'
  <2>1. \A j \in unsure' : jobs'[j].status # "free"
    BY <1>c DEF Past, SameLives
  <2>2. \A j \in died' : jobs'[j].status \notin {"free", "queued"}
    BY <1>c, JobsGoOn DEF Past, GoesOn
  <2> QED
    BY <2>1, <2>2 DEF Past
<1> QED
  BY <1>1, <1>2, <1>3, <1>4, <1>5, <1>6, <1>7

\* A process with nothing to do has no steps.
LEMMA NoSteps ==
    ASSUME NEW p \in Procs, todo[p] = <<>>
    PROVE  Steps(p) = {} /\ Later(p) = {}
BY ElemsNone DEF Steps, Later

\* What the steps of a process name are jobs.
LEMMA FinishJobOf ==
    ASSUME TypeOK, NEW p \in Procs, NEW s \in Steps(p)
    PROVE  /\ s.op = "finish" => s.job \in Jobs
           /\ s.op = "signal" => s.drop \subseteq Jobs
           /\ s.op = "children" => s.of \subseteq Jobs
           /\ s.op = "reserve" => s.parent \in Jobs \cup {NoJob}
BY StepsType DEF Step, FinishStep, CloseStep, ChildrenStep, SignalStep, ResetStep,
       ReserveStep, EnqueueStep

\* reserve_job: the new job is with the process that will enqueue it.
LEMMA ReservingCustody ==
    ASSUME TypeOK, Custody, NEW p \in Procs, Reserving(p)
    PROVE  Custody'
<1> USE DEF Custody
<1>1. PICK a \in Agents, q \in Jobs \cup {NoJob}, rest \in Seq(Step) :
        Reserve(p, a, q, rest) /\ phase[p] # "init" /\ Elems(rest) \subseteq Later(p)
  BY DEF Reserving
<1>2. PICK j \in Jobs :
        /\ jobs[j].status = "free"
        /\ jobs' = [jobs EXCEPT ![j] = JobWith("queued", a, q)]
        /\ todo' = [todo EXCEPT ![p] = <<[op |-> "enqueue", job |-> j]>> \o rest]
  BY <1>1 DEF Reserve
<1> DEFINE e == [op |-> "enqueue", job |-> j]
<1>3. UNCHANGED <<rq, phase, cur, died, unsure>>
  BY <1>1 DEF Reserve, mem, hist
<1>4. e \in Step
  BY DEF Step, EnqueueStep
<1>5. /\ Steps(p)' = {e} \cup Elems(rest) /\ Later(p)' = Elems(rest)
      /\ \A r \in Procs \ {p} : Steps(r)' = Steps(r) /\ Later(r)' = Later(r)
      /\ \A r \in Procs \ {p} : todo'[r] = todo[r]
  BY <1>2, <1>4, GivenFirst
<1>6. jobs'[j].status = "queued" /\ \A k \in Jobs \ {j} : jobs'[k] = jobs[k]
  BY <1>2 DEF JobWith, TypeOK, DbType, JobsType
<1>7. /\ j \notin rq /\ j \notin died /\ j \notin unsure
      /\ \A r \in Procs : cur[r] # j /\ ~Enqueuing(r, j)
      /\ \A r \in Procs : \A s \in Steps(r) : s.op = "finish" => s.job # j
      /\ \A r \in Procs : \A s \in Steps(r) : s.op = "signal" => j \notin s.drop
  BY <1>2 DEF EnqueueAlone, QueuedAlone, HeldAlone, FinishOwned, DropWaits, Past, Waiting
<1>8. Later(p) \subseteq Steps(p)
  BY DEF Later, Steps, Elems, TypeOK, TodoType
<1>9. \A r \in Procs : \A s \in Steps(r)' : s \in Steps(r) \/ (s = e /\ r = p)
  BY <1>1, <1>5, <1>8
<1>10. \A r \in Procs, k \in Jobs : Enqueuing(r, k)' => Enqueuing(r, k) \/ (r = p /\ k = j)
  BY <1>9 DEF Enqueuing
<1>11. \A k \in Jobs : k # j => (Waiting(k)' <=> Waiting(k))
  BY <1>6 DEF Waiting
<1>12. rq \subseteq Jobs /\ died \subseteq Jobs /\ unsure \subseteq Jobs
  BY DEF TypeOK, HistType
<1>13. ~\E k \in Jobs : Enqueuing(p, k)' /\ k # j
  BY <1>1, <1>5 DEF HeadOnly, Enqueuing
<1> HIDE DEF e
<1>21. HeadOnly'
  BY <1>1, <1>3, <1>5 DEF HeadOnly
<1>22. EnqueueAlone'
  <2> SUFFICES ASSUME NEW r \in Procs, NEW k \in Jobs, Enqueuing(r, k)'
               PROVE  /\ Waiting(k)' /\ k \notin rq' \cup unsure' \cup died'
                      /\ \A t \in Procs : cur'[t] # k /\ (t # r => ~Enqueuing(t, k)')
                      /\ \A t \in Procs : \A s \in Steps(t)' : s.op = "finish" => s.job # k
    BY DEF EnqueueAlone
  <2>1. e.op = "enqueue"
    BY DEF e
  <2>2. CASE k = j
    BY <1>3, <1>6, <1>7, <1>9, <1>10, <2>1, <2>2 DEF Waiting
  <2>3. CASE k # j
    <3>1. Enqueuing(r, k)
      BY <1>10, <2>3
    <3> QED
      BY <1>3, <1>9, <1>10, <1>11, <2>1, <2>3, <3>1 DEF EnqueueAlone
  <2> QED
    BY <2>2, <2>3
<1>23. QueuedAlone'
  BY <1>3, <1>7, <1>11, <1>12 DEF QueuedAlone
<1>24. HeldAlone'
  BY <1>3, <1>6, <1>7 DEF HeldAlone
<1>25. FinishOwned'
  <2> SUFFICES ASSUME NEW r \in Procs, NEW s \in Steps(r)', s.op = "finish"
               PROVE  /\ jobs'[s.job].status # "free"
                      /\ \/ cur'[r] = s.job /\ phase'[r] = IF s.retry THEN "exit" ELSE "callback"
                         \/ s.retry /\ s.job \in unsure'
                         \/ /\ s.retry /\ Unheld(s.job)' /\ s.job \notin died'
                            /\ jobs'[s.job].status # "running"
    BY DEF FinishOwned
  <2>1. s \in Steps(r)
    BY <1>9 DEF e
  <2>2. s.job \in Jobs /\ s.job # j
    BY <1>7, <2>1, FinishJobOf
  <2>3. Unheld(s.job) => Unheld(s.job)'
    BY <1>3, <1>10, <2>2 DEF Unheld
  <2> QED
    BY <1>3, <1>6, <2>1, <2>2, <2>3 DEF FinishOwned
<1>26. DropWaits'
  <2> SUFFICES ASSUME NEW r \in Procs, NEW s \in Steps(r)', s.op = "signal", NEW k \in s.drop
               PROVE  Waiting(k)' /\ jobs'[k].cancel
    BY DEF DropWaits
  <2>1. s \in Steps(r)
    BY <1>9 DEF e
  <2>2. k \in Jobs /\ k # j
    BY <1>7, <2>1, FinishJobOf
  <2> QED
    BY <1>6, <1>11, <2>1, <2>2 DEF DropWaits
<1>27. Past'
  BY <1>3, <1>6, <1>7, <1>12 DEF Past
<1> QED
  BY <1>21, <1>22, <1>23, <1>24, <1>25, <1>26, <1>27

\* Queue.enqueue: the job goes from its process to RQ.
LEMMA EnqueuedCustody ==
    ASSUME TypeOK, Custody, NEW p \in Procs, Enqueued(p)
    PROVE  Custody'
<1> USE DEF Custody
<1> DEFINE j == Head(todo[p]).job
<1>1. todo[p] # <<>> /\ Head(todo[p]) \in EnqueueStep
  BY HeadKind DEF Enqueued, At
<1>2. j \in Jobs /\ Head(todo[p]) = [op |-> "enqueue", job |-> j]
  BY <1>1 DEF EnqueueStep
<1>3. /\ Steps(p)' = Later(p) /\ Later(p)' \subseteq Later(p)
      /\ Steps(p) = {Head(todo[p])} \cup Later(p)
      /\ \A r \in Procs \ {p} : Steps(r)' = Steps(r) /\ Later(r)' = Later(r)
      /\ \A r \in Procs \ {p} : todo'[r] = todo[r]
  BY <1>1, StepsBecome, ElemsNone, EmptySeq DEF Enqueued
<1>4. Enqueuing(p, j)
  BY <1>2, <1>3 DEF Enqueuing
<1>5. UNCHANGED <<jobs, phase, cur, died, unsure>> /\ rq' = rq \cup {j}
  BY DEF Enqueued, db, mem, hist
<1>6. /\ Waiting(j) /\ j \notin rq \cup unsure \cup died
      /\ \A q \in Procs : cur[q] # j /\ (q # p => ~Enqueuing(q, j))
      /\ \A q \in Procs : \A s \in Steps(q) : s.op = "finish" => s.job # j
  BY <1>2, <1>4 DEF EnqueueAlone
<1>7. \A r \in Procs : \A s \in Steps(r)' : s \in Steps(r)
  BY <1>3
<1>8. \A r \in Procs, k \in Jobs : Enqueuing(r, k)' => Enqueuing(r, k) /\ k # j
  BY <1>3, <1>6, <1>7 DEF Enqueuing, HeadOnly
<1>9. \A k : Waiting(k)' <=> Waiting(k)
  BY <1>5 DEF Waiting
<1>10. phase[p] # "init"
  BY <1>1 DEF HeadOnly
<1> HIDE DEF j
<1>21. HeadOnly'
  BY <1>3, <1>5, <1>10 DEF HeadOnly
<1>22. EnqueueAlone'
  BY <1>5, <1>7, <1>8, <1>9 DEF EnqueueAlone
<1>23. QueuedAlone'
  BY <1>5, <1>6, <1>9 DEF QueuedAlone
<1>24. HeldAlone'
  BY <1>5 DEF HeldAlone
<1>25. FinishOwned'
  <2> SUFFICES ASSUME NEW r \in Procs, NEW s \in Steps(r)', s.op = "finish"
               PROVE  /\ jobs'[s.job].status # "free"
                      /\ \/ cur'[r] = s.job /\ phase'[r] = IF s.retry THEN "exit" ELSE "callback"
                         \/ s.retry /\ s.job \in unsure'
                         \/ /\ s.retry /\ Unheld(s.job)' /\ s.job \notin died'
                            /\ jobs'[s.job].status # "running"
    BY DEF FinishOwned
  <2>1. s \in Steps(r)
    BY <1>7
  <2>2. s.job \in Jobs /\ s.job # j
    BY <1>6, <2>1, FinishJobOf
  <2>3. Unheld(s.job) => Unheld(s.job)'
    BY <1>5, <1>8, <2>2 DEF Unheld
  <2> QED
    BY <1>5, <2>1, <2>2, <2>3 DEF FinishOwned
<1>26. DropWaits'
  BY <1>5, <1>7, <1>9 DEF DropWaits
<1>27. Past'
  BY <1>5 DEF Past
<1> QED
  BY <1>21, <1>22, <1>23, <1>24, <1>25, <1>26, <1>27

\* An enqueue that raised: its process ends the job, which Redis may have taken.
LEMMA EnqueueFailsCustody ==
    ASSUME TypeOK, Custody, NEW p \in Procs, EnqueueFails(p)
    PROVE  Custody'
<1> USE DEF Custody
<1>1. todo[p] # <<>> /\ Head(todo[p]) \in EnqueueStep /\ Tail(todo[p]) \in Seq(Step)
  BY HeadKind, HeadType DEF EnqueueFails, At
<1>2. PICK j \in Jobs : Head(todo[p]) = [op |-> "enqueue", job |-> j]
  BY <1>1 DEF EnqueueStep
<1> DEFINE f == Finish(j, "error", TRUE)
<1>3. f \in Step /\ f.op = "finish" /\ f.job = j /\ f.retry
  BY <1>2, FinishType DEF Finish, Ended
<1>a. todo' = [todo EXCEPT ![p] = <<f>> \o Tail(todo[p])]
  <2>1. Head(todo[p]).job = j
    BY <1>2
  <2>2. Becomes(p, <<f>>)
    BY <2>1 DEF EnqueueFails
  <2> QED
    BY <2>2 DEF Becomes
<1>b. Elems(Tail(todo[p])) = Later(p) /\ Steps(p) = {Head(todo[p])} \cup Later(p)
  BY <1>1, StepsSplit
<1>4. /\ Steps(p)' = {f} \cup Later(p) /\ Later(p)' = Later(p)
      /\ \A r \in Procs \ {p} : Steps(r)' = Steps(r) /\ Later(r)' = Later(r)
      /\ \A r \in Procs \ {p} : todo'[r] = todo[r]
  BY <1>1, <1>3, <1>a, <1>b, GivenFirst
<1>5. Enqueuing(p, j)
  BY <1>2, <1>b DEF Enqueuing
<1>6. /\ UNCHANGED <<jobs, phase, cur, died>>
      /\ \/ UNCHANGED <<rq, unsure>>
         \/ rq' = rq \cup {j} /\ unsure' = unsure \cup {j}
  BY <1>2 DEF EnqueueFails, db, mem, hist
<1> HIDE DEF f
<1>7. /\ Waiting(j) /\ j \notin rq \cup unsure \cup died
      /\ \A q \in Procs : cur[q] # j /\ (q # p => ~Enqueuing(q, j))
      /\ \A q \in Procs : \A s \in Steps(q) : s.op = "finish" => s.job # j
  BY <1>2, <1>5 DEF EnqueueAlone
<1>8. \A r \in Procs : \A s \in Steps(r)' : s \in Steps(r) \/ (r = p /\ s = f)
  BY <1>4, <1>b
<1>9. \A r \in Procs, k \in Jobs : Enqueuing(r, k)' => Enqueuing(r, k) /\ k # j
  <2> SUFFICES ASSUME NEW r \in Procs, NEW k \in Jobs, Enqueuing(r, k)'
               PROVE  Enqueuing(r, k) /\ k # j
    OBVIOUS
  <2>1. Enqueuing(r, k)
    BY <1>3, <1>8 DEF Enqueuing
  <2>2. CASE r = p
    BY <1>3, <1>4, <2>2 DEF Enqueuing, HeadOnly
  <2>3. CASE r # p
    BY <1>7, <2>1, <2>3
  <2> QED
    BY <2>1, <2>2, <2>3
<1>10. \A k : Waiting(k)' <=> Waiting(k)
  BY <1>6 DEF Waiting
<1>11. phase[p] # "init"
  BY <1>1 DEF HeadOnly
<1>21. HeadOnly'
  BY <1>4, <1>6, <1>11 DEF HeadOnly
<1>22. EnqueueAlone'
  <2> SUFFICES ASSUME NEW r \in Procs, NEW k \in Jobs, Enqueuing(r, k)'
               PROVE  /\ Waiting(k)' /\ k \notin rq' \cup unsure' \cup died'
                      /\ \A t \in Procs : cur'[t] # k /\ (t # r => ~Enqueuing(t, k)')
                      /\ \A t \in Procs : \A s \in Steps(t)' : s.op = "finish" => s.job # k
    BY DEF EnqueueAlone
  <2>1. Enqueuing(r, k) /\ k # j
    BY <1>9
  <2> QED
    BY <1>3, <1>6, <1>8, <1>9, <1>10, <2>1 DEF EnqueueAlone
<1>23. QueuedAlone'
  BY <1>6, <1>7, <1>10 DEF QueuedAlone
<1>24. HeldAlone'
  BY <1>6 DEF HeldAlone
<1>25. FinishOwned'
  <2> SUFFICES ASSUME NEW r \in Procs, NEW s \in Steps(r)', s.op = "finish"
               PROVE  /\ jobs'[s.job].status # "free"
                      /\ \/ cur'[r] = s.job /\ phase'[r] = IF s.retry THEN "exit" ELSE "callback"
                         \/ s.retry /\ s.job \in unsure'
                         \/ /\ s.retry /\ Unheld(s.job)' /\ s.job \notin died'
                            /\ jobs'[s.job].status # "running"
    BY DEF FinishOwned
  <2>1. CASE s \in Steps(r)
    <3>1. s.job \in Jobs /\ s.job # j
      BY <1>7, <2>1, FinishJobOf
    <3>2. Unheld(s.job) => Unheld(s.job)'
      BY <1>6, <1>9, <3>1 DEF Unheld
    <3> QED
      BY <1>6, <2>1, <3>1, <3>2 DEF FinishOwned
  <2>2. CASE s = f /\ r = p
    <3>1. CASE UNCHANGED <<rq, unsure>>
      <4>1. j \notin rq' /\ \A q \in Procs : cur'[q] # j /\ ~Enqueuing(q, j)'
        BY <1>2, <1>6, <1>7, <1>9, <3>1
      <4>2. Unheld(j)'
        BY <4>1 DEF Unheld
      <4> QED
        BY <1>3, <1>6, <1>7, <2>2, <4>2 DEF Waiting
    <3>2. CASE j \in unsure'
      BY <1>3, <1>6, <1>7, <2>2, <3>2 DEF Waiting
    <3> QED
      BY <1>6, <3>1, <3>2
  <2> QED
    BY <1>8, <2>1, <2>2
<1>26. DropWaits'
  BY <1>3, <1>6, <1>8, <1>10 DEF DropWaits
<1>27. Past'
  BY <1>6, <1>7 DEF Past, Waiting
<1> QED
  BY <1>21, <1>22, <1>23, <1>24, <1>25, <1>26, <1>27

\* What a worker that moves a job does to the steps.
Finishing(p, j, r) ==
    \E s \in Ended, t \in Seq(Step) :
        /\ todo' = [todo EXCEPT ![p] = <<Finish(j, s, r)>> \o t]
        /\ \A x \in Elems(t) : Trailing(x)

\* The steps of a worker that ends a job first.
LEMMA FinishingSteps ==
    ASSUME TypeOK, NEW p \in Procs, NEW j \in Jobs, NEW r \in BOOLEAN, Finishing(p, j, r)
    PROVE  /\ \A x \in Steps(p)' : \/ Trailing(x)
                                   \/ x.op = "finish" /\ x.job = j /\ x.retry = r
           /\ \A x \in Later(p)' : Trailing(x)
           /\ \A q \in Procs \ {p} : Steps(q)' = Steps(q) /\ Later(q)' = Later(q)
           /\ \A q \in Procs \ {p} : todo'[q] = todo[q]
<1>1. PICK s \in Ended, t \in Seq(Step) :
        /\ todo' = [todo EXCEPT ![p] = <<Finish(j, s, r)>> \o t]
        /\ \A x \in Elems(t) : Trailing(x)
  BY DEF Finishing
<1> DEFINE f == Finish(j, s, r)
<1>2. f \in Step /\ f.op = "finish" /\ f.job = j /\ f.retry = r
  BY FinishType DEF Finish
<1>3. todo' = [todo EXCEPT ![p] = <<f>> \o t]
  BY <1>1
<1> HIDE DEF f
<1>4. /\ Steps(p)' = {f} \cup Elems(t) /\ Later(p)' = Elems(t)
      /\ \A q \in Procs \ {p} : Steps(q)' = Steps(q) /\ Later(q)' = Later(q)
      /\ \A q \in Procs \ {p} : todo'[q] = todo[q]
  BY <1>2, <1>3, GivenFirst
<1> QED
  BY <1>1, <1>2, <1>4

\* No other process acts on anything when a worker does.
Apart(p) == \A q \in Procs \ {p} : /\ Steps(q)' = Steps(q) /\ Later(q)' = Later(q)
                                   /\ todo'[q] = todo[q]
                                   /\ cur'[q] = cur[q] /\ phase'[q] = phase[q]

\* A worker that takes a job from RQ, to execute or to refuse it.
LEMMA TakeCustody ==
    ASSUME TypeOK, Custody, NEW p \in Workers, NEW j \in Jobs, Take(p, j),
           jobs[j].status = "queued",
           cur' = [cur EXCEPT ![p] = j], UNCHANGED <<died, unsure>>,
           \A k \in Jobs \ {j} : jobs'[k] = jobs[k],
           jobs'[j].status # "free", jobs'[j].cancel = jobs[j].cancel,
           \/ ClaimJob(p, j)
           \/ UNCHANGED jobs /\ phase' = [phase EXCEPT ![p] = "exit"] /\ Finishing(p, j, TRUE)
    PROVE  Custody'
<1> USE DEF Custody
<1>0. p \in Procs /\ p \notin Callers
  BY ConstantsAssumption DEF Procs, Workers, ConstantsAssumption
<1>1. /\ phase[p] = "off" /\ todo[p] = <<>> /\ j \in rq /\ rq' = rq \ {j}
      /\ Steps(p) = {} /\ Later(p) = {}
  BY <1>0, NoSteps DEF Take
<1>2. cur[p] \notin Jobs
  BY <1>0, <1>1 DEF TypeOK, ProcType
<1>3. \/ /\ ~jobs[j].cancel /\ phase' = [phase EXCEPT ![p] = "init"] /\ UNCHANGED todo
      \/ UNCHANGED jobs /\ phase' = [phase EXCEPT ![p] = "exit"] /\ Finishing(p, j, TRUE)
  BY DEF ClaimJob
<1>4. /\ \A x \in Steps(p)' : \/ Trailing(x) /\ phase'[p] = "exit"
                              \/ /\ x.op = "finish" /\ x.job = j /\ x.retry = TRUE
                                 /\ phase'[p] = "exit"
      /\ \A x \in Later(p)' : Trailing(x)
      /\ \A q \in Procs \ {p} : Steps(q)' = Steps(q) /\ Later(q)' = Later(q)
      /\ \A q \in Procs \ {p} : todo'[q] = todo[q]
      /\ phase'[p] = "init" => todo'[p] = <<>>
  <2>1. CASE UNCHANGED todo /\ phase' = [phase EXCEPT ![p] = "init"]
    <3>1. \A q \in Procs : Steps(q)' = Steps(q) /\ Later(q)' = Later(q)
      BY <2>1 DEF Steps, Later
    <3> QED
      BY <1>0, <1>1, <2>1, <3>1
  <2>2. CASE phase' = [phase EXCEPT ![p] = "exit"] /\ Finishing(p, j, TRUE)
    <3>1. phase'[p] = "exit"
      BY <1>0, <2>2 DEF TypeOK, ProcType
    <3> QED
      BY <1>0, <2>2, <3>1, FinishingSteps
  <2> QED
    BY <1>3, <2>1, <2>2
<1>5. /\ cur'[p] = j /\ phase'[p] \in {"init", "exit"}
      /\ \A q \in Procs \ {p} : cur'[q] = cur[q] /\ phase'[q] = phase[q]
  BY <1>0, <1>3 DEF TypeOK, ProcType
<1>6. /\ Waiting(j) /\ j \notin died /\ \A q \in Procs : cur[q] # j /\ ~Enqueuing(q, j)
      /\ j \notin unsure =>
            \A q \in Procs : \A s \in Steps(q) : s.op = "finish" => s.job # j
  <2>1. Waiting(j) /\ j \notin died /\ \A q \in Procs : cur[q] # j
    BY <1>1 DEF QueuedAlone
  <2>2. \A q \in Procs : ~Enqueuing(q, j)
    BY <1>1 DEF EnqueueAlone
  <2>3. ~Unheld(j)
    BY <1>1 DEF Unheld
  <2> QED
    BY <2>1, <2>2, <2>3 DEF FinishOwned
<1>7. \A q \in Procs, k \in Jobs : Enqueuing(q, k)' => Enqueuing(q, k) /\ q # p /\ k # j
  <2> SUFFICES ASSUME NEW q \in Procs, NEW k \in Jobs, Enqueuing(q, k)'
               PROVE  Enqueuing(q, k) /\ q # p /\ k # j
    OBVIOUS
  <2>1. q # p
    BY <1>4 DEF Enqueuing, Trailing
  <2>2. Enqueuing(q, k)
    BY <1>4, <2>1 DEF Enqueuing
  <2> QED
    BY <1>6, <2>1, <2>2
<1>8. \A k \in Jobs : k # j => (Waiting(k)' <=> Waiting(k)) /\ jobs'[k].cancel = jobs[k].cancel
  BY DEF Waiting
<1>9. rq \subseteq Jobs /\ died \subseteq Jobs /\ unsure \subseteq Jobs
  BY DEF TypeOK, HistType
<1>21. HeadOnly'
  <2>1. \A q \in Procs : \A s \in Later(q)' : s.op \notin {"enqueue", "finish"}
    BY <1>4 DEF HeadOnly, Trailing
  <2>2. \A q \in Procs : phase'[q] = "init" => todo'[q] = <<>>
    BY <1>4, <1>5 DEF HeadOnly
  <2>3. \A q \in Procs : q \in Callers => phase'[q] = "off"
    BY <1>0, <1>5 DEF HeadOnly
  <2> QED
    BY <2>1, <2>2, <2>3 DEF HeadOnly
<1>22. EnqueueAlone'
  <2> SUFFICES ASSUME NEW r \in Procs, NEW k \in Jobs, Enqueuing(r, k)'
               PROVE  /\ Waiting(k)' /\ k \notin rq' \cup unsure' \cup died'
                      /\ \A t \in Procs : cur'[t] # k /\ (t # r => ~Enqueuing(t, k)')
                      /\ \A t \in Procs : \A s \in Steps(t)' : s.op = "finish" => s.job # k
    BY DEF EnqueueAlone
  <2>1. Enqueuing(r, k) /\ k # j
    BY <1>7
  <2>2. Waiting(k)' /\ k \notin rq' \cup unsure' \cup died'
    BY <1>1, <1>8, <2>1 DEF EnqueueAlone
  <2>3. \A t \in Procs : cur'[t] # k /\ (t # r => ~Enqueuing(t, k)')
    BY <1>5, <1>7, <2>1 DEF EnqueueAlone
  <2>4. \A t \in Procs : \A s \in Steps(t)' : s.op = "finish" => s.job # k
    BY <1>4, <2>1 DEF EnqueueAlone, Trailing
  <2> QED
    BY <2>2, <2>3, <2>4
<1>23. QueuedAlone'
  BY <1>1, <1>5, <1>8, <1>9 DEF QueuedAlone
<1>24. HeldAlone'
  BY <1>5, <1>6 DEF HeldAlone
<1>25. FinishOwned'
  <2> SUFFICES ASSUME NEW r \in Procs, NEW s \in Steps(r)', s.op = "finish"
               PROVE  /\ jobs'[s.job].status # "free"
                      /\ \/ cur'[r] = s.job /\ phase'[r] = IF s.retry THEN "exit" ELSE "callback"
                         \/ s.retry /\ s.job \in unsure'
                         \/ /\ s.retry /\ Unheld(s.job)' /\ s.job \notin died'
                            /\ jobs'[s.job].status # "running"
    BY DEF FinishOwned
  <2>1. CASE r = p
    BY <1>4, <1>5, <2>1 DEF Trailing
  <2>2. CASE r # p
    <3>1. s \in Steps(r) /\ s.job \in Jobs
      BY <1>4, <2>2, FinishJobOf
    <3>2. CASE s.job = j
      <4>1. s.job \in unsure /\ s.retry
        <5>1. j \in unsure /\ cur[r] # j /\ ~Unheld(j)
          BY <1>1, <1>6, <3>1, <3>2 DEF Unheld
        <5> QED
          BY <3>1, <3>2, <5>1 DEF FinishOwned
      <4> QED
        BY <3>2, <4>1
    <3>3. CASE s.job # j
      <4>1. Unheld(s.job) => Unheld(s.job)'
        BY <1>1, <1>5, <1>7, <3>1, <3>3 DEF Unheld
      <4> QED
        BY <1>5, <2>2, <3>1, <3>3, <4>1 DEF FinishOwned
    <3> QED
      BY <3>2, <3>3
  <2> QED
    BY <2>1, <2>2
<1>26. DropWaits'
  <2> SUFFICES ASSUME NEW r \in Procs, NEW s \in Steps(r)', s.op = "signal", NEW k \in s.drop
               PROVE  Waiting(k)' /\ jobs'[k].cancel
    BY DEF DropWaits
  <2>1. r # p /\ s \in Steps(r)
    BY <1>4 DEF Trailing
  <2>2. k \in Jobs /\ Waiting(k) /\ jobs[k].cancel
    BY <2>1, FinishJobOf DEF DropWaits
  <2>3. CASE k # j
    BY <1>8, <2>2, <2>3
  <2>4. CASE k = j
    <3>1. UNCHANGED jobs
      BY <1>3, <2>2, <2>4
    <3> QED
      BY <2>2, <3>1 DEF Waiting
  <2> QED
    BY <2>3, <2>4
<1>27. Past'
  BY <1>6, <1>9 DEF Past
<1> QED
  BY <1>21, <1>22, <1>23, <1>24, <1>25, <1>26, <1>27

\* A worker that lets go of its job, or of what it was doing with it: it returns,
\* dies or is done.
LEMMA HolderCustody ==
    ASSUME TypeOK, Custody, NEW p \in Procs, Apart(p),
           UNCHANGED <<jobs, rq, unsure>>, died \subseteq died',
           \A k \in died' : k \in died \/ (k = cur[p] /\ jobs[k].status = "running" /\ cur[p] \in Jobs),
           \A x \in Steps(p)' :
             \/ Trailing(x)
             \/ /\ x.op = "finish" /\ x.job = cur[p] /\ cur'[p] = cur[p] /\ cur[p] \in Jobs
                /\ phase'[p] = IF x.retry THEN "exit" ELSE "callback",
           \A x \in Later(p)' : Trailing(x),
           phase'[p] # "init", p \in Callers => phase'[p] = "off",
           cur'[p] \in {cur[p], NoJob},
           cur'[p] \in Jobs => cur'[p] \notin died' \/ phase'[p] = "callback"
    PROVE  Custody'
<1> USE DEF Custody, Apart
<1>1. \A q \in Procs, k \in Jobs : Enqueuing(q, k)' => Enqueuing(q, k) /\ q # p
  BY DEF Enqueuing, Trailing
<1>2. \A k : Waiting(k)' <=> Waiting(k)
  BY DEF Waiting
<1>3. rq \subseteq Jobs /\ died \subseteq Jobs /\ unsure \subseteq Jobs /\ NoJob \notin Jobs
  BY ConstantsAssumption DEF TypeOK, HistType, ConstantsAssumption
<1>4. \A q \in Procs, k \in Jobs : cur'[q] = k => cur[q] = k
  BY <1>3
<1>21. HeadOnly'
  <2>1. \A q \in Procs : \A s \in Later(q)' : s.op \notin {"enqueue", "finish"}
    BY DEF HeadOnly, Trailing
  <2>2. \A q \in Procs : phase'[q] = "init" => todo'[q] = <<>>
    BY DEF HeadOnly
  <2>3. \A q \in Procs : q \in Callers => phase'[q] = "off"
    BY DEF HeadOnly
  <2> QED
    BY <2>1, <2>2, <2>3 DEF HeadOnly
<1>22. EnqueueAlone'
  <2> SUFFICES ASSUME NEW r \in Procs, NEW k \in Jobs, Enqueuing(r, k)'
               PROVE  /\ Waiting(k)' /\ k \notin rq' \cup unsure' \cup died'
                      /\ \A t \in Procs : cur'[t] # k /\ (t # r => ~Enqueuing(t, k)')
                      /\ \A t \in Procs : \A s \in Steps(t)' : s.op = "finish" => s.job # k
    BY DEF EnqueueAlone
  <2>1. Enqueuing(r, k)
    BY <1>1
  <2>2. Waiting(k)' /\ k \notin rq' \cup unsure' \cup died' /\ cur[p] # k
    BY <1>2, <2>1 DEF EnqueueAlone
  <2>3. \A t \in Procs : cur'[t] # k /\ (t # r => ~Enqueuing(t, k)')
    BY <1>1, <1>4, <2>1 DEF EnqueueAlone
  <2>4. \A t \in Procs : \A s \in Steps(t)' : s.op = "finish" => s.job # k
    BY <2>1, <2>2 DEF EnqueueAlone, Trailing
  <2> QED
    BY <2>2, <2>3, <2>4
<1>23. QueuedAlone'
  BY <1>2, <1>3, <1>4 DEF QueuedAlone
<1>24. HeldAlone'
  <2> SUFFICES ASSUME NEW r \in Procs, NEW k \in Jobs, cur'[r] = k
               PROVE  /\ jobs'[k].status # "free"
                      /\ k \in died' => phase'[r] = "callback"
                      /\ \A q \in Procs : cur'[q] = k => q = r
    BY DEF HeldAlone
  <2>1. cur[r] = k /\ jobs[k].status # "free" /\ \A q \in Procs : cur'[q] = k => q = r
    BY <1>4 DEF HeldAlone
  <2>2. ASSUME k \in died' PROVE phase'[r] = "callback"
    <3>1. CASE r = p
      BY <2>2, <3>1
    <3>2. CASE r # p
      <4>1. k \in died
        BY <2>1, <2>2, <3>2 DEF HeldAlone
      <4> QED
        BY <2>1, <3>2, <4>1 DEF HeldAlone
    <3> QED
      BY <3>1, <3>2
  <2> QED
    BY <2>1, <2>2
<1>25. FinishOwned'
  <2> SUFFICES ASSUME NEW r \in Procs, NEW s \in Steps(r)', s.op = "finish"
               PROVE  /\ jobs'[s.job].status # "free"
                      /\ \/ cur'[r] = s.job /\ phase'[r] = IF s.retry THEN "exit" ELSE "callback"
                         \/ s.retry /\ s.job \in unsure'
                         \/ /\ s.retry /\ Unheld(s.job)' /\ s.job \notin died'
                            /\ jobs'[s.job].status # "running"
    BY DEF FinishOwned
  <2>1. CASE r = p
    <3>1. /\ s.job = cur[p] /\ cur'[p] = cur[p] /\ cur[p] \in Jobs
          /\ phase'[p] = IF s.retry THEN "exit" ELSE "callback"
      BY <2>1 DEF Trailing
    <3> QED
      BY <2>1, <3>1 DEF HeldAlone
  <2>2. CASE r # p
    <3>1. s \in Steps(r) /\ s.job \in Jobs
      BY <2>2, FinishJobOf
    <3>2. Unheld(s.job) => Unheld(s.job)' /\ (s.job \in died' => s.job \in died)
      BY <1>1, <1>4, <3>1 DEF Unheld
    <3> QED
      BY <2>2, <3>1, <3>2 DEF FinishOwned
  <2> QED
    BY <2>1, <2>2
<1>26. DropWaits'
  <2> SUFFICES ASSUME NEW r \in Procs, NEW s \in Steps(r)', s.op = "signal", NEW k \in s.drop
               PROVE  Waiting(k)' /\ jobs'[k].cancel
    BY DEF DropWaits
  <2>1. r # p /\ s \in Steps(r)
    BY DEF Trailing
  <2> QED
    BY <1>2, <2>1 DEF DropWaits
<1>27. Past'
  BY DEF Past
<1> QED
  BY <1>21, <1>22, <1>23, <1>24, <1>25, <1>26, <1>27

\* A worker that leaves execute_job by its finally block ends its job first.
LEMMA LeavingFirst ==
    ASSUME TypeOK, NEW p \in Procs, NEW j \in Jobs, NEW s \in Ended, NEW raised \in BOOLEAN,
           Leaving(p, ExitSteps(j, s, raised))
    PROVE  Finishing(p, j, TRUE)
<1>1. PICK t \in Seq(Step) : /\ ExitSteps(j, s, raised) = <<Finish(j, s, TRUE)>> \o t
                             /\ \A x \in Elems(t) : Trailing(x)
  BY ExitFirst
<1> QED
  BY <1>1 DEF Leaving, Finishing

\* A worker that returns from execute_job, or whose horse is gone, ends its job first.
LEMMA ReturnFinishing ==
    ASSUME TypeOK, NEW p \in Procs, AgentNotReady(p) \/ AgentReturns(p) \/ AgentRaises(p)
    PROVE  /\ cur[p] \in Jobs /\ phase[p] \in {"init", "run"}
           /\ \E s \in Ended, raised \in BOOLEAN : Leaving(p, ExitSteps(cur[p], s, raised))
           /\ Finishing(p, cur[p], TRUE)
<1>1. cur[p] \in Jobs /\ phase[p] \in {"init", "run"}
  BY DEF AgentNotReady, AgentReturns, AgentRaises, Running, TypeOK, ProcType
<1>2. PICK s \in Ended, raised \in BOOLEAN : Leaving(p, ExitSteps(cur[p], s, raised))
  <2>1. {"idle", "error", "cancelled", "done"} \subseteq Ended
    BY DEF Ended
  <2>2. CASE AgentNotReady(p)
    BY <2>1, <2>2 DEF AgentNotReady
  <2>3. CASE AgentReturns(p)
    <3>1. PICK s \in {"cancelled", "error", "done"}, raised \in BOOLEAN :
            Leaving(p, ExitSteps(cur[p], s, raised))
      BY <2>3 DEF AgentReturns
    <3> QED
      BY <2>1, <3>1
  <2>4. CASE AgentRaises(p)
    <3>1. PICK s \in {"cancelled", "error"}, raised \in BOOLEAN :
            Leaving(p, ExitSteps(cur[p], s, raised))
      BY <2>4 DEF AgentRaises
    <3> QED
      BY <2>1, <3>1
  <2> QED
    BY <2>2, <2>3, <2>4
<1> QED
  BY <1>1, <1>2, LeavingFirst

\* The callback of a lost or stopped horse ends its job first, not to be retried.
LEMMA HorseFinishing ==
    ASSUME TypeOK, NEW p \in Procs, HorseDies(p) \/ StopDelivered(p)
    PROVE  /\ cur[p] \in Jobs /\ Finishing(p, cur[p], FALSE)
           /\ \E s \in {"error", "cancelled"} : HorseGone(p, s)
<1>1. PICK s \in {"error", "cancelled"} : HorseGone(p, s)
  BY DEF HorseDies, StopDelivered
<1>2. cur[p] \in Jobs
  BY <1>1 DEF HorseGone, TypeOK, ProcType
<1>3. s \in Ended
  BY DEF Ended
<1>4. /\ CancelChildrenOf(cur[p]) \in Seq(Step)
      /\ \A x \in Elems(CancelChildrenOf(cur[p])) : Trailing(x)
  BY <1>2, ChildrenOfElems
<1>5. todo' = [todo EXCEPT ![p] = <<Finish(cur[p], s, FALSE)>> \o CancelChildrenOf(cur[p])]
  BY <1>1 DEF HorseGone
<1> QED
  BY <1>1, <1>2, <1>3, <1>4, <1>5 DEF Finishing

\* A worker returns from execute_job.
LEMMA ReturnCustody ==
    ASSUME TypeOK, Custody, NEW p \in Workers,
           AgentNotReady(p) \/ AgentReturns(p) \/ AgentRaises(p)
    PROVE  Custody'
<1>0. p \in Procs /\ p \notin Callers
  BY ConstantsAssumption DEF Procs, Workers, ConstantsAssumption
<1>1. cur[p] \in Jobs /\ phase[p] \in {"init", "run"}
  BY <1>0, ReturnFinishing
<1>2. PICK s \in Ended, raised \in BOOLEAN : Leaving(p, ExitSteps(cur[p], s, raised))
  BY <1>0, ReturnFinishing
<1>3. Finishing(p, cur[p], TRUE)
  BY <1>0, ReturnFinishing
<1>4. UNCHANGED <<jobs, rq, cur, died, unsure>> /\ phase' = [phase EXCEPT ![p] = "exit"]
  BY <1>2 DEF AgentNotReady, AgentReturns, AgentRaises, Leaving, db, hist
<1>5. phase'[p] = "exit" /\ \A q \in Procs \ {p} : phase'[q] = phase[q]
  BY <1>0, <1>4 DEF TypeOK, ProcType
<1>6. cur[p] \notin died
  BY <1>0, <1>1 DEF Custody, HeldAlone
<1>7. /\ \A x \in Steps(p)' : \/ Trailing(x)
                              \/ x.op = "finish" /\ x.job = cur[p] /\ x.retry = TRUE
      /\ \A x \in Later(p)' : Trailing(x)
      /\ \A q \in Procs \ {p} : Steps(q)' = Steps(q) /\ Later(q)' = Later(q)
      /\ \A q \in Procs \ {p} : todo'[q] = todo[q]
  BY <1>0, <1>1, <1>3, FinishingSteps
<1>8. Apart(p)
  BY <1>4, <1>5, <1>7 DEF Apart
<1> QED
  BY <1>0, <1>1, <1>4, <1>5, <1>6, <1>7, <1>8, HolderCustody

\* The horse of a worker is gone.
LEMMA HorseCustody ==
    ASSUME TypeOK, Custody, NEW p \in Workers, HorseDies(p) \/ StopDelivered(p)
    PROVE  Custody'
<1>0. p \in Procs /\ p \notin Callers
  BY ConstantsAssumption DEF Procs, Workers, ConstantsAssumption
<1>1. PICK s \in {"error", "cancelled"} : HorseGone(p, s)
  BY <1>0, HorseFinishing
<1>2. cur[p] \in Jobs
  BY <1>0, HorseFinishing
<1>3. Finishing(p, cur[p], FALSE)
  BY <1>0, HorseFinishing
<1>4. UNCHANGED <<jobs, rq, cur, unsure>> /\ phase' = [phase EXCEPT ![p] = "callback"]
  BY <1>1 DEF HorseGone, db
<1>5. phase'[p] = "callback" /\ \A q \in Procs \ {p} : phase'[q] = phase[q]
  BY <1>0, <1>4 DEF TypeOK, ProcType
<1>6. /\ died \subseteq died'
      /\ \A k \in died' : k \in died \/ (k = cur[p] /\ jobs[k].status = "running" /\ cur[p] \in Jobs)
  BY DEF HorseDies, StopDelivered, DiesRunning
<1>7. /\ \A x \in Steps(p)' : \/ Trailing(x)
                              \/ x.op = "finish" /\ x.job = cur[p] /\ x.retry = FALSE
      /\ \A x \in Later(p)' : Trailing(x)
      /\ \A q \in Procs \ {p} : Steps(q)' = Steps(q) /\ Later(q)' = Later(q)
      /\ \A q \in Procs \ {p} : todo'[q] = todo[q]
  BY <1>0, <1>2, <1>3, FinishingSteps
<1>8. Apart(p)
  BY <1>4, <1>5, <1>7 DEF Apart
<1> QED
  BY <1>0, <1>2, <1>4, <1>5, <1>6, <1>7, <1>8, HolderCustody

\* A worker is done with its job.
LEMMA LeaveCustody ==
    ASSUME TypeOK, Custody, NEW p \in Workers, LeaveJob(p)
    PROVE  Custody'
<1>0. p \in Procs /\ p \notin Callers
  BY ConstantsAssumption DEF Procs, Workers, ConstantsAssumption
<1>1. \A q \in Procs : Steps(q)' = Steps(q) /\ Later(q)' = Later(q) /\ todo'[q] = todo[q]
  BY DEF LeaveJob, Steps, Later
<1>2. Steps(p)' = {} /\ Later(p)' = {}
  BY <1>0, <1>1, NoSteps DEF LeaveJob
<1>3. /\ phase'[p] = "off" /\ cur'[p] = NoJob
      /\ \A q \in Procs \ {p} : phase'[q] = phase[q] /\ cur'[q] = cur[q]
  BY <1>0 DEF LeaveJob, TypeOK, ProcType
<1>4. UNCHANGED <<jobs, rq, unsure, died>> /\ NoJob \notin Jobs
  BY ConstantsAssumption DEF LeaveJob, db, hist, ConstantsAssumption
<1>5. Apart(p)
  BY <1>1, <1>3 DEF Apart
<1> QED
  BY <1>0, <1>2, <1>3, <1>4, <1>5, HolderCustody

\* A process is lost.
LEMMA DeathCustody ==
    ASSUME TypeOK, Custody, NEW p \in Procs, ProcessDies(p)
    PROVE  Custody'
<1>1. todo'[p] = <<>> /\ \A q \in Procs \ {p} : todo'[q] = todo[q]
  BY DEF ProcessDies, TypeOK, TodoType
<1>2. Steps(p)' = {} /\ Later(p)' = {}
  BY <1>1, ElemsNone DEF Steps, Later
<1>3. /\ phase'[p] = "off" /\ cur'[p] = NoJob
      /\ \A q \in Procs \ {p} : phase'[q] = phase[q] /\ cur'[q] = cur[q]
  BY DEF ProcessDies, TypeOK, ProcType
<1>4. UNCHANGED <<jobs, rq, unsure>> /\ NoJob \notin Jobs
  BY ConstantsAssumption DEF ProcessDies, db, ConstantsAssumption
<1>5. Apart(p)
  BY <1>1, <1>3 DEF Apart, Steps, Later
<1>6. /\ died \subseteq died'
      /\ \A k \in died' : k \in died \/ (k = cur[p] /\ jobs[k].status = "running" /\ cur[p] \in Jobs)
  BY DEF ProcessDies, DiesRunning
<1> QED
  BY <1>2, <1>3, <1>4, <1>5, <1>6, HolderCustody

\* A worker takes a job from RQ.
LEMMA RefuseFirst ==
    ASSUME TypeOK, NEW p \in Workers, NEW j \in Jobs, RefuseJob(p, j)
    PROVE  Finishing(p, j, TRUE)
<1>1. /\ CancelChildrenOf(j) \in Seq(Step)
      /\ \A x \in Elems(CancelChildrenOf(j)) : Trailing(x)
  BY ChildrenOfElems
<1>2. CASE Leaving(p, <<Finish(j, "cancelled", TRUE)>>)
  <2>1. <<Finish(j, "cancelled", TRUE)>> = <<Finish(j, "cancelled", TRUE)>> \o <<>>
    OBVIOUS
  <2>2. todo' = [todo EXCEPT ![p] = <<Finish(j, "cancelled", TRUE)>> \o <<>>]
    BY <1>2, <2>1 DEF Leaving
  <2>3. "cancelled" \in Ended /\ <<>> \in Seq(Step) /\ \A x \in Elems(<<>>) : Trailing(x)
    BY ElemsNone, EmptySeq DEF Ended
  <2> QED
    BY <2>2, <2>3 DEF Finishing
<1>3. CASE Leaving(p, <<Finish(j, "error", TRUE)>> \o CancelChildrenOf(j))
  <2>1. "error" \in Ended
    BY DEF Ended
  <2> QED
    BY <1>1, <1>3, <2>1 DEF Leaving, Finishing
<1> QED
  BY <1>2, <1>3 DEF RefuseJob

\* Taking a job from RQ, to execute it or to refuse it, keeps the custody.
LEMMA TakenCustody ==
    ASSUME TypeOK, Custody, NEW p \in Workers, NEW j \in Jobs,
           RefuseJob(p, j) \/ ClaimJob(p, j)
    PROVE  Custody'
<1>1. CASE RefuseJob(p, j)
  <2>1. /\ Take(p, j) /\ jobs[j].status = "queued" /\ cur' = [cur EXCEPT ![p] = j]
        /\ UNCHANGED <<died, unsure, jobs>> /\ phase' = [phase EXCEPT ![p] = "exit"]
    BY <1>1 DEF RefuseJob, Claimable, Leaving, db, hist
  <2> QED
    BY <1>1, <2>1, RefuseFirst, TakeCustody
<1>2. CASE ClaimJob(p, j)
  <2>1. /\ Take(p, j) /\ jobs[j].status = "queued" /\ cur' = [cur EXCEPT ![p] = j]
        /\ UNCHANGED <<died, unsure>>
    BY <1>2 DEF ClaimJob, Claimable, hist
  <2>2. /\ \A k \in Jobs \ {j} : jobs'[k] = jobs[k]
        /\ jobs'[j].status # "free" /\ jobs'[j].cancel = jobs[j].cancel
    BY <1>2 DEF ClaimJob, TypeOK, DbType, JobsType, JobRow
  <2> QED
    BY <1>2, <2>1, <2>2, TakeCustody
<1> QED
  BY <1>1, <1>2

\* Every step keeps the custody of the jobs.
LEMMA CustodyStep ==
    ASSUME TypeOK, TypeOK', KinSteps, Custody, [Next]_vars
    PROVE  Custody'
<1>0. HeadOnly /\ HeldAlone /\ DropWaits
  BY DEF Custody
<1>1. ASSUME NEW p \in Workers, WorkerMoving(p) PROVE Custody'
  BY <1>1, ReturnCustody, HorseCustody, LeaveCustody, TakenCustody DEF WorkerMoving
<1>2. ASSUME NEW p \in Procs, Reserving(p) \/ Enqueued(p) \/ EnqueueFails(p) \/ ProcessDies(p)
      PROVE  Custody'
  BY <1>2, ReservingCustody, EnqueuedCustody, EnqueueFailsCustody, DeathCustody
<1> QED
  BY <1>0, <1>1, <1>2, NextStill, StillCustody

\* At the start nobody holds anything.
LEMMA InitCustody == Init => Custody
<1> SUFFICES ASSUME Init PROVE Custody
  OBVIOUS
<1>1. \A p \in Procs : todo[p] = <<>>
  BY DEF Init
<1>2. \A p \in Procs : Steps(p) = {} /\ Later(p) = {}
  BY <1>1, NoSteps
<1>3. \A p \in Procs : phase[p] = "off" /\ cur[p] = NoJob
  BY DEF Init
<1>4. rq = {} /\ died = {} /\ unsure = {} /\ NoJob \notin Jobs
  BY ConstantsAssumption DEF Init, ConstantsAssumption
<1>5. Callers \subseteq Procs
  BY DEF Procs
<1>6. HeadOnly
  BY <1>1, <1>2, <1>3, <1>5 DEF HeadOnly
<1> QED
  BY <1>2, <1>3, <1>4, <1>6 DEF Custody, EnqueueAlone, QueuedAlone, HeldAlone, FinishOwned,
     DropWaits, Past, Enqueuing

\* A worker that moves a job leaves its steps alone or ends a job first.
LEMMA WorkerFinishing ==
    ASSUME TypeOK, NEW p \in Workers, WorkerMoving(p)
    PROVE  \/ UNCHANGED todo
           \/ \E j \in Jobs, r \in BOOLEAN : Finishing(p, j, r)
<1>0. p \in Procs
  BY DEF Procs
<1>a. phase[p] # "off" => cur[p] \in Jobs
  BY <1>0 DEF TypeOK, ProcType
<1>1. ASSUME NEW j \in Jobs, RefuseJob(p, j) PROVE Finishing(p, j, TRUE)
  BY <1>1, RefuseFirst
<1>2. ASSUME AgentNotReady(p) \/ AgentReturns(p) \/ AgentRaises(p)
      PROVE  cur[p] \in Jobs /\ Finishing(p, cur[p], TRUE)
  BY <1>0, <1>2, ReturnFinishing
<1>3. ASSUME HorseDies(p) \/ StopDelivered(p)
      PROVE  cur[p] \in Jobs /\ Finishing(p, cur[p], FALSE)
  BY <1>0, <1>3, HorseFinishing
<1>4. ASSUME NEW j \in Jobs, ClaimJob(p, j) \/ LeaveJob(p) PROVE UNCHANGED todo
  BY <1>4 DEF ClaimJob, LeaveJob
<1>5. LeaveJob(p) => UNCHANGED todo
  BY DEF LeaveJob
<1> QED
  BY <1>1, <1>2, <1>3, <1>4, <1>5 DEF WorkerMoving

\* A reservation still to be made names relatives, after any step.
LEMMA KinStepsStep ==
    ASSUME TypeOK, TypeOK', KinSteps, Custody, [Next]_vars
    PROVE  KinSteps'
<1>0. HeadOnly /\ HeldAlone /\ DropWaits
  BY DEF Custody
<1>1. \A p \in Procs : \A x \in Steps(p)' : x.op = "reserve" => x \in Steps(p) \/ Mild(x)
  <2>1. CASE Still
    BY <2>1 DEF Still, MildSteps
  <2>2. ASSUME NEW p \in Procs, Reserving(p)
        PROVE  \A q \in Procs : \A x \in Steps(q)' : x.op = "reserve" => x \in Steps(q)
    <3>1. PICK a \in Agents, r \in Jobs \cup {NoJob}, rest \in Seq(Step) :
            Reserve(p, a, r, rest) /\ Elems(rest) \subseteq Later(p)
      BY <2>2 DEF Reserving
    <3>2. PICK j \in Jobs : todo' = [todo EXCEPT ![p] = <<[op |-> "enqueue", job |-> j]>> \o rest]
      BY <3>1 DEF Reserve
    <3> DEFINE e == [op |-> "enqueue", job |-> j]
    <3>3. e \in Step /\ e.op = "enqueue"
      BY DEF Step, EnqueueStep
    <3> HIDE DEF e
    <3>4. todo' = [todo EXCEPT ![p] = <<e>> \o rest]
      BY <3>2 DEF e
    <3>5. Later(p) \subseteq Steps(p)
      BY DEF Later, Steps, Elems, TypeOK, TodoType
    <3> QED
      BY <3>1, <3>3, <3>4, <3>5, GivenFirst
  <2>3. ASSUME NEW p \in Procs, Enqueued(p)
        PROVE  \A q \in Procs : \A x \in Steps(q)' : x.op = "reserve" => x \in Steps(q)
    <3>1. todo[p] # <<>> /\ Becomes(p, <<>>)
      BY <2>3 DEF Enqueued, At
    <3> QED
      BY <3>1, StepsBecome, ElemsNone, EmptySeq
  <2>4. ASSUME NEW p \in Procs, EnqueueFails(p)
        PROVE  \A q \in Procs : \A x \in Steps(q)' : x.op = "reserve" => x \in Steps(q)
    <3>1. todo[p] # <<>> /\ Head(todo[p]) \in EnqueueStep
      BY <2>4, HeadKind DEF EnqueueFails, At
    <3>2. Head(todo[p]).job \in Jobs
      BY <3>1 DEF EnqueueStep
    <3> DEFINE f == Finish(Head(todo[p]).job, "error", TRUE)
    <3>3. f \in Step /\ f.op = "finish" /\ <<f>> \in Seq(Step) /\ Elems(<<f>>) = {f}
      BY <3>2, FinishType, ElemsOne DEF Finish, Ended
    <3>4. Becomes(p, <<f>>)
      BY <2>4 DEF EnqueueFails
    <3> HIDE DEF f
    <3> QED
      BY <3>1, <3>3, <3>4, StepsBecome
  <2>5. ASSUME NEW p \in Procs, ProcessDies(p)
        PROVE  \A q \in Procs : \A x \in Steps(q)' : x \in Steps(q)
    <3>1. todo'[p] = <<>> /\ \A q \in Procs \ {p} : todo'[q] = todo[q]
      BY <2>5 DEF ProcessDies, TypeOK, TodoType
    <3>2. Steps(p)' = {}
      BY <3>1, ElemsNone DEF Steps
    <3> QED
      BY <3>1, <3>2 DEF Steps
  <2>6. ASSUME NEW p \in Workers, WorkerMoving(p)
        PROVE  \A q \in Procs : \A x \in Steps(q)' : x.op = "reserve" => x \in Steps(q)
    <3>0. p \in Procs
      BY DEF Procs
    <3>1. ASSUME NEW j \in Jobs, NEW r \in BOOLEAN, Finishing(p, j, r)
          PROVE  \A q \in Procs : \A x \in Steps(q)' : x.op = "reserve" => x \in Steps(q)
      BY <3>0, <3>1, FinishingSteps DEF Trailing
    <3>2. UNCHANGED todo \/ \E j \in Jobs, r \in BOOLEAN : Finishing(p, j, r)
      BY <2>6, WorkerFinishing
    <3>3. CASE UNCHANGED todo
      BY <3>3 DEF Steps
    <3> QED
      BY <3>1, <3>2, <3>3
  <2> QED
    BY <1>0, <2>1, <2>2, <2>3, <2>4, <2>5, <2>6, NextStill
<1> SUFFICES ASSUME NEW p \in Procs, NEW x \in Steps(p)', x.op = "reserve", x.parent # NoJob
             PROVE  jobs'[x.parent].status # "free" /\ KinOf(x.agent, x.parent)'
  BY DEF KinSteps
<1>2. jobs[x.parent].status # "free" /\ KinOf(x.agent, x.parent)
  BY <1>1 DEF KinSteps, Mild
<1>3. x.parent \in Jobs
  <2>1. x \in Step
    BY DEF Steps, Elems, TypeOK, TodoType
  <2> QED
    BY <2>1 DEF Step, FinishStep, CloseStep, ChildrenStep, SignalStep, ResetStep,
       ReserveStep, EnqueueStep
<1>4. GoesOn(x.parent)
  BY <1>2, <1>3, JobsGoOn
<1> QED
  BY <1>2, <1>4 DEF GoesOn, KinOf, JobTenant

Kept == KinJobs /\ KinSteps /\ Custody

\* At the start there are no jobs, no relatives and no custody to keep.
LEMMA InitKept == Init => Kept
<1> SUFFICES ASSUME Init PROVE Kept
  OBVIOUS
<1>1. \A p \in Procs : Steps(p) = {}
  BY ElemsNone DEF Init, Steps
<1>2. KinJobs
  BY DEF Init, KinJobs, JobWith
<1>3. KinSteps
  BY <1>1 DEF KinSteps
<1> QED
  BY <1>2, <1>3, InitCustody DEF Kept

\* A job's licence to run is with one process, in RQ or with one worker, and only its
\* holder, or a starter that saw its enqueue fail, ends it (execute_job, job_failed,
\* start); parents and children belong together (reserve_job).
THEOREM CustodyKept == Spec => []Kept
<1>1. TypeOK /\ TypeOK' /\ Kept /\ [Next]_vars => Kept'
  BY KinJobsStep, KinStepsStep, CustodyStep DEF Kept
<1> QED
  BY <1>1, InitKept, TypeCorrect, PTL DEF Spec

\* A batch stops as a whole: no child of a Director the user stopped goes without a
\* cancellation request, whatever was in flight when the request was written
\* (_request_stop, reserve_job).
THEOREM BatchesStopJointly == Spec => []StopIsJoint
<1>1. Init => StopIsJoint
  BY DEF Init, StopIsJoint, JobWith
<1>2. TypeOK /\ Kept /\ StopIsJoint /\ [Next]_vars => StopIsJoint'
  BY StopStep DEF Kept
<1> QED
  BY <1>1, <1>2, CustodyKept, TypeCorrect, PTL DEF Spec

-----------------------------------------------------------------------------
(* How a job ends. *)

\* p recovers expired jobs, and has their Directors' children to cancel.
Expiring(p) ==
    \E T \in SUBSET Tenants, s \in Seq(Step) :
        /\ Expire(Expired(T))
        /\ todo' = [todo EXCEPT ![p] = Sweep(ExpiredDirectors(T)) \o s]

\* Nothing but finish_job and the recovery ends a job.
LEMMA NextEnds ==
    ASSUME TypeOK, [Next]_vars, NEW j \in Jobs, Active(j), jobs'[j].status \in Ended
    PROVE  \E p \in Procs : \/ Expiring(p)
                            \/ FinishStepTaken(p) /\ Head(todo[p]).job = j
                            \/ DropQueued(p) /\ j \in Head(todo[p]).drop
<1> USE DEF db
<1>0. /\ jobs[j].status \notin Ended /\ jobs[j].status # "free"
      /\ jobs' # jobs
  BY DEF Active, Live, Ended
<1>a. ASSUME jobs'[j].status = jobs[j].status PROVE FALSE
  BY <1>0, <1>a
<1>b. jobs \in [Jobs -> JobRow]
  BY DEF TypeOK, DbType, JobsType
<1>1. ASSUME NEW p \in Procs, NEW a, NEW q, NEW rest, Reserve(p, a, q, rest) PROVE FALSE
  BY <1>0, <1>1 DEF Reserve, TypeOK, DbType, JobsType
<1>2. ASSUME NEW p \in Procs, NEW a \in Agents, NEW q \in Jobs \cup {NoJob}, BeginStart(p, a, q)
      PROVE  Expiring(p)
  <2> DEFINE r == [op |-> "reserve", agent |-> a, parent |-> q]
  <2>1. r \in Step
    BY DEF Step, ReserveStep
  <2>2. <<r>> \in Seq(Step)
    BY <2>1
  <2> QED
    BY <1>1, <1>2, <2>2 DEF BeginStart, Expiring
<1>3. ASSUME NEW p \in Procs, StepTaken(p)
      PROVE  \/ FinishStepTaken(p) /\ Head(todo[p]).job = j
             \/ DropQueued(p) /\ j \in Head(todo[p]).drop
  <2>1. ~ReserveGranted(p)
    BY <1>1 DEF ReserveGranted
  <2>2. ~(\/ ReserveRefused(p) \/ Enqueued(p) \/ EnqueueFails(p) \/ SendStop(p)
          \/ ResetRows(p) \/ ForceRows(p) \/ CloseRun(p))
    BY <1>0 DEF ReserveRefused, Enqueued, EnqueueFails, SendStop, ResetRows, ForceRows, CloseRun
  <2>3. ~CancelChildren(p)
    BY <1>a, RequestCancelLife DEF CancelChildren
  <2>4. ASSUME NEW k \in Jobs, NEW s \in Ended, NEW r \in BOOLEAN, FinishJob(k, s, r)
        PROVE  k = j
    BY <1>0, <2>4 DEF FinishJob, TypeOK, DbType, JobsType
  <2>5. FinishStepTaken(p) => Head(todo[p]).job = j
    BY <2>4, HeadKind DEF FinishStepTaken, FinishStep
  <2>6. ASSUME DropQueued(p) PROVE j \in Head(todo[p]).drop
    <3>1. Head(todo[p]) \in SignalStep
      BY <2>6, HeadKind DEF DropQueued
    <3>2. "cancelled" \in Ended
      BY DEF Ended
    <3> QED
      BY <2>4, <2>6, <3>1, <3>2 DEF DropQueued, SignalStep
  <2> QED
    BY <1>3, <2>1, <2>2, <2>3, <2>5, <2>6 DEF StepTaken
<1>4. ASSUME NEW p \in Procs, NEW T \in SUBSET Tenants, Recover(p, T) PROVE Expiring(p)
  <2>1. Sweep(ExpiredDirectors(T)) \in Seq(Step)
    BY SweepType DEF ExpiredDirectors, Expired
  <2> DEFINE s == Sweep(ExpiredDirectors(T))
  <2>2. s \o <<>> = s /\ <<>> \in Seq(Step)
    BY <2>1, ConcatEmptySeq, EmptySeq
  <2>3. Expire(Expired(T)) /\ todo' = [todo EXCEPT ![p] = Sweep(ExpiredDirectors(T)) \o <<>>]
    BY <1>4, <2>2 DEF Recover
  <2> QED
    BY <2>2, <2>3 DEF Expiring
<1>5. ASSUME NEW p \in Callers, CallerNext(p) PROVE p \in Procs /\ Expiring(p)
  <2>1. p \in Procs
    BY DEF Procs
  <2>2. ~(\E a \in Agents : StopAgent(p, a)) /\ ~(\E t \in Tenants : StopAll(p, t))
    BY <1>a, RequestCancelLife DEF StopAgent, StopAll
  <2>3. ~RepairRows(p)
    BY <1>0 DEF RepairRows
  <2>4. \E a \in Agents : CallerStarts(p, a)
    BY <1>5, <2>2, <2>3 DEF CallerNext
  <2> QED
    BY <1>2, <2>1, <2>4 DEF CallerStarts
<1>6. ASSUME NEW p \in Workers, WorkerNext(p) PROVE p \in Procs /\ Expiring(p)
  <2>0. p \in Procs /\ cur[p] \in Jobs \cup {NoJob}
    BY DEF Procs, TypeOK, ProcType
  <2>a. phase[p] # "off" => cur[p] \in Jobs
    BY <2>0 DEF TypeOK, ProcType
  <2>1. ASSUME NEW k \in Jobs, ClaimJob(p, k) PROVE FALSE
    BY <1>0, <1>b, <2>1 DEF ClaimJob, JobRow, Ended
  <2>2. ASSUME NEW k \in Jobs, SkipJob(p, k) \/ RefuseJob(p, k) PROVE FALSE
    BY <1>0, <2>2 DEF SkipJob, RefuseJob
  <2>3. ~Heartbeat(p)
    BY <1>a, <1>b DEF Heartbeat, JobRow
  <2>4. ~TimeLimit(p)
    BY <1>a, <2>a, BlockJobLife DEF TimeLimit, Running
  <2>5. ASSUME ConsumeApiCall(p) PROVE FALSE
    <3>1. CASE BlockJob(cur[p])
      BY <1>a, <2>a, <2>5, <3>1, BlockJobLife DEF ConsumeApiCall, Running
    <3>2. CASE jobs' = [jobs EXCEPT ![cur[p]].calls = @ + 1]
      BY <1>a, <1>b, <3>2 DEF JobRow
    <3> QED
      BY <1>0, <2>5, <3>1, <3>2 DEF ConsumeApiCall
  <2>6. ASSUME NEW s \in Reports, SetStatus(p, s) PROVE FALSE
    BY <1>0, <2>6 DEF SetStatus
  <2>7. ~(AgentReady(p) \/ AgentNotReady(p) \/ PollToken(p) \/ AgentReturns(p)
           \/ AgentRaises(p) \/ LeaveJob(p) \/ HorseDies(p) \/ StopDelivered(p))
    BY <1>0 DEF AgentReady, AgentNotReady, PollToken, AgentReturns,
       AgentRaises, LeaveJob, HorseDies, StopDelivered, HorseGone
  <2>8. \E a \in Agents : DirectorStarts(p, a)
    BY <1>6, <2>1, <2>2, <2>3, <2>4, <2>5, <2>6, <2>7 DEF WorkerNext
  <2> QED
    BY <1>2, <2>0, <2>8 DEF DirectorStarts
<1>7. ASSUME NEW p \in Procs, ProcessDies(p) PROVE FALSE
  BY <1>0, <1>7 DEF ProcessDies
<1>8. ASSUME NEW k \in Jobs, RqLoses(k) \/ Age(k) PROVE FALSE
  BY <1>0, <1>a, <1>b, <1>8 DEF RqLoses, Age, JobRow
<1>9. ~UNCHANGED vars
  BY <1>0 DEF vars
<1>10. CASE \E p \in Procs : StepTaken(p) \/ ProcessDies(p)
  BY <1>3, <1>7, <1>10
<1>11. CASE \E p \in Procs, T \in SUBSET Tenants : Recover(p, T)
  BY <1>4, <1>11
<1>12. CASE \E p \in Callers : CallerNext(p)
  BY <1>5, <1>12
<1>13. CASE \E p \in Workers : WorkerNext(p)
  BY <1>6, <1>13
<1> QED
  BY <1>8, <1>9, <1>10, <1>11, <1>12, <1>13 DEF Next

\* A job dies while it runs, and its row stays as it is.
LEMMA NextDies ==
    ASSUME TypeOK, Kept, [Next]_vars
    PROVE  /\ unsure \subseteq unsure'
           /\ died' = died \/ (UNCHANGED jobs /\ \A j \in died' : j \in died \/ jobs[j].status = "running")
<1>0. HeadOnly /\ HeldAlone /\ DropWaits /\ KinSteps
  BY DEF Kept, Custody
<1>1. ASSUME NEW p \in Procs, Reserving(p) PROVE UNCHANGED <<died, unsure>>
  BY <1>1 DEF Reserving, Reserve, hist
<1>2. ASSUME NEW p \in Procs, Enqueued(p) \/ EnqueueFails(p)
      PROVE UNCHANGED died /\ unsure \subseteq unsure'
  BY <1>2 DEF Enqueued, EnqueueFails, hist
<1>3. ASSUME NEW p \in Procs, ProcessDies(p)
      PROVE UNCHANGED <<jobs, unsure>> /\ died' = died \cup DiesRunning(p)
  BY <1>3 DEF ProcessDies, db
<1>4. ASSUME NEW p \in Workers, WorkerMoving(p)
      PROVE UNCHANGED unsure /\ (UNCHANGED died \/ (UNCHANGED jobs /\ died' = died \cup DiesRunning(p)))
  BY <1>4 DEF WorkerMoving, RefuseJob, ClaimJob, AgentNotReady, AgentReturns, AgentRaises, LeaveJob,
     HorseDies, StopDelivered, HorseGone, hist, db
<1>5. CASE Still
  BY <1>5 DEF Still, SameHolders
<1> QED
  BY <1>0, <1>1, <1>2, <1>3, <1>4, <1>5, NextStill DEF DiesRunning

\* A job that died while it ran ends by a recovery or by the callback, without a retry.
LEMMA DeathStep ==
    ASSUME TypeOK, Kept, DeathBlocksRetry, [Next]_vars
    PROVE  DeathBlocksRetry'
<1> SUFFICES ASSUME NEW j \in died' \ unsure', jobs'[j].status \in Ended
             PROVE  ~jobs'[j].retryable
  BY DEF DeathBlocksRetry
<1>0. Custody /\ \A k \in died : k \in Jobs
  BY DEF Kept, TypeOK, HistType
<1>1. j \in died /\ j \notin unsure
  <2>1. "running" \notin Ended
    BY DEF Ended
  <2> QED
    BY <2>1, NextDies
<1>2. j \in Jobs
  BY <1>0, <1>1
<1>3. CASE jobs[j].status \in Ended
  <2>1. jobs'[j].retryable = jobs[j].retryable
    BY <1>2, <1>3, NextMove DEF Final
  <2> QED
    BY <1>1, <1>3, <2>1 DEF DeathBlocksRetry
<1>4. CASE jobs[j].status \notin Ended
  <2>1. jobs[j].status = "running" /\ Active(j)
    BY <1>0, <1>1, <1>2, <1>4 DEF Custody, Past, Active, Live, TypeOK, DbType, JobsType, JobRow
  <2>2. PICK p \in Procs : \/ Expiring(p)
                           \/ FinishStepTaken(p) /\ Head(todo[p]).job = j
                           \/ DropQueued(p) /\ j \in Head(todo[p]).drop
    BY <1>2, <2>1, NextEnds
  <2>3. CASE Expiring(p)
    <3>1. PICK T \in SUBSET Tenants : Expire(Expired(T))
      BY <2>3 DEF Expiring
    <3>2. jobs'[j] = IF j \in Expired(T) THEN ExpiredJob(jobs[j]) ELSE jobs[j]
      BY <1>2, <3>1 DEF Expire, ExpireJobs
    <3>3. j \in Expired(T)
      BY <1>4, <3>2
    <3> QED
      BY <1>2, <3>2, <3>3 DEF ExpiredJob, TypeOK, DbType, JobsType, JobRow
  <2>4. CASE FinishStepTaken(p) /\ Head(todo[p]).job = j
    <3> DEFINE s == Head(todo[p])
    <3>1. s \in Steps(p) /\ s.op = "finish" /\ s \in FinishStep
      BY <2>4, HeadKind, StepsSplit DEF FinishStepTaken, At
    <3>2. cur[p] = j /\ phase[p] = IF s.retry THEN "exit" ELSE "callback"
      BY <1>0, <1>1, <2>1, <2>4, <3>1 DEF Custody, FinishOwned
    <3>3. phase[p] = "callback"
      BY <1>0, <1>1, <1>2, <3>2 DEF Custody, HeldAlone
    <3>4. s.retry = FALSE
      BY <3>1, <3>2, <3>3 DEF FinishStep
    <3>5. FinishJob(j, s.as, FALSE)
      BY <2>4, <3>4 DEF FinishStepTaken
    <3> QED
      BY <1>2, <2>1, <3>5 DEF FinishJob, MayFinish, TypeOK, DbType, JobsType, JobRow
  <2>5. CASE DropQueued(p) /\ j \in Head(todo[p]).drop
    <3>1. Head(todo[p]) \in Steps(p) /\ Head(todo[p]).op = "signal"
      BY <2>5, StepsSplit DEF DropQueued, At
    <3> QED
      BY <1>0, <2>1, <2>5, <3>1 DEF Custody, DropWaits, Waiting
  <2> QED
    BY <2>2, <2>3, <2>4, <2>5
<1> QED
  BY <1>3, <1>4

\* A job whose worker was lost while it ran never ends retryable: of the recovery, the
\* callback, the user's stop and the worker's own end, those that may end it forbid
\* the retry (recover_expired_jobs, handle_work_horse_killed).
THEOREM DeathsBlockRetry == Spec => []DeathBlocksRetry
<1>1. Init => DeathBlocksRetry
  BY DEF Init, DeathBlocksRetry
<1>2. TypeOK /\ Kept /\ DeathBlocksRetry /\ [Next]_vars => DeathBlocksRetry'
  BY DeathStep
<1> QED
  BY <1>1, <1>2, CustodyKept, TypeCorrect, PTL DEF Spec

-----------------------------------------------------------------------------
(* The children of an ended Director. *)

Sweeping(x) == x.op = "children"
KeepsSweeps(p) == \A x \in Steps(p) : Sweeping(x) => x \in Steps(p)'

\* A process that had nothing to do takes new steps: no sweep is lost.
LEMMA KeepsIdle ==
    ASSUME TypeOK, NEW q \in Procs, todo[q] = <<>>, NEW s, todo' = [todo EXCEPT ![q] = s]
    PROVE  \A p \in Procs : KeepsSweeps(p)
<1> SUFFICES ASSUME NEW p \in Procs PROVE KeepsSweeps(p)
  OBVIOUS
<1>1. CASE p = q
  BY <1>1, NoSteps DEF KeepsSweeps
<1>2. CASE p # q
  <2>1. todo'[p] = todo[p]
    BY <1>2 DEF TypeOK, TodoType
  <2> QED
    BY <2>1 DEF KeepsSweeps, Steps
<1> QED
  BY <1>1, <1>2

\* No sweep is lost when no steps change.
LEMMA KeepsSame == ASSUME UNCHANGED todo PROVE \A p \in Procs : KeepsSweeps(p)
BY DEF KeepsSweeps, Steps

\* A process that is not at a sweep loses none by its step.
LEMMA KeepsBecome ==
    ASSUME TypeOK, NEW q \in Procs, todo[q] # <<>>, ~Sweeping(Head(todo[q])),
           NEW s \in Seq(Step), Becomes(q, s)
    PROVE  \A p \in Procs : KeepsSweeps(p)
<1>1. /\ Steps(q)' = Elems(s) \cup Later(q) /\ Steps(q) = {Head(todo[q])} \cup Later(q)
      /\ \A p \in Procs \ {q} : Steps(p)' = Steps(p)
  BY StepsBecome
<1> SUFFICES ASSUME NEW p \in Procs PROVE KeepsSweeps(p)
  OBVIOUS
<1> QED
  BY <1>1 DEF KeepsSweeps

\* Only cancel_children consumes a sweep.
LEMMA StepTakenKeeps ==
    ASSUME TypeOK, NEW q \in Procs, StepTaken(q), ~CancelChildren(q)
    PROVE  \A p \in Procs : KeepsSweeps(p)
<1>1. CASE ReserveGranted(q)
  <2> DEFINE s == Head(todo[q])
             rest == Tail(todo[q])
  <2>1. /\ todo[q] # <<>> /\ s.op = "reserve" /\ rest \in Seq(Step)
        /\ Reserve(q, s.agent, s.parent, rest)
    BY <1>1, HeadType DEF ReserveGranted, At
  <2>2. Steps(q) = {s} \cup Elems(rest)
    BY <2>1, StepsSplit
  <2>3. PICK j \in Jobs : todo' = [todo EXCEPT ![q] = <<[op |-> "enqueue", job |-> j]>> \o rest]
    BY <2>1 DEF Reserve
  <2> DEFINE e == [op |-> "enqueue", job |-> j]
  <2>4. e \in Step
    BY DEF Step, EnqueueStep
  <2> HIDE DEF s, rest
  <2>5. todo' = [todo EXCEPT ![q] = <<e>> \o rest]
    BY <2>3
  <2> HIDE DEF e
  <2>6. /\ Steps(q)' = {e} \cup Elems(rest)
        /\ \A p \in Procs \ {q} : Steps(p)' = Steps(p)
    BY <2>1, <2>4, <2>5, GivenFirst
  <2>7. ASSUME NEW p \in Procs PROVE KeepsSweeps(p)
    BY <2>1, <2>2, <2>6 DEF KeepsSweeps, Sweeping
  <2> QED
    BY <2>7
<1>2. CASE \/ ReserveRefused(q) \/ Enqueued(q) \/ ForceRows(q) \/ FinishStepTaken(q) \/ CloseRun(q)
  <2>1. todo[q] # <<>> /\ ~Sweeping(Head(todo[q])) /\ Becomes(q, <<>>)
    BY <1>2 DEF At, Sweeping, ReserveRefused, Enqueued, ForceRows, FinishStepTaken, CloseRun
  <2> QED
    BY <2>1, EmptySeq, KeepsBecome
<1>3. CASE EnqueueFails(q)
  <2>1. todo[q] # <<>> /\ ~Sweeping(Head(todo[q])) /\ Head(todo[q]) \in EnqueueStep
    BY <1>3, HeadKind DEF EnqueueFails, At, Sweeping
  <2>2. <<Finish(Head(todo[q]).job, "error", TRUE)>> \in Seq(Step)
    BY <2>1, FinishType DEF EnqueueStep, Ended
  <2> QED
    BY <1>3, <2>1, <2>2, KeepsBecome DEF EnqueueFails
<1>4. CASE DropQueued(q) \/ SendStop(q)
  <2>1. todo[q] # <<>> /\ ~Sweeping(Head(todo[q])) /\ Head(todo[q]) \in SignalStep
    BY <1>4, HeadKind DEF DropQueued, SendStop, At, Sweeping
  <2> DEFINE s == Head(todo[q])
  <2>2. s.drop \subseteq Jobs /\ s.kill \subseteq Jobs
    BY <2>1 DEF SignalStep
  <2>3. \E D \in SUBSET s.drop, K \in SUBSET s.kill : Becomes(q, Signal(D, K))
    <3>1. CASE DropQueued(q)
      <4>1. PICK j \in s.drop : Becomes(q, Signal(s.drop \ {j}, s.kill))
        BY <3>1 DEF DropQueued
      <4> QED
        BY <4>1
    <3>2. CASE SendStop(q)
      <4>1. PICK j \in s.kill : Becomes(q, Signal(s.drop, s.kill \ {j}))
        BY <3>2 DEF SendStop
      <4> QED
        BY <4>1
    <3> QED
      BY <1>4, <3>1, <3>2
  <2>4. PICK D \in SUBSET Jobs, K \in SUBSET Jobs : Becomes(q, Signal(D, K))
    BY <2>2, <2>3
  <2> QED
    BY <2>1, <2>4, SignalType, KeepsBecome
<1>5. CASE ResetRows(q)
  <2> DEFINE f == [op |-> "force", tenant |-> Head(todo[q]).tenant]
  <2>1. f \in Step
    BY <1>5, HeadKind DEF ResetRows, ResetStep, Step
  <2>2. <<f>> \in Seq(Step)
    BY <2>1
  <2>3. todo[q] # <<>> /\ ~Sweeping(Head(todo[q])) /\ (Becomes(q, <<>>) \/ Becomes(q, <<f>>))
    BY <1>5 DEF ResetRows, At, Sweeping
  <2> HIDE DEF f
  <2> QED
    BY <2>2, <2>3, EmptySeq, KeepsBecome
<1> QED
  BY <1>1, <1>2, <1>3, <1>4, <1>5 DEF StepTaken

\* A start begins with nothing left to do.
LEMMA BeginStartKeeps ==
    ASSUME TypeOK, NEW q \in Procs, todo[q] = <<>>, NEW a, NEW b, BeginStart(q, a, b)
    PROVE  \A p \in Procs : KeepsSweeps(p)
<1>1. \E s : todo' = [todo EXCEPT ![q] = s]
  BY DEF BeginStart, Reserve
<1> QED
  BY <1>1, KeepsIdle

\* A cancellation owed to the children of a Director is made, or lost with its process.
LEMMA NextKeeps ==
    ASSUME TypeOK, HeadOnly, [Next]_vars
    PROVE  \/ \A p \in Procs : KeepsSweeps(p)
           \/ \E p \in Procs : CancelChildren(p) \/ ProcessDies(p)
           \/ \E p \in Workers : HorseDies(p) \/ StopDelivered(p)
<1> DEFINE Good == \A p \in Procs : KeepsSweeps(p)
<1>1. ASSUME NEW p \in Procs, StepTaken(p), ~CancelChildren(p) PROVE Good
  BY <1>1, StepTakenKeeps
<1>2. ASSUME NEW p \in Procs, NEW T \in SUBSET Tenants, Recover(p, T) PROVE Good
  BY <1>2, KeepsIdle DEF Recover, Idle
<1>3. ASSUME NEW p \in Callers, CallerNext(p) PROVE Good
  <2>1. p \in Procs
    BY DEF Procs
  <2>2. ASSUME NEW a \in Agents, CallerStarts(p, a) PROVE Good
    BY <2>1, <2>2, BeginStartKeeps DEF CallerStarts, Idle
  <2>3. ASSUME NEW a \in Agents, StopAgent(p, a) PROVE Good
    BY <2>1, <2>3, KeepsIdle DEF StopAgent, UserStop, Idle
  <2>4. ASSUME NEW t \in Tenants, StopAll(p, t) PROVE Good
    BY <2>1, <2>4, KeepsIdle DEF StopAll, UserStop, Idle
  <2>5. ASSUME RepairRows(p) PROVE Good
    BY <2>5, KeepsSame DEF RepairRows
  <2> HIDE DEF Good
  <2> QED
    BY <1>3, <2>2, <2>3, <2>4, <2>5 DEF CallerNext
<1>4. ASSUME NEW p \in Workers, WorkerNext(p), ~HorseDies(p), ~StopDelivered(p) PROVE Good
  <2>1. p \in Procs
    BY DEF Procs
  <2>2. ASSUME NEW a \in Agents, DirectorStarts(p, a) PROVE Good
    BY <2>1, <2>2, BeginStartKeeps DEF DirectorStarts
  <2>3. ASSUME NEW j \in Jobs, RefuseJob(p, j) PROVE Good
    BY <2>1, <2>3, KeepsIdle DEF RefuseJob, Take, Leaving
  <2>4. ASSUME AgentNotReady(p) \/ AgentReturns(p) \/ AgentRaises(p) PROVE Good
    <3>1. todo[p] = <<>>
      BY <2>1, <2>4 DEF AgentNotReady, AgentReturns, AgentRaises, Running, HeadOnly
    <3>2. \E s : Leaving(p, s)
      BY <2>1, <2>4, ReturnFinishing
    <3> QED
      BY <2>1, <3>1, <3>2, KeepsIdle DEF Leaving
  <2>5. ASSUME NEW j \in Jobs, SkipJob(p, j) \/ ClaimJob(p, j) PROVE Good
    BY <2>5, KeepsSame DEF SkipJob, ClaimJob
  <2>6. ASSUME NEW s \in Reports, SetStatus(p, s) PROVE Good
    BY <2>6, KeepsSame DEF SetStatus
  <2>7. ASSUME AgentReady(p) \/ Heartbeat(p) \/ PollToken(p) \/ TimeLimit(p) \/ ConsumeApiCall(p)
               \/ LeaveJob(p)
        PROVE  Good
    BY <2>7, KeepsSame DEF AgentReady, Heartbeat, PollToken, TimeLimit, ConsumeApiCall, LeaveJob
  <2> HIDE DEF Good
  <2> QED
    BY <1>4, <2>2, <2>3, <2>4, <2>5, <2>6, <2>7 DEF WorkerNext
<1>5. ASSUME NEW j \in Jobs, RqLoses(j) \/ Age(j) PROVE Good
  BY <1>5, KeepsSame DEF RqLoses, Age
<1>6. ASSUME UNCHANGED vars PROVE Good
  BY <1>6, KeepsSame DEF vars
<1> HIDE DEF Good
<1>10. ASSUME \E p \in Procs : StepTaken(p)
       PROVE Good \/ \E p \in Procs : CancelChildren(p)
  BY <1>1, <1>10
<1>11. ASSUME \E p \in Procs, T \in SUBSET Tenants : Recover(p, T) PROVE Good
  BY <1>2, <1>11
<1>12. ASSUME \E p \in Callers : CallerNext(p) PROVE Good
  BY <1>3, <1>12
<1>13. ASSUME \E p \in Workers : WorkerNext(p)
       PROVE Good \/ \E p \in Workers : HorseDies(p) \/ StopDelivered(p)
  BY <1>4, <1>13
<1>14. \/ Good \/ \E p \in Procs : CancelChildren(p) \/ ProcessDies(p)
       \/ \E p \in Workers : HorseDies(p) \/ StopDelivered(p)
  BY <1>5, <1>6, <1>10, <1>11, <1>12, <1>13 DEF Next
<1> QED
  BY <1>14 DEF Good

\* A job that ended keeps its agent, its parent and its end, and reserves nothing.
LEMMA SweptStep ==
    ASSUME TypeOK, KinSteps, [Next]_vars, NEW d \in Jobs, jobs[d].status # "running", Swept(d),
           KinJobs
    PROVE  Swept(d)'
<1> SUFFICES ASSUME NEW c \in Jobs, Active(c)', jobs'[c].parent = d
             PROVE  jobs'[c].cancel
  BY DEF Swept
<1>0. NoJob \notin Jobs
  BY ConstantsAssumption DEF ConstantsAssumption
<1>1. CASE jobs[c].status = "free"
  <2>1. BornAs(c)
    BY <1>1, JobsGoOn DEF Active, Live
  <2>2. ~ParentGone(d)
    BY <2>1 DEF BornAs, JobWith
  <2> QED
    BY <1>0, <2>2 DEF ParentGone
<1>2. CASE jobs[c].status # "free"
  <2>1. GoesOn(c)
    BY <1>2, JobsGoOn
  <2> QED
    BY <2>1 DEF GoesOn, Swept
<1> QED
  BY <1>1, <1>2

\* A job that no worker claimed yet has no children.
LEMMA QueuedSwept ==
    ASSUME KinJobs, NEW d \in Jobs, jobs[d].status = "queued"
    PROVE  Swept(d)
<1>1. NoJob \notin Jobs
  BY ConstantsAssumption DEF ConstantsAssumption
<1> QED
  BY <1>1 DEF Swept, KinJobs

\* cancel_children asks every active child of one job to stop, and leaves the others.
LEMMA CancelSweeps ==
    ASSUME TypeOK, NEW p \in Procs, CancelChildren(p)
    PROVE  /\ \A d \in Jobs : Owes(p, d) => Owes(p, d)' \/ Swept(d)'
           /\ \A q \in Procs \ {p} : Steps(q)' = Steps(q)
           /\ Sweeping(Head(todo[p])) /\ Steps(p) = {Head(todo[p])} \cup Later(p)
<1> DEFINE s == Head(todo[p])
           hits(d) == {j \in Jobs : Active(j) /\ jobs[j].parent = d}
<1>1. todo[p] # <<>> /\ s \in ChildrenStep /\ s.op = "children"
  BY HeadKind DEF CancelChildren, At
<1>2. PICK e \in s.of : /\ RequestCancel(hits(e))
                        /\ Becomes(p, StopSteps(hits(e)) \o Sweep(s.of \ {e}))
  BY DEF CancelChildren
<1>3. s.of \subseteq Jobs /\ e \in Jobs
  BY <1>1, <1>2 DEF ChildrenStep
<1> DEFINE rest == s.of \ {e}
           D == {j \in hits(e) : jobs[j].status = "queued"}
           K == {j \in hits(e) : jobs[j].status = "running"}
<1>4. StopSteps(hits(e)) \in Seq(Step)
  <2>1. StopSteps(hits(e)) = Signal(D, K) /\ D \in SUBSET Jobs /\ K \in SUBSET Jobs
    BY DEF StopSteps
  <2> HIDE DEF D, K
  <2> QED
    BY <2>1, SignalType
<1>5. rest \in SUBSET Jobs
  BY <1>3
<1> DEFINE t == StopSteps(hits(e)) \o Sweep(rest)
<1>6. t \in Seq(Step) /\ Elems(t) = Elems(StopSteps(hits(e))) \cup Elems(Sweep(rest))
  <2>1. Sweep(rest) \in Seq(Step)
    BY <1>5, SweepType
  <2> HIDE DEF rest, hits
  <2> QED
    BY <1>4, <2>1, ElemsConcat, ConcatProperties
<1>7. Becomes(p, t)
  BY <1>2
<1>8. /\ Steps(p)' = Elems(t) \cup Later(p) /\ Steps(p) = {s} \cup Later(p)
      /\ \A q \in Procs \ {p} : Steps(q)' = Steps(q)
  <2> HIDE DEF t
  <2> QED
    BY <1>1, <1>6, <1>7, StepsBecome
<1>9. ASSUME NEW d \in Jobs, Owes(p, d) PROVE Owes(p, d)' \/ Swept(d)'
  <2>1. PICK x \in Steps(p) : x.op = "children" /\ d \in x.of
    BY <1>9 DEF Owes
  <2>2. CASE x \in Later(p)
    BY <1>8, <2>1, <2>2 DEF Owes
  <2>3. CASE x = s /\ d # e
    <3>1. d \in rest
      BY <2>1, <2>3
    <3> DEFINE y == [op |-> "children", of |-> rest]
    <3>2. y \in Elems(Sweep(rest))
      BY <3>1, ElemsSweep
    <3>3. y \in Steps(p)'
      BY <1>6, <1>8, <3>2
    <3>4. y.op = "children" /\ d \in y.of
      BY <3>1
    <3> HIDE DEF y
    <3> QED
      BY <3>3, <3>4 DEF Owes
  <2>4. CASE d = e
    <3> SUFFICES ASSUME NEW c \in Jobs, Active(c)', jobs'[c].parent = e
                 PROVE  jobs'[c].cancel
      BY <2>4 DEF Swept
    <3>1. jobs'[c] = IF c \in hits(e) THEN [jobs[c] EXCEPT !.cancel = TRUE] ELSE jobs[c]
      BY <1>2 DEF RequestCancel
    <3>2. c \in hits(e)
      BY <3>1 DEF Active
    <3> QED
      BY <3>1, <3>2 DEF TypeOK, DbType, JobsType, JobRow
  <2> QED
    BY <1>8, <2>1, <2>2, <2>3, <2>4
<1> QED
  BY <1>1, <1>8, <1>9 DEF Sweeping

\* A sweep that names an ended job counts as owed.
LEMMA OwesOwed ==
    ASSUME TypeOK, NEW p \in Procs, NEW d \in Jobs, ~Active(d), Owes(p, d)
    PROVE  d \in Owed(p)
BY DEF Owes, Owed, Steps, Elems

\* A process that keeps its sweeps owes what it owed.
LEMMA KeepsOwes ==
    ASSUME NEW p \in Procs, NEW d, KeepsSweeps(p), Owes(p, d)
    PROVE  Owes(p, d)'
BY DEF KeepsSweeps, Owes, Sweeping

\* A horse that is gone leaves the callback to its worker.
LEMMA HorseSweeps ==
    ASSUME TypeOK, NEW p \in Workers, HorseDies(p) \/ StopDelivered(p)
    PROVE  /\ IsDirector(cur[p]) => Owes(p, cur[p])'
           /\ orphaned' = orphaned \cup (Owed(p) \ {cur[p]})
           /\ cur[p] \in Jobs /\ UNCHANGED jobs
           /\ \A x \in Steps(p)' : x.op = "finish" => x.job = cur[p]
           /\ \A q \in Procs \ {p} : Steps(q)' = Steps(q)
<1>0. p \in Procs
  BY DEF Procs
<1>1. cur[p] \in Jobs /\ Finishing(p, cur[p], FALSE)
  BY <1>0, HorseFinishing
<1>2. PICK s \in {"error", "cancelled"} : HorseGone(p, s)
  BY <1>0, HorseFinishing
<1> DEFINE t == CancelChildrenOf(cur[p])
           f == Finish(cur[p], s, FALSE)
<1>3. f \in Step /\ f.op = "finish"
  BY <1>1, <1>2, FinishType DEF Finish, Ended
<1>4. t \in Seq(Step) /\ IsDirector(cur[p]) => [op |-> "children", of |-> {cur[p]}] \in Elems(t)
  BY <1>1, ChildrenOfElems
<1>a. t \in Seq(Step)
  BY <1>1, ChildrenOfElems
<1>5. todo' = [todo EXCEPT ![p] = <<f>> \o t]
  BY <1>2 DEF HorseGone
<1> HIDE DEF t, f
<1>6. Steps(p)' = {f} \cup Elems(t)
  BY <1>0, <1>3, <1>a, <1>5, GivenFirst
<1>7. IsDirector(cur[p]) => Owes(p, cur[p])'
  <2> SUFFICES ASSUME IsDirector(cur[p]) PROVE Owes(p, cur[p])'
    OBVIOUS
  <2> DEFINE x == [op |-> "children", of |-> {cur[p]}]
  <2>1. x \in Steps(p)' /\ x.op = "children" /\ cur[p] \in x.of
    BY <1>4, <1>a, <1>6
  <2>2. cur'[p] = cur[p]
    BY <1>2 DEF HorseGone
  <2> HIDE DEF x
  <2> QED
    BY <2>1, <2>2 DEF Owes
<1>8. orphaned' = orphaned \cup (Owed(p) \ {cur[p]}) /\ UNCHANGED jobs
  BY <1>2 DEF HorseGone, db
<1>9. /\ \A x \in Steps(p)' : x.op = "finish" => x.job = cur[p]
      /\ \A q \in Procs \ {p} : Steps(q)' = Steps(q)
  <2>1. /\ \A x \in Steps(p)' : Trailing(x) \/ (x.op = "finish" /\ x.job = cur[p] /\ x.retry = FALSE)
        /\ \A q \in Procs \ {p} : Steps(q)' = Steps(q)
    BY <1>0, <1>1, FinishingSteps
  <2> QED
    BY <2>1 DEF Trailing
<1> QED
  BY <1>1, <1>7, <1>8, <1>9

\* History only grows.
LEMMA NextOrphans ==
    ASSUME TypeOK, Kept, [Next]_vars
    PROVE  orphaned \subseteq orphaned' 
<1>0. HeadOnly /\ HeldAlone /\ DropWaits /\ KinSteps
  BY DEF Kept, Custody
<1> USE DEF hist
<1>1. ASSUME NEW p \in Procs, StepTaken(p) PROVE UNCHANGED orphaned
  BY <1>1 DEF StepTaken, ReserveGranted, Reserve, ReserveRefused, Enqueued, EnqueueFails,
     CancelChildren, DropQueued, SendStop, ResetRows, ForceRows, FinishStepTaken, CloseRun
<1>2. ASSUME NEW p \in Procs, ProcessDies(p) PROVE orphaned \subseteq orphaned'
  BY <1>2 DEF ProcessDies
<1>3. ASSUME NEW p \in Procs, NEW T \in SUBSET Tenants, Recover(p, T) PROVE UNCHANGED orphaned
  BY <1>3 DEF Recover
<1>4. ASSUME NEW p \in Callers, CallerNext(p) PROVE UNCHANGED orphaned
  BY <1>4 DEF CallerNext, CallerStarts, BeginStart, Reserve, StopAgent, StopAll, RepairRows
<1>5. ASSUME NEW p \in Workers, WorkerNext(p) PROVE orphaned \subseteq orphaned'
  <2>1. ASSUME NEW a \in Agents, DirectorStarts(p, a) PROVE UNCHANGED orphaned
    BY <2>1 DEF DirectorStarts, BeginStart, Reserve
  <2>2. ASSUME NEW j \in Jobs, SkipJob(p, j) \/ RefuseJob(p, j) \/ ClaimJob(p, j)
        PROVE UNCHANGED orphaned
    BY <2>2 DEF SkipJob, RefuseJob, ClaimJob
  <2>3. ASSUME NEW s \in Reports, SetStatus(p, s) PROVE UNCHANGED orphaned
    BY <2>3 DEF SetStatus
  <2>4. ASSUME HorseDies(p) \/ StopDelivered(p) PROVE orphaned \subseteq orphaned'
    BY <2>4, HorseSweeps
  <2>5. ASSUME AgentReady(p) \/ AgentNotReady(p) \/ Heartbeat(p) \/ PollToken(p) \/ TimeLimit(p)
               \/ ConsumeApiCall(p) \/ AgentReturns(p) \/ AgentRaises(p) \/ LeaveJob(p)
        PROVE  UNCHANGED orphaned
    BY <2>5 DEF AgentReady, AgentNotReady, Heartbeat, PollToken, TimeLimit, ConsumeApiCall,
       AgentReturns, AgentRaises, LeaveJob
  <2> QED
    BY <1>5, <2>1, <2>2, <2>3, <2>4, <2>5 DEF WorkerNext
<1>6. ASSUME NEW j \in Jobs, RqLoses(j) \/ Age(j) PROVE UNCHANGED orphaned
  BY <1>6 DEF RqLoses, Age
<1>7. CASE UNCHANGED vars
  BY <1>7 DEF vars
<1>10. CASE \E p \in Procs : StepTaken(p) \/ ProcessDies(p)
  BY <1>1, <1>2, <1>10
<1>11. CASE \E p \in Procs, T \in SUBSET Tenants : Recover(p, T)
  BY <1>3, <1>11
<1>12. CASE \E p \in Callers : CallerNext(p)
  BY <1>4, <1>12
<1>13. CASE \E p \in Workers : WorkerNext(p)
  BY <1>5, <1>13
<1> QED
  BY <1>6, <1>7, <1>10, <1>11, <1>12, <1>13 DEF Next

\* What the children of an ended Director are owed is kept, made, or lost with its holder.
LEMMA OwesStep ==
    ASSUME TypeOK, Kept, [Next]_vars, NEW d \in Jobs, ~Active(d), IsDirector(d),
           NEW p \in Procs, Owes(p, d)
    PROVE  Owes(p, d)' \/ Swept(d)' \/ d \in orphaned'
<1>0. HeadOnly
  BY DEF Kept, Custody
<1>1. CASE \A q \in Procs : KeepsSweeps(q)
  BY <1>1, KeepsOwes
<1>2. ASSUME NEW q \in Procs, CancelChildren(q) PROVE Owes(p, d)' \/ Swept(d)'
  <2>1. CASE q = p
    BY <1>2, <2>1, CancelSweeps
  <2>2. CASE q # p
    BY <1>2, <2>2, CancelSweeps DEF Owes
  <2> QED
    BY <2>1, <2>2
<1>3. ASSUME NEW q \in Procs, ProcessDies(q) PROVE Owes(p, d)' \/ d \in orphaned'
  <2>1. CASE q = p
    BY <1>3, <2>1, OwesOwed DEF ProcessDies
  <2>2. CASE q # p
    BY <1>3, <2>2 DEF ProcessDies, Owes, Steps, TypeOK, TodoType
  <2> QED
    BY <2>1, <2>2
<1>4. ASSUME NEW q \in Workers, HorseDies(q) \/ StopDelivered(q) PROVE Owes(p, d)' \/ d \in orphaned'
  <2>1. CASE q = p
    <3>1. d \in Owed(p)
      BY OwesOwed
    <3>2. CASE d = cur[p]
      <4>1. Owes(p, cur[p])'
        BY <1>4, <2>1, <3>2, HorseSweeps
      <4>2. cur'[p] = cur[p]
        BY <1>4, <2>1 DEF HorseDies, StopDelivered, HorseGone
      <4> QED
        BY <3>2, <4>1, <4>2 DEF Owes
    <3>3. CASE d # cur[p]
      BY <1>4, <2>1, <3>1, <3>3, HorseSweeps
    <3> QED
      BY <3>2, <3>3
  <2>2. CASE q # p
    BY <1>4, <2>2, HorseSweeps DEF Owes
  <2> QED
    BY <2>1, <2>2
<1> QED
  BY <1>0, <1>1, <1>2, <1>3, <1>4, NextKeeps

\* Only a claim, of a job RQ holds, makes a job run.
LEMMA NextRuns ==
    ASSUME TypeOK, Kept, [Next]_vars, NEW j \in Jobs,
           jobs'[j].status = "running", jobs[j].status # "running"
    PROVE  j \in rq
<1>0. HeadOnly /\ HeldAlone /\ DropWaits /\ KinSteps
  BY DEF Kept, Custody
<1>1. ~Still
  BY DEF Still, SameLives
<1>2. ASSUME NEW p \in Procs, Reserving(p) PROVE FALSE
  BY <1>2 DEF Reserving, Reserve, JobWith, TypeOK, DbType, JobsType
<1>3. ASSUME NEW p \in Procs, Enqueued(p) \/ EnqueueFails(p) \/ ProcessDies(p) PROVE FALSE
  BY <1>3 DEF Enqueued, EnqueueFails, ProcessDies, db
<1>4. ASSUME NEW p \in Workers, WorkerMoving(p) PROVE j \in rq
  <2>1. PICK k \in Jobs : ClaimJob(p, k)
    BY <1>4 DEF WorkerMoving, RefuseJob, AgentNotReady, AgentReturns, AgentRaises, LeaveJob,
       HorseDies, StopDelivered, HorseGone, db
  <2>2. k = j
    BY <2>1 DEF ClaimJob, TypeOK, DbType, JobsType
  <2> QED
    BY <2>1, <2>2 DEF ClaimJob, Take
<1> QED
  BY <1>0, <1>1, <1>2, <1>3, <1>4, NextStill

\* A finish_job that a step adds: its job does not run, or its children come next.
LEMMA NewFinish ==
    ASSUME TypeOK, Kept, [Next]_vars, NEW p \in Procs, NEW s \in Steps(p)', s \notin Steps(p),
           s.op = "finish", s.as \in {"error", "cancelled"}, IsDirector(s.job)
    PROVE  jobs'[s.job].status # "running" \/ Owes(p, s.job)'
<1>0. HeadOnly /\ HeldAlone /\ DropWaits /\ KinSteps /\ EnqueueAlone
  BY DEF Kept, Custody
<1>1. ~Still
  BY DEF Still, MildSteps, Mild
<1>2. ASSUME NEW q \in Procs, Reserving(q) PROVE FALSE
  <2>1. PICK a \in Agents, r \in Jobs \cup {NoJob}, rest \in Seq(Step) :
          Reserve(q, a, r, rest) /\ Elems(rest) \subseteq Later(q)
    BY <1>2 DEF Reserving
  <2>2. PICK j \in Jobs : todo' = [todo EXCEPT ![q] = <<[op |-> "enqueue", job |-> j]>> \o rest]
    BY <2>1 DEF Reserve
  <2> DEFINE e == [op |-> "enqueue", job |-> j]
  <2>3. e \in Step /\ e.op = "enqueue"
    BY DEF Step, EnqueueStep
  <2> HIDE DEF e
  <2>4. todo' = [todo EXCEPT ![q] = <<e>> \o rest]
    BY <2>2 DEF e
  <2>5. Later(q) \subseteq Steps(q)
    BY DEF Later, Steps, Elems, TypeOK, TodoType
  <2> QED
    BY <2>1, <2>3, <2>4, <2>5, GivenFirst
<1>3. ASSUME NEW q \in Procs, Enqueued(q) PROVE FALSE
  <2>1. todo[q] # <<>> /\ Becomes(q, <<>>)
    BY <1>3 DEF Enqueued, At
  <2> QED
    BY <2>1, StepsBecome, ElemsNone, EmptySeq
<1>4. ASSUME NEW q \in Procs, EnqueueFails(q) PROVE jobs'[s.job].status # "running"
  <2>1. todo[q] # <<>> /\ Head(todo[q]) \in EnqueueStep
    BY <1>4, HeadKind DEF EnqueueFails, At
  <2>2. PICK j \in Jobs : Head(todo[q]) = [op |-> "enqueue", job |-> j]
    BY <2>1 DEF EnqueueStep
  <2> DEFINE f == Finish(j, "error", TRUE)
  <2>3. f \in Step /\ f.job = j /\ <<f>> \in Seq(Step) /\ Elems(<<f>>) = {f}
    BY FinishType, ElemsOne DEF Finish, Ended
  <2>4. Head(todo[q]).job = j
    BY <2>2
  <2>5. Becomes(q, <<f>>)
    BY <1>4, <2>4 DEF EnqueueFails
  <2> HIDE DEF f
  <2>6. /\ Steps(q)' = {f} \cup Later(q) /\ Steps(q) = {Head(todo[q])} \cup Later(q)
        /\ \A r \in Procs \ {q} : Steps(r)' = Steps(r)
    BY <2>1, <2>3, <2>5, StepsBecome
  <2>7. s = f
    BY <2>6
  <2>8. Enqueuing(q, j)
    BY <2>2, <2>6 DEF Enqueuing
  <2>9. Waiting(j)
    BY <1>0, <2>8 DEF EnqueueAlone
  <2> QED
    BY <1>4, <2>3, <2>7, <2>9 DEF EnqueueFails, db, Waiting
<1>5. ASSUME NEW q \in Procs, ProcessDies(q) PROVE FALSE
  <2>1. todo'[q] = <<>> /\ \A r \in Procs \ {q} : todo'[r] = todo[r]
    BY <1>5 DEF ProcessDies, TypeOK, TodoType
  <2>2. Steps(q)' = {}
    BY <2>1, ElemsNone DEF Steps
  <2> QED
    BY <2>1, <2>2 DEF Steps
<1>6. ASSUME NEW q \in Workers, WorkerMoving(q)
      PROVE  jobs'[s.job].status # "running" \/ Owes(p, s.job)'
  <2>0. q \in Procs
    BY DEF Procs
  <2>1. CASE UNCHANGED todo
    BY <2>1 DEF Steps
  <2>2. ASSUME NEW j \in Jobs, RefuseJob(q, j) PROVE jobs'[s.job].status # "running"
    <3>1. Finishing(q, j, TRUE) /\ UNCHANGED jobs /\ jobs[j].status = "queued"
      BY <2>2, RefuseFirst DEF RefuseJob, Claimable, db
    <3>2. /\ \A x \in Steps(q)' : Trailing(x) \/ (x.op = "finish" /\ x.job = j /\ x.retry = TRUE)
          /\ \A r \in Procs \ {q} : Steps(r)' = Steps(r)
      BY <2>0, <3>1, FinishingSteps
    <3>3. s.job = j
      BY <3>2 DEF Trailing
    <3> QED
      BY <3>1, <3>3
  <2>3. ASSUME AgentNotReady(q) \/ AgentReturns(q) \/ AgentRaises(q) PROVE Owes(p, s.job)'
    <3>1. cur[q] \in Jobs
      BY <2>0, <2>3, ReturnFinishing
    <3>2. PICK as \in Ended, raised \in BOOLEAN : Leaving(q, ExitSteps(cur[q], as, raised))
      BY <2>0, <2>3, ReturnFinishing
    <3>3. PICK t \in Seq(Step) :
             /\ ExitSteps(cur[q], as, raised) = <<Finish(cur[q], as, TRUE)>> \o t
             /\ \A x \in Elems(t) : Trailing(x)
             /\ IsDirector(cur[q]) /\ as \in {"error", "cancelled"} =>
                  [op |-> "children", of |-> {cur[q]}] \in Elems(t)
      BY <3>1, ExitFirst
    <3> DEFINE f == Finish(cur[q], as, TRUE)
    <3>4. f \in Step /\ f.job = cur[q] /\ f.as = as
      BY <3>1, FinishType DEF Finish
    <3>5. todo' = [todo EXCEPT ![q] = <<f>> \o t]
      BY <3>2, <3>3 DEF Leaving
    <3> HIDE DEF f
    <3>6. /\ Steps(q)' = {f} \cup Elems(t)
          /\ \A r \in Procs \ {q} : Steps(r)' = Steps(r)
      BY <2>0, <3>4, <3>5, GivenFirst
    <3>7. p = q /\ s = f
      BY <3>3, <3>6 DEF Trailing
    <3> DEFINE x == [op |-> "children", of |-> {cur[q]}]
    <3>8. x \in Steps(q)' /\ x.op = "children" /\ s.job \in x.of
      BY <3>3, <3>4, <3>6, <3>7
    <3> HIDE DEF x
    <3> QED
      BY <3>7, <3>8 DEF Owes
  <2>4. ASSUME HorseDies(q) \/ StopDelivered(q) PROVE Owes(p, s.job)'
    <3>1. /\ IsDirector(cur[q]) => Owes(q, cur[q])'
          /\ \A x \in Steps(q)' : x.op = "finish" => x.job = cur[q]
          /\ \A r \in Procs \ {q} : Steps(r)' = Steps(r)
      BY <2>4, HorseSweeps
    <3>2. p = q /\ s.job = cur[q] /\ cur'[q] = cur[q]
      BY <2>4, <3>1 DEF HorseDies, StopDelivered, HorseGone
    <3> QED
      BY <3>1, <3>2 DEF Owes
  <2>5. (\E j \in Jobs : ClaimJob(q, j)) \/ LeaveJob(q) => UNCHANGED todo
    BY DEF ClaimJob, LeaveJob
  <2> QED
    BY <1>6, <2>1, <2>2, <2>3, <2>4, <2>5 DEF WorkerMoving
<1> QED
  BY <1>0, <1>1, <1>2, <1>3, <1>4, <1>5, <1>6, NextStill

\* A finish_job to take and the sweep behind it stay together.
LEMMA SweepStep ==
    ASSUME TypeOK, TypeOK', Kept, FinishThenSweep, [Next]_vars
    PROVE  FinishThenSweep'
<1> SUFFICES ASSUME NEW p \in Procs, NEW s \in Steps(p)', s.op = "finish",
                    s.as \in {"error", "cancelled"}, IsDirector(s.job)',
                    s.job \notin unsure', jobs'[s.job].status = "running"
             PROVE  Owes(p, s.job)'
  BY DEF FinishThenSweep
<1>0. HeadOnly /\ HeldAlone /\ QueuedAlone /\ FinishOwned /\ KinSteps
  BY DEF Kept, Custody
<1>1. s.job \in Jobs
  <2>1. s \in Step
    BY DEF Steps, Elems, TypeOK, TodoType
  <2> QED
    BY <2>1 DEF Step, FinishStep, CloseStep, ChildrenStep, SignalStep, ResetStep,
       ReserveStep, EnqueueStep
<1>2. IsDirector(s.job)
  <2>1. ASSUME BornAs(s.job) PROVE FALSE
    BY <2>1 DEF BornAs, JobWith
  <2> QED
    BY <1>0, <1>1, <2>1, JobsGoOn DEF GoesOn, IsDirector
<1>3. CASE s \notin Steps(p)
  BY <1>2, <1>3, NewFinish
<1>4. CASE s \in Steps(p)
  <2>1. s.job \notin unsure
    BY NextDies
  <2>2. jobs[s.job].status = "running"
    <3> SUFFICES ASSUME jobs[s.job].status # "running" PROVE FALSE
      OBVIOUS
    <3>1. s.job \in rq
      BY <1>1, NextRuns
    <3>2. cur[p] # s.job /\ ~Unheld(s.job)
      BY <1>0, <3>1 DEF QueuedAlone, Unheld
    <3> QED
      BY <1>0, <1>4, <2>1, <3>2 DEF FinishOwned
  <2>3. Owes(p, s.job)
    BY <1>2, <1>4, <2>1, <2>2 DEF FinishThenSweep
  <2>4. CASE \A q \in Procs : KeepsSweeps(q)
    BY <2>3, <2>4, KeepsOwes
  <2>5. ASSUME NEW q \in Procs, CancelChildren(q) PROVE Owes(p, s.job)'
    <3>1. CASE q # p
      BY <2>3, <2>5, <3>1, CancelSweeps DEF Owes
    <3>2. CASE q = p
      <4>1. s \in Later(p)
        BY <1>4, <2>5, <3>2, CancelSweeps DEF Sweeping
      <4> QED
        BY <1>0, <4>1 DEF HeadOnly
    <3> QED
      BY <3>1, <3>2
  <2>6. ASSUME NEW q \in Procs, ProcessDies(q) PROVE Owes(p, s.job)'
    <3>1. todo'[q] = <<>> /\ \A r \in Procs \ {q} : todo'[r] = todo[r]
      BY <2>6 DEF ProcessDies, TypeOK, TodoType
    <3>2. Steps(q)' = {}
      BY <3>1, ElemsNone DEF Steps
    <3> QED
      BY <2>3, <3>1, <3>2 DEF Owes, Steps
  <2>7. ASSUME NEW q \in Workers, HorseDies(q) \/ StopDelivered(q) PROVE Owes(p, s.job)'
    <3>1. /\ IsDirector(cur[q]) => Owes(q, cur[q])'
          /\ \A x \in Steps(q)' : x.op = "finish" => x.job = cur[q]
          /\ \A r \in Procs \ {q} : Steps(r)' = Steps(r)
      BY <2>7, HorseSweeps
    <3>2. CASE q # p
      BY <2>3, <3>1, <3>2 DEF Owes
    <3>3. CASE q = p
      <4>1. s.job = cur[q] /\ cur'[q] = cur[q]
        BY <2>7, <3>1, <3>3 DEF HorseDies, StopDelivered, HorseGone
      <4> QED
        BY <1>2, <3>1, <3>3, <4>1 DEF Owes
    <3> QED
      BY <3>2, <3>3
  <2> QED
    BY <1>0, <2>4, <2>5, <2>6, <2>7, NextKeeps
<1> QED
  BY <1>3, <1>4

\* A Director ends with its children asked to stop, or owed that request.
LEMMA EndSweeps ==
    ASSUME TypeOK, Kept, FinishThenSweep, [Next]_vars, NEW d \in Jobs,
           Active(d), jobs'[d].status \in {"error", "cancelled"}, IsDirector(d),
           d \notin unsure
    PROVE  Swept(d)' \/ \E p \in Procs : Owes(p, d)'
<1>0. KinJobs /\ KinSteps /\ Custody
  BY DEF Kept
<1>1. jobs'[d].status \in Ended
  BY DEF Ended
<1>2. PICK p \in Procs : \/ Expiring(p)
                         \/ FinishStepTaken(p) /\ Head(todo[p]).job = d
                         \/ DropQueued(p) /\ d \in Head(todo[p]).drop
  BY <1>1, NextEnds
<1>3. jobs[d].status # "running" => Swept(d)'
  <2>1. jobs[d].status # "running" => jobs[d].status = "queued"
    BY DEF Active, Live
  <2> QED
    BY <1>0, <2>1, QueuedSwept, SweptStep
<1>4. CASE Expiring(p)
  <2>1. PICK T \in SUBSET Tenants, s \in Seq(Step) :
          /\ Expire(Expired(T))
          /\ todo' = [todo EXCEPT ![p] = Sweep(ExpiredDirectors(T)) \o s]
    BY <1>4 DEF Expiring
  <2>2. d \in Expired(T)
    <3>1. jobs'[d] = IF d \in Expired(T) THEN ExpiredJob(jobs[d]) ELSE jobs[d]
      BY <2>1 DEF Expire, ExpireJobs
    <3> QED
      BY <1>1, <3>1 DEF Active, Live, Ended
  <2> DEFINE D == ExpiredDirectors(T)
             x == [op |-> "children", of |-> D]
             t == Sweep(D) \o s
  <2>3. D \in SUBSET Jobs /\ d \in D
    BY <2>2 DEF ExpiredDirectors, Expired
  <2>4. todo' = [todo EXCEPT ![p] = t]
    BY <2>1
  <2> HIDE DEF D
  <2>5. Sweep(D) \in Seq(Step) /\ x \in Elems(Sweep(D)) /\ x.op = "children" /\ d \in x.of
    BY <2>3, SweepType, ElemsSweep
  <2> HIDE DEF x
  <2>6. t \in Seq(Step) /\ x \in Elems(t)
    BY <2>5, ElemsConcat, ConcatProperties
  <2> HIDE DEF t
  <2>7. x \in Steps(p)'
    BY <2>4, <2>6, StepsGiven
  <2> QED
    BY <2>5, <2>7 DEF Owes
<1>5. CASE FinishStepTaken(p) /\ Head(todo[p]).job = d
  <2> SUFFICES ASSUME jobs[d].status = "running" PROVE Owes(p, d)'
    BY <1>3
  <2> DEFINE s == Head(todo[p])
  <2>1. s.op = "finish" /\ s.job = d /\ s \in FinishStep /\ todo[p] # <<>>
    BY <1>5, HeadKind DEF FinishStepTaken, At
  <2>2. s \in Steps(p)
    BY <2>1, StepsSplit
  <2>3. s.as \in {"error", "cancelled"}
    <3>1. FinishJob(d, s.as, s.retry) /\ MayFinish(d)
      BY <1>5, <2>1 DEF FinishStepTaken, MayFinish
    <3>2. jobs'[d].status = s.as
      BY <3>1 DEF FinishJob, TypeOK, DbType, JobsType, JobRow
    <3> QED
      BY <3>2
  <2>4. Owes(p, d)
    BY <2>1, <2>2, <2>3 DEF FinishThenSweep
  <2>5. KeepsSweeps(p)
    <3>1. StepTaken(p) /\ ~CancelChildren(p)
      BY <1>5, <2>1 DEF StepTaken, CancelChildren, At
    <3> QED
      BY <3>1, StepTakenKeeps
  <2> QED
    BY <2>4, <2>5, KeepsOwes
<1>6. CASE DropQueued(p) /\ d \in Head(todo[p]).drop
  <2>1. Head(todo[p]) \in Steps(p) /\ Head(todo[p]).op = "signal"
    BY <1>6, StepsSplit DEF DropQueued, At
  <2>2. Waiting(d)
    BY <1>0, <1>6, <2>1 DEF Custody, DropWaits
  <2> QED
    BY <1>3, <2>2 DEF Waiting
<1> QED
  BY <1>2, <1>4, <1>5, <1>6

\* Every step keeps an ended batch swept, owed its sweep, orphaned or unsure.
LEMMA BatchStep ==
    ASSUME TypeOK, Kept, FinishThenSweep, BatchSwept, [Next]_vars
    PROVE  BatchSwept'
<1> SUFFICES ASSUME NEW d \in Jobs, jobs'[d].status \in {"error", "cancelled"},
                    IsDirector(d)', d \notin orphaned' \cup unsure'
             PROVE  Swept(d)' \/ \E p \in Procs : Owes(p, d)'
  BY DEF BatchSwept
<1>0. KinSteps /\ KinJobs
  BY DEF Kept
<1>1. d \notin orphaned /\ d \notin unsure
  BY NextOrphans, NextDies
<1>2. jobs[d].status # "free" /\ GoesOn(d)
  <2>1. ASSUME BornAs(d) PROVE FALSE
    BY <2>1 DEF BornAs, JobWith
  <2> QED
    BY <1>0, <2>1, JobsGoOn
<1>3. IsDirector(d)
  BY <1>2 DEF GoesOn, IsDirector
<1>4. CASE Active(d)
  BY <1>1, <1>3, <1>4, EndSweeps
<1>5. CASE ~Active(d)
  <2>1. jobs[d].status \in Ended
    BY <1>2, <1>5 DEF Active, TypeOK, DbType, JobsType, JobRow
  <2>2. jobs[d].status \in {"error", "cancelled"} /\ jobs[d].status # "running"
    BY <2>1, NextMove DEF Final, Ended
  <2>3. Swept(d) \/ \E p \in Procs : Owes(p, d)
    BY <1>1, <1>3, <2>2 DEF BatchSwept
  <2>4. Swept(d) => Swept(d)'
    BY <1>0, <2>2, SweptStep
  <2> QED
    BY <1>3, <1>5, <2>3, <2>4, OwesStep
<1> QED
  BY <1>4, <1>5

\* An ended batch is swept, or some process has its sweep still to make, behind the
\* finish_job that ended its Director (execute_job, job_failed, recover_expired_jobs).
THEOREM BatchesSwept == Spec => [](FinishThenSweep /\ BatchSwept)
<1>1. Init => FinishThenSweep /\ BatchSwept
  <2> SUFFICES ASSUME Init PROVE FinishThenSweep /\ BatchSwept
    OBVIOUS
  <2>1. \A p \in Procs : Steps(p) = {}
    BY ElemsNone DEF Init, Steps
  <2> QED
    BY <2>1 DEF Init, FinishThenSweep, BatchSwept, JobWith
<1>2. TypeOK /\ TypeOK' /\ Kept /\ FinishThenSweep /\ BatchSwept /\ [Next]_vars
        => (FinishThenSweep /\ BatchSwept)'
  BY SweepStep, BatchStep
<1> QED
  BY <1>1, <1>2, CustodyKept, TypeCorrect, PTL DEF Spec

\* A cancelled batch stays cancelled: the children of a Director that ended in error or
\* cancelled are asked to stop, unless the process that owed it is lost.
THEOREM ChildrenAreCancelled == Spec => []ChildrenCancelled
<1>1. TypeOK /\ BatchSwept => ChildrenCancelled
  <2> SUFFICES ASSUME TypeOK, BatchSwept, NEW d \in Jobs,
                      jobs[d].status \in {"error", "cancelled"}, IsDirector(d),
                      d \notin orphaned \cup unsure
               PROVE  \/ \E p \in Procs : d \in Owed(p)
                      \/ \A c \in Jobs : Active(c) /\ jobs[c].parent = d => jobs[c].cancel
    BY DEF ChildrenCancelled
  <2>1. ~Active(d)
    BY DEF Active, Live
  <2> QED
    BY <2>1, OwesOwed DEF BatchSwept, Swept
<1> QED
  BY <1>1, BatchesSwept, TypeCorrect, PTL

=============================================================================
