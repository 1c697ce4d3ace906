------------------------------ MODULE Scheduler ------------------------------
(***************************************************************************)
(* The daily schedule of a client, denzo/scheduler.py.  A scheduler        *)
(* process looks every thirty seconds for schedules that are due, claims   *)
(* them by moving their time a lease ahead, runs them, and writes down     *)
(* what came of it; a person turns the schedule on and off meanwhile.  A   *)
(* process takes the time once, at the beginning of its tick, and writes   *)
(* the hour and the failures it read when it claimed: both may be old by   *)
(* then.  Two processes run side by side during a restart.                 *)
(*                                                                         *)
(* One schedule is modelled: the others share nothing with it but the time *)
(* their runs take.  Times are counted from now, so that a due schedule    *)
(* has due <= 0.                                                           *)
(***************************************************************************)
EXTENDS Integers

CONSTANTS Procs,       \* scheduler processes
          Day,         \* hours of a day
          Lease,       \* hours a claim keeps the schedule to itself
          MaxAge,      \* bound: no tick takes longer than this
          MaxCrashes,  \* bound: ticks that die
          MaxChanges   \* bound: changes a person makes

ASSUME SchedulerAssumption ==
  /\ Day \in Nat \ {0}
  /\ Lease \in Nat \ {0}
  /\ MaxAge \in Nat
  /\ MaxCrashes \in Nat
  /\ MaxChanges \in Nat

VARIABLES sched,   \* the row of the table schedules
          clock,   \* the hour of the day
          procs,   \* the tick of each process
          errors,  \* history: errors in a row since a person changed the
                   \* schedule, or a tick wrote over a row it had not read
          left     \* crashes and changes still allowed

vars == <<sched, clock, procs, errors, left>>

Never == Day + Lease + 1   \* NULL: later than any time a schedule can have
Hours == 0..Day - 1
Results == {"done", "busy", "error", "blocked"}
Tick == [at : {"idle", "begun", "claimed"}, age : 0..MaxAge,
         hour : Hours, streak : 0..3, broken : BOOLEAN, current : BOOLEAN]
NoTick == [at |-> "idle", age |-> 0, hour |-> 0, streak |-> 0,
           broken |-> FALSE, current |-> FALSE]

TypeOK ==
  /\ sched \in [enabled : BOOLEAN, hour : Hours, streak : 0..3,
                due : Int]
  /\ clock \in Hours
  /\ procs \in [Procs -> Tick]
  /\ errors \in 0..3
  /\ left \in [crashes : 0..MaxCrashes, changes : 0..MaxChanges]

\* The ticks as history sees them after a write to the row: `current` says that
\* nobody wrote since the tick claimed, `broken` that its lease was overridden:
\* by a person, or by a tick whose own lease had ended.
Overtaken(breaks) ==
  [p \in Procs |-> IF procs[p].at # "claimed" THEN procs[p]
     ELSE [procs[p] EXCEPT !.current = FALSE, !.broken = @ \/ breaks]]

\* Hours from the hour `at` to the next time it is `hour`; never zero.
NextDaily(at, hour) == ((hour - at - 1) % Day) + 1

Init ==
  /\ sched = [enabled |-> FALSE, hour |-> 0, streak |-> 0, due |-> Never]
  /\ clock = 0
  /\ procs = [p \in Procs |-> NoTick]
  /\ errors = 0
  /\ left = [crashes |-> MaxCrashes, changes |-> MaxChanges]

\* A person turns the schedule on at an hour, or off.
Configure(on, hour) ==
  /\ left.changes > 0
  /\ left' = [left EXCEPT !.changes = @ - 1]
  /\ sched' = [enabled |-> on, hour |-> hour, streak |-> 0,
               due |-> IF on THEN NextDaily(clock, hour) ELSE Never]
  /\ procs' = Overtaken(TRUE)
  /\ errors' = 0
  /\ UNCHANGED clock

\* A tick begins: the time is taken, then jobs and publications are recovered.
Begin(p) ==
  /\ procs[p].at = "idle"
  /\ procs' = [procs EXCEPT ![p] = [NoTick EXCEPT !.at = "begun"]]
  /\ UNCHANGED <<sched, clock, errors, left>>

IsDue(p) == sched.enabled /\ sched.due <= -procs[p].age

NotLeased(p) == sched                                    \* mutant
LeasedForGood(p) == [sched EXCEPT !.due = Never]         \* mutant

Leased(p) == [sched EXCEPT !.due = Lease - procs[p].age]

\* One transaction finds the schedule due, claims it and remembers its row.
Claim(p) ==
  /\ procs[p].at = "begun"
  /\ IsDue(p)
  /\ sched' = Leased(p)
  /\ procs' = [Overtaken(FALSE) EXCEPT ![p].at = "claimed", ![p].hour = sched.hour,
        ![p].streak = sched.streak, ![p].current = TRUE]
  /\ UNCHANGED <<clock, errors, left>>

NothingDue(p) ==
  /\ procs[p].at = "begun"
  /\ ~IsDue(p)
  /\ procs' = [procs EXCEPT ![p] = NoTick]
  /\ UNCHANGED <<sched, clock, errors, left>>

FailuresEver(p, result) ==                               \* mutant
  IF result = "error" THEN procs[p].streak + 1 ELSE procs[p].streak

Failures(p, result) == IF result = "error" THEN procs[p].streak + 1 ELSE 0

Upcoming(p, result) ==
  (IF result \in {"busy", "error"} THEN Lease
   ELSE NextDaily((clock - procs[p].age) % Day, procs[p].hour)) - procs[p].age

Late(p) == procs[p].broken \/ procs[p].age >= Lease

WrittenLate(p, result) ==                                \* mutant
  LET paused == result = "blocked" \/ Failures(p, result) > 3 IN
  IF ~sched.enabled THEN sched
  ELSE [sched EXCEPT !.enabled = ~paused, !.streak = Failures(p, result),
                     !.due = IF paused THEN Never ELSE Upcoming(p, result)]

\* UPDATE ... WHERE tenant_id=? AND enabled=1
Written(p, result) ==
  LET paused == result = "blocked" \/ Failures(p, result) >= 3 IN
  IF ~sched.enabled THEN sched
  ELSE [sched EXCEPT !.enabled = ~paused, !.streak = Failures(p, result),
                     !.due = IF paused THEN Never ELSE Upcoming(p, result)]

\* The run of the claimed schedule ends and its result is written.
Record(p, result) ==
  /\ procs[p].at = "claimed"
  /\ sched' = Written(p, result)
  /\ errors' = IF result # "error" THEN 0
               ELSE IF procs[p].current /\ errors < 3 THEN errors + 1
               ELSE Failures(p, result)
  /\ procs' = [Overtaken(Late(p)) EXCEPT ![p] = NoTick]
  /\ UNCHANGED <<clock, left>>

\* The process dies, or an exception leaves the tick.
Crash(p) ==
  /\ procs[p].at # "idle"
  /\ left.crashes > 0
  /\ left' = [left EXCEPT !.crashes = @ - 1]
  /\ procs' = [procs EXCEPT ![p] = NoTick]
  /\ UNCHANGED <<sched, clock, errors>>

\* An hour passes.  How long ago a schedule fell due matters up to MaxAge.
Time ==
  /\ \A p \in Procs : procs[p].at # "idle" => procs[p].age < MaxAge
  /\ clock' = (clock + 1) % Day
  /\ sched' = [sched EXCEPT !.due =
       IF @ = Never \/ @ <= -MaxAge - 1 THEN @ ELSE @ - 1]
  /\ procs' = [p \in Procs |-> IF procs[p].at = "idle" THEN procs[p]
                               ELSE [procs[p] EXCEPT !.age = @ + 1]]
  /\ UNCHANGED <<errors, left>>

Work(p) == Begin(p) \/ Claim(p) \/ NothingDue(p) \/ \E r \in Results : Record(p, r)

Next ==
  \/ \E p \in Procs : Work(p) \/ Crash(p)
  \/ \E on \in BOOLEAN, hour \in Hours : Configure(on, hour)
  \/ Time

Spec == Init /\ [][Next]_vars

(* The loop of main() goes on after any exception, and systemd restarts the *)
(* process; time passes.                                                   *)
Fairness == WF_vars(Time) /\ \A p \in Procs : WF_vars(Work(p))

LiveSpec == Spec /\ Fairness

-----------------------------------------------------------------------------
\* No tick turns on a schedule that a person turned off while it ran: only a
\* change by a person enables one (the condition of the last UPDATE of tick).
DisabledStays ==
  [][~sched.enabled /\ sched'.enabled => left'.changes < left.changes]_vars

\* Two processes run the same schedule only when one of them took longer than
\* its lease, or wrote or was written to by a change of a person or a late tick
\* (the comment on the lease in tick).
ClaimIsExclusive ==
  \A p, q \in Procs :
     (p # q /\ procs[p].at = "claimed" /\ procs[q].at = "claimed")
        => Late(p) \/ Late(q)

\* A tick turns a schedule off only for a failure that needs a person, or at
\* the third error in a row that anybody counted (failures and paused in tick).
PausedForCause ==
  [][(sched.enabled /\ ~sched'.enabled /\ left' = left)
       => \/ errors' = 3
          \/ \E p \in Procs : Record(p, "blocked")]_vars

\* A schedule that is on is claimed again, or turned off, whatever ticks die.
EnabledReturns ==
  sched.enabled ~> (~sched.enabled \/ \E p \in Procs : procs[p].at = "claimed")
=============================================================================
