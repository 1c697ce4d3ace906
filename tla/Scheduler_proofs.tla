--------------------------- MODULE Scheduler_proofs ---------------------------
(***************************************************************************)
(* Theorems about Scheduler, for any number of scheduler processes, any    *)
(* length of the lease and any number of crashes and changes.              *)
(***************************************************************************)
EXTENDS Scheduler, TLAPS

-----------------------------------------------------------------------------
(* The inductive invariant.  What the type says of `streak` needs the two  *)
(* facts that a schedule which is on, and a tick that runs one, have seen  *)
(* at most two errors.                                                     *)

AtMostTwo ==
  /\ sched.enabled => sched.streak <= 2
  /\ \A p \in Procs : procs[p].streak <= 2

\* While a tick is not late, its lease keeps the schedule from being due.
LeaseHeld ==
  \A p \in Procs : procs[p].at = "claimed" /\ ~Late(p) /\ sched.enabled
                      => sched.due >= Lease - procs[p].age

\* The errors written in the row are those that were counted.
ErrorsCounted ==
  /\ sched.enabled => errors = sched.streak
  /\ \A p \in Procs : procs[p].at = "claimed" /\ procs[p].current
                         => errors = procs[p].streak

IInv == TypeOK /\ AtMostTwo /\ LeaseHeld /\ ClaimIsExclusive /\ ErrorsCounted

-----------------------------------------------------------------------------
(* Operators.                                                              *)

LEMMA NextDailyType ==
  ASSUME NEW at \in Int, NEW hour \in Int
  PROVE  NextDaily(at, hour) \in 1..Day
BY SchedulerAssumption, SMT DEF NextDaily

LEMMA ClockType ==
  ASSUME NEW n \in Int
  PROVE  n % Day \in Hours
BY SchedulerAssumption, SMT DEF Hours

LEMMA NoTickType == NoTick \in Tick
BY SchedulerAssumption DEF NoTick, Tick, Hours

\* Whoever has claimed has claimed before, and keeps its place, hour and age.
LEMMA OvertakenKeeps ==
  ASSUME TypeOK, NEW breaks \in BOOLEAN
  PROVE  /\ Overtaken(breaks) \in [Procs -> Tick]
         /\ \A p \in Procs :
              /\ Overtaken(breaks)[p].at = procs[p].at
              /\ Overtaken(breaks)[p].age = procs[p].age
              /\ Overtaken(breaks)[p].streak = procs[p].streak
              /\ procs[p].at = "claimed" =>
                   /\ Overtaken(breaks)[p].broken = (procs[p].broken \/ breaks)
                   /\ Overtaken(breaks)[p].current = FALSE
<1>1. SUFFICES ASSUME NEW p \in Procs
               PROVE  /\ Overtaken(breaks)[p] \in Tick
                      /\ Overtaken(breaks)[p].at = procs[p].at
                      /\ Overtaken(breaks)[p].age = procs[p].age
                      /\ Overtaken(breaks)[p].streak = procs[p].streak
                      /\ procs[p].at = "claimed" =>
                           /\ Overtaken(breaks)[p].broken = (procs[p].broken \/ breaks)
                           /\ Overtaken(breaks)[p].current = FALSE
  BY DEF Overtaken
<1>2. procs[p] \in Tick
  BY DEF TypeOK
<1>3. CASE procs[p].at # "claimed"
  BY <1>2, <1>3 DEF Overtaken
<1>4. CASE procs[p].at = "claimed"
  <2>1. PICK b \in BOOLEAN : b = (procs[p].broken \/ breaks)
    OBVIOUS
  <2>2. Overtaken(breaks)[p] = [procs[p] EXCEPT !.current = FALSE, !.broken = b]
    BY <1>4, <2>1, Zenon DEF Overtaken
  <2>3. /\ Overtaken(breaks)[p] \in Tick
        /\ Overtaken(breaks)[p].at = procs[p].at
        /\ Overtaken(breaks)[p].age = procs[p].age
        /\ Overtaken(breaks)[p].streak = procs[p].streak
        /\ Overtaken(breaks)[p].broken = b
        /\ Overtaken(breaks)[p].current = FALSE
    BY <1>2, <2>2 DEF Tick
  <2>. QED
    BY <2>1, <2>3, Zenon
<1>. QED
  BY <1>3, <1>4

LEMMA UpcomingType ==
  ASSUME TypeOK, NEW p \in Procs, NEW r \in Results
  PROVE  Upcoming(p, r) \in Int
<1>1. procs[p].age \in Int /\ procs[p].hour \in Int /\ clock \in Int
  BY SchedulerAssumption DEF TypeOK, Tick, Hours
<1>2. (clock - procs[p].age) % Day \in Int
  BY <1>1, ClockType, SchedulerAssumption DEF Hours
<1>3. NextDaily((clock - procs[p].age) % Day, procs[p].hour) \in Int
  <2>1. NextDaily((clock - procs[p].age) % Day, procs[p].hour) \in 1..Day
    BY <1>1, <1>2, NextDailyType, Zenon
  <2>. QED
    BY <2>1, SchedulerAssumption
<1>. QED
  BY <1>1, <1>3, SchedulerAssumption DEF Upcoming

LEMMA WrittenType ==
  ASSUME TypeOK, AtMostTwo, NEW p \in Procs, NEW r \in Results
  PROVE  /\ Written(p, r) \in [enabled : BOOLEAN, hour : Hours, streak : 0..3, due : Int]
         /\ Failures(p, r) \in 0..3
         /\ Written(p, r).enabled => sched.enabled /\ Written(p, r).streak <= 2
         /\ Written(p, r).enabled => Written(p, r).streak = Failures(p, r)
<1>1. Failures(p, r) \in 0..3
  BY DEF Failures, TypeOK, AtMostTwo, Tick
<1>2. Upcoming(p, r) \in Int
  BY UpcomingType
<1>3. Never \in Int
  BY SchedulerAssumption DEF Never
<1>4. CASE ~sched.enabled
  <2>1. Written(p, r) = sched
    BY <1>4 DEF Written
  <2>. QED
    BY <1>1, <1>4, <2>1 DEF TypeOK
<1>5. CASE sched.enabled /\ (r = "blocked" \/ Failures(p, r) >= 3)
  <2>1. Written(p, r) = [sched EXCEPT !.enabled = FALSE, !.streak = Failures(p, r),
                                      !.due = Never]
    BY <1>5 DEF Written
  <2>. QED
    BY <1>1, <1>3, <2>1 DEF TypeOK
<1>6. CASE sched.enabled /\ ~(r = "blocked" \/ Failures(p, r) >= 3)
  <2>1. Written(p, r) = [sched EXCEPT !.enabled = TRUE, !.streak = Failures(p, r),
                                      !.due = Upcoming(p, r)]
    BY <1>6 DEF Written
  <2>2. /\ Written(p, r).enabled = TRUE /\ Written(p, r).streak = Failures(p, r)
        /\ Written(p, r) \in [enabled : BOOLEAN, hour : Hours, streak : 0..3, due : Int]
    BY <1>1, <1>2, <2>1 DEF TypeOK
  <2>3. Failures(p, r) <= 2
    BY <1>1, <1>6
  <2>. QED
    BY <1>1, <1>6, <2>2, <2>3
<1>. QED
  BY <1>4, <1>5, <1>6

-----------------------------------------------------------------------------
(* The steps.                                                              *)

LEMMA InitInv == Init => IInv
<1> SUFFICES ASSUME Init PROVE IInv
  OBVIOUS
<1>1. TypeOK
  BY NoTickType, SchedulerAssumption DEF Init, TypeOK, Hours, Never
<1>. QED
  BY <1>1 DEF Init, IInv, AtMostTwo, LeaseHeld, ClaimIsExclusive, ErrorsCounted, NoTick

LEMMA ConfigureInv ==
  ASSUME IInv, NEW on \in BOOLEAN, NEW hour \in Hours, Configure(on, hour)
  PROVE  IInv'
<1>1. /\ procs' \in [Procs -> Tick]
      /\ \A p \in Procs : /\ procs'[p].at = procs[p].at
                          /\ procs'[p].streak = procs[p].streak
                          /\ procs[p].at = "claimed" =>
                               procs'[p].broken /\ ~procs'[p].current
  BY OvertakenKeeps DEF IInv, Configure
<1>2. NextDaily(clock, hour) \in Int
  <2>1. NextDaily(clock, hour) \in 1..Day
    <3>1. clock \in Int /\ hour \in Int
      BY SchedulerAssumption DEF IInv, TypeOK, Hours
    <3>. QED
      BY <3>1, NextDailyType, Zenon
  <2>. QED
    BY <2>1, SchedulerAssumption
<1>3. Never \in Int
  BY SchedulerAssumption DEF Never
<1>4. sched' \in [enabled : BOOLEAN, hour : Hours, streak : 0..3, due : Int]
      /\ sched'.streak = 0 /\ errors' = 0
  BY <1>2, <1>3 DEF Configure
<1>5. left' \in [crashes : 0..MaxCrashes, changes : 0..MaxChanges]
  BY SchedulerAssumption DEF IInv, TypeOK, Configure
<1>6. TypeOK'
  BY <1>1, <1>4, <1>5 DEF IInv, TypeOK, Configure
<1>. QED
  BY <1>1, <1>4, <1>6
  DEF IInv, AtMostTwo, LeaseHeld, ClaimIsExclusive, ErrorsCounted, Late

\* A step that changes nothing but the tick of p, which claims nothing after it.
LEMMA ResetInv ==
  ASSUME IInv, NEW p \in Procs, NEW t \in Tick, t.at # "claimed", t.streak <= 2,
         procs' = [procs EXCEPT ![p] = t], UNCHANGED <<sched, clock, errors>>,
         left' \in [crashes : 0..MaxCrashes, changes : 0..MaxChanges]
  PROVE  IInv'
<1>1. TypeOK'
  BY DEF IInv, TypeOK
<1>. QED
  BY <1>1 DEF IInv, TypeOK, AtMostTwo, LeaseHeld, ClaimIsExclusive, ErrorsCounted, Late

LEMMA BeginInv ==
  ASSUME IInv, NEW p \in Procs, Begin(p)
  PROVE  IInv'
<1> DEFINE t == [NoTick EXCEPT !.at = "begun"]
<1>1. t \in Tick /\ t.at # "claimed" /\ t.streak <= 2
  <2>1. t.at = "begun" /\ t.streak = 0
    BY DEF NoTick
  <2>2. t \in Tick
    BY NoTickType DEF NoTick, Tick
  <2>. QED
    BY <2>1, <2>2
<1>2. procs' = [procs EXCEPT ![p] = t]
  BY DEF Begin
<1>3. UNCHANGED <<sched, clock, errors>>
      /\ left' \in [crashes : 0..MaxCrashes, changes : 0..MaxChanges]
  BY DEF Begin, IInv, TypeOK
<1>. HIDE DEF t
<1>. QED
  BY <1>1, <1>2, <1>3, ResetInv

LEMMA NothingDueInv ==
  ASSUME IInv, NEW p \in Procs, NothingDue(p)
  PROVE  IInv'
<1>1. NoTick \in Tick /\ NoTick.at # "claimed" /\ NoTick.streak <= 2
  BY NoTickType DEF NoTick
<1>2. /\ procs' = [procs EXCEPT ![p] = NoTick]
      /\ UNCHANGED <<sched, clock, errors>>
      /\ left' \in [crashes : 0..MaxCrashes, changes : 0..MaxChanges]
  BY DEF NothingDue, IInv, TypeOK
<1>. QED
  BY <1>1, <1>2, ResetInv

LEMMA CrashInv ==
  ASSUME IInv, NEW p \in Procs, Crash(p)
  PROVE  IInv'
<1>1. NoTick \in Tick /\ NoTick.at # "claimed" /\ NoTick.streak <= 2
  BY NoTickType DEF NoTick
<1>2. left' \in [crashes : 0..MaxCrashes, changes : 0..MaxChanges]
  BY SchedulerAssumption DEF Crash, IInv, TypeOK
<1>3. procs' = [procs EXCEPT ![p] = NoTick] /\ UNCHANGED <<sched, clock, errors>>
  BY DEF Crash
<1>. QED
  BY <1>1, <1>2, <1>3, ResetInv

LEMMA TimeInv ==
  ASSUME IInv, Time
  PROVE  IInv'
<1>1. /\ procs' \in [Procs -> Tick]
      /\ \A p \in Procs : /\ procs'[p].at = procs[p].at
                          /\ procs'[p].streak = procs[p].streak
                          /\ procs'[p].current = procs[p].current
                          /\ procs'[p].broken = procs[p].broken
                          /\ procs[p].at = "claimed" => procs'[p].age = procs[p].age + 1
  BY SchedulerAssumption DEF IInv, TypeOK, Time, Tick
<1>2. /\ sched' \in [enabled : BOOLEAN, hour : Hours, streak : 0..3, due : Int]
      /\ sched'.enabled = sched.enabled /\ sched'.streak = sched.streak
      /\ sched'.due = IF sched.due = Never \/ sched.due <= -MaxAge - 1
                      THEN sched.due ELSE sched.due - 1
  BY SchedulerAssumption DEF IInv, TypeOK, Time
<1>3. clock' \in Hours
  BY ClockType, SchedulerAssumption DEF IInv, TypeOK, Time, Hours
<1>4. TypeOK'
  BY <1>1, <1>2, <1>3 DEF IInv, TypeOK, Time
<1>5. LeaseHeld'
  <2> SUFFICES ASSUME NEW p \in Procs, procs'[p].at = "claimed",
                      ~procs'[p].broken, procs'[p].age < Lease, sched'.enabled
               PROVE  sched'.due >= Lease - procs'[p].age
    BY SchedulerAssumption, <1>1 DEF LeaseHeld, Late, Tick
  <2>1. procs[p].age \in 0..MaxAge /\ procs'[p].age = procs[p].age + 1
    BY <1>1 DEF IInv, TypeOK, Tick
  <2>2. sched.due >= Lease - procs[p].age
    BY <1>1, <1>2, <2>1, SchedulerAssumption DEF IInv, LeaseHeld, Late
  <2>3. sched.due \in Int
    BY DEF IInv, TypeOK
  <2>4. CASE sched.due = Never
    BY <1>2, <2>1, <2>4, SchedulerAssumption DEF Never
  <2>5. CASE sched.due # Never
    BY <1>2, <2>1, <2>2, <2>3, <2>5, SchedulerAssumption
  <2>. QED
    BY <2>4, <2>5
<1>6. ClaimIsExclusive'
  <2> SUFFICES ASSUME NEW p \in Procs, NEW q \in Procs, p # q,
                      procs'[p].at = "claimed", procs'[q].at = "claimed"
               PROVE  Late(p)' \/ Late(q)'
    BY DEF ClaimIsExclusive
  <2>1. Late(p) \/ Late(q)
    BY <1>1 DEF IInv, ClaimIsExclusive
  <2>2. procs[p].age \in Int /\ procs[q].age \in Int
    BY SchedulerAssumption DEF IInv, TypeOK, Tick
  <2>3. Late(p) => Late(p)'
    BY <1>1, <2>2, SchedulerAssumption DEF Late
  <2>4. Late(q) => Late(q)'
    BY <1>1, <2>2, SchedulerAssumption DEF Late
  <2>. QED
    BY <2>1, <2>3, <2>4
<1>7. AtMostTwo' /\ ErrorsCounted'
  BY <1>1, <1>2 DEF IInv, AtMostTwo, ErrorsCounted, Time
<1>. QED
  BY <1>4, <1>5, <1>6, <1>7 DEF IInv

LEMMA ClaimInv ==
  ASSUME IInv, NEW p \in Procs, Claim(p)
  PROVE  IInv'
<1> DEFINE O == Overtaken(FALSE)
<1>1. /\ O \in [Procs -> Tick]
      /\ \A q \in Procs : /\ O[q].at = procs[q].at
                          /\ O[q].age = procs[q].age
                          /\ O[q].streak = procs[q].streak
                          /\ procs[q].at = "claimed" => O[q].broken = procs[q].broken
                          /\ procs[q].at = "claimed" => O[q].current = FALSE
  <2>1. TypeOK /\ \A q \in Procs : procs[q].broken \in BOOLEAN
    BY DEF IInv, TypeOK, Tick
  <2>2. \A q \in Procs : (procs[q].broken \/ FALSE) = procs[q].broken
    BY <2>1
  <2>. QED
    BY <2>1, <2>2, OvertakenKeeps, Zenon
<1>2. procs' = [O EXCEPT ![p].at = "claimed", ![p].hour = sched.hour,
                         ![p].streak = sched.streak, ![p].current = TRUE]
  BY DEF Claim
<1>. HIDE DEF O
<1>3. sched.enabled /\ sched.due <= -procs[p].age /\ sched.due \in Int
      /\ sched.streak \in 0..3 /\ sched.hour \in Hours /\ procs[p].age \in 0..MaxAge
  BY DEF Claim, IsDue, IInv, TypeOK, Tick
<1>4. /\ procs' \in [Procs -> Tick]
      /\ procs'[p].streak = sched.streak /\ procs'[p].age = procs[p].age
      /\ \A q \in Procs \ {p} : procs'[q] = O[q]
  <2> DEFINE t == [O[p] EXCEPT !.at = "claimed", !.hour = sched.hour,
                               !.streak = sched.streak, !.current = TRUE]
  <2>1. t \in Tick /\ t.streak = sched.streak /\ t.age = O[p].age
    BY <1>1, <1>3 DEF Tick
  <2>2. procs' = [O EXCEPT ![p] = t]
    BY <1>2
  <2>. HIDE DEF t
  <2>. QED
    BY <1>1, <2>1, <2>2
<1>5. /\ sched' \in [enabled : BOOLEAN, hour : Hours, streak : 0..3, due : Int]
      /\ sched'.enabled /\ sched'.streak = sched.streak
      /\ sched'.due = Lease - procs[p].age
  BY <1>3, SchedulerAssumption DEF Claim, Leased, IInv, TypeOK
<1>6. TypeOK'
  BY <1>4, <1>5 DEF IInv, TypeOK, Claim
\* The schedule was due, so that whoever has claimed it before is late.
<1>7. ASSUME NEW q \in Procs, procs[q].at = "claimed"
      PROVE  Late(q)
  <2>1. procs[q].age \in 0..MaxAge
    BY DEF IInv, TypeOK, Tick
  <2>2. CASE procs[q].age >= Lease
    BY <2>2 DEF Late
  <2>3. CASE procs[q].age < Lease
    BY <1>3, <1>7, <2>1, <2>3, SchedulerAssumption DEF IInv, LeaseHeld
  <2>. QED
    BY <2>1, <2>2, <2>3, SchedulerAssumption
<1>8. \A q \in Procs \ {p} : procs'[q].at = "claimed" => Late(q)'
  BY <1>1, <1>4, <1>7 DEF Late
<1>9. LeaseHeld'
  BY <1>4, <1>5, <1>8, <1>3, SchedulerAssumption DEF LeaseHeld
<1>10. ClaimIsExclusive'
  BY <1>8 DEF ClaimIsExclusive
<1>11. AtMostTwo'
  BY <1>1, <1>3, <1>4, <1>5 DEF IInv, AtMostTwo
<1>12. \A q \in Procs \ {p} : procs'[q].at = "claimed" => procs'[q].current = FALSE
  BY <1>1, <1>4
<1>13. ErrorsCounted'
  BY <1>3, <1>4, <1>5, <1>12 DEF IInv, ErrorsCounted, Claim
<1>. QED
  BY <1>6, <1>9, <1>10, <1>11, <1>13 DEF IInv

LEMMA RecordInv ==
  ASSUME IInv, NEW p \in Procs, NEW r \in Results, Record(p, r)
  PROVE  IInv'
<1>1. PICK late \in BOOLEAN : late = Late(p)
  <2>1. Late(p) \in BOOLEAN
    BY Zenon DEF Late
  <2>. QED
    BY <2>1
<1> DEFINE O == Overtaken(late)
<1>2. /\ O \in [Procs -> Tick]
      /\ \A q \in Procs : /\ O[q].at = procs[q].at
                          /\ O[q].age = procs[q].age
                          /\ O[q].streak = procs[q].streak
                          /\ procs[q].at = "claimed" => O[q].broken = (procs[q].broken \/ late)
                          /\ procs[q].at = "claimed" => O[q].current = FALSE
  BY OvertakenKeeps DEF IInv
<1>3. procs' = [O EXCEPT ![p] = NoTick]
  BY <1>1, Zenon DEF Record
<1>. HIDE DEF O
<1>4. /\ procs' \in [Procs -> Tick]
      /\ procs'[p] = NoTick
      /\ \A q \in Procs \ {p} : procs'[q] = O[q]
  BY <1>2, <1>3, NoTickType
<1>5. /\ sched' \in [enabled : BOOLEAN, hour : Hours, streak : 0..3, due : Int]
      /\ Failures(p, r) \in 0..3
      /\ sched'.enabled => sched.enabled /\ sched'.streak <= 2
      /\ sched'.enabled => sched'.streak = Failures(p, r)
  BY WrittenType DEF IInv, Record
<1>6. errors' \in 0..3
  BY <1>5 DEF IInv, TypeOK, Record
<1>7. TypeOK'
  BY <1>4, <1>5, <1>6 DEF IInv, TypeOK, Record
<1>8. \A q \in Procs \ {p} : procs'[q].at = "claimed" => Late(q)'
  <2> SUFFICES ASSUME NEW q \in Procs \ {p}, procs'[q].at = "claimed"
               PROVE  Late(q)'
    OBVIOUS
  <2>1. procs[q].at = "claimed" /\ procs'[q].age = procs[q].age
        /\ procs'[q].broken = (procs[q].broken \/ late)
    BY <1>2, <1>4
  <2>2. procs[p].at = "claimed"
    BY DEF Record
  <2>3. Late(p) \/ Late(q)
    BY <2>1, <2>2 DEF IInv, ClaimIsExclusive
  <2>4. CASE Late(p)
    <3>1. late = TRUE
      BY <1>1, <2>4, Zenon
    <3>2. procs'[q].broken
      BY <2>1, <3>1, Zenon
    <3>. QED
      BY <3>2 DEF Late
  <2>5. CASE Late(q)
    <3>1. CASE procs[q].broken
      <4>1. procs'[q].broken
        BY <2>1, <3>1, Zenon
      <4>. QED
        BY <4>1 DEF Late
    <3>2. CASE procs[q].age >= Lease
      BY <2>1, <3>2 DEF Late
    <3>. QED
      BY <2>5, <3>1, <3>2 DEF Late
  <2>. QED
    BY <2>3, <2>4, <2>5
<1>9. procs'[p].at # "claimed" /\ procs'[p].streak = 0
  BY <1>4 DEF NoTick
<1>10. LeaseHeld' /\ ClaimIsExclusive'
  BY <1>8, <1>9 DEF LeaseHeld, ClaimIsExclusive
<1>11. AtMostTwo'
  BY <1>2, <1>4, <1>5, <1>9 DEF IInv, AtMostTwo
<1>12. sched'.enabled => errors' = sched'.streak
  <2> SUFFICES ASSUME sched'.enabled
               PROVE  errors' = Failures(p, r)
    BY <1>5
  <2>1. CASE r # "error"
    BY <2>1 DEF Record, Failures
  <2>2. CASE r = "error" /\ procs[p].current /\ errors < 3
    BY <2>2 DEF Record, Failures, IInv, ErrorsCounted
  <2>3. CASE r = "error" /\ ~(procs[p].current /\ errors < 3)
    BY <2>3 DEF Record
  <2>. QED
    BY <2>1, <2>2, <2>3
<1>13. ErrorsCounted'
  BY <1>2, <1>4, <1>9, <1>12 DEF ErrorsCounted
<1>. QED
  BY <1>7, <1>10, <1>11, <1>13 DEF IInv

LEMMA NextInv == IInv /\ [Next]_vars => IInv'
<1> SUFFICES ASSUME IInv, [Next]_vars PROVE IInv'
  OBVIOUS
<1>1. CASE \E p \in Procs : Work(p) \/ Crash(p)
  BY <1>1, BeginInv, ClaimInv, NothingDueInv, RecordInv, CrashInv DEF Work
<1>2. CASE \E on \in BOOLEAN, hour \in Hours : Configure(on, hour)
  BY <1>2, ConfigureInv
<1>3. CASE Time
  BY <1>3, TimeInv
<1>4. CASE UNCHANGED vars
  BY <1>4 DEF vars, IInv, TypeOK, AtMostTwo, LeaseHeld, ClaimIsExclusive, ErrorsCounted, Late
<1>. QED
  BY <1>1, <1>2, <1>3, <1>4 DEF Next

LEMMA Inductive == Spec => []IInv
BY InitInv, NextInv, PTL DEF Spec

-----------------------------------------------------------------------------
(* The theorems.                                                           *)

\* The row of a schedule, its clock and its ticks are well typed: no streak of
\* failures passes three (failures and paused in tick).
THEOREM TypeCorrect == Spec => []TypeOK
BY Inductive, PTL DEF IInv

\* However many processes tick, two of them run one schedule only when one is
\* late: the time that the claim writes is after the end of every tick on time.
THEOREM ClaimIsExclusiveHolds == Spec => []ClaimIsExclusive
BY Inductive, PTL DEF IInv

\* A tick pauses a schedule only when a person is needed, or at the third error
\* in a row that anybody counted (failures and paused in tick).
THEOREM PausedForCauseHolds == Spec => PausedForCause
<1>1. ASSUME IInv, [Next]_vars, sched.enabled, ~sched'.enabled, left' = left
      PROVE  errors' = 3 \/ \E p \in Procs : Record(p, "blocked")
  <2>1. \/ \E p \in Procs : Work(p) \/ Crash(p)
        \/ \E on \in BOOLEAN, hour \in Hours : Configure(on, hour)
        \/ Time
    BY <1>1 DEF Next, vars
  <2>2. ASSUME NEW p \in Procs, NEW r \in Results, Record(p, r)
        PROVE  errors' = 3 \/ r = "blocked"
    <3> SUFFICES ASSUME r # "blocked"
                 PROVE  errors' = 3
      OBVIOUS
    <3>1. Failures(p, r) = 3
      <4>1. Failures(p, r) \in 0..3
        BY <1>1, WrittenType DEF IInv
      <4>2. CASE Failures(p, r) >= 3
        BY <4>1, <4>2
      <4>3. CASE ~(Failures(p, r) >= 3)
        <5>1. Written(p, r) = [sched EXCEPT !.enabled = TRUE, !.streak = Failures(p, r),
                                            !.due = Upcoming(p, r)]
          BY <1>1, <4>3 DEF Written
        <5>2. Written(p, r).enabled = TRUE
          BY <1>1, <5>1 DEF IInv, TypeOK
        <5>. QED
          BY <1>1, <2>2, <5>2 DEF Record
      <4>. QED
        BY <4>2, <4>3
    <3>2. r = "error" /\ procs[p].streak = 2
      BY <1>1, <3>1 DEF Failures, IInv, TypeOK, Tick
    <3>3. CASE procs[p].current /\ errors < 3
      BY <1>1, <2>2, <3>2, <3>3 DEF Record, IInv, ErrorsCounted
    <3>4. CASE ~(procs[p].current /\ errors < 3)
      BY <2>2, <3>1, <3>2, <3>4 DEF Record
    <3>. QED
      BY <3>3, <3>4
  <2>3. ASSUME NEW p \in Procs, Work(p) \/ Crash(p)
        PROVE  \E r \in Results : Record(p, r)
    <3>1. ~Begin(p) /\ ~NothingDue(p)
      BY <1>1 DEF Begin, NothingDue
    <3>2. ~Claim(p)
      BY <1>1 DEF Claim, Leased, IInv, TypeOK
    <3>3. ~Crash(p)
      BY <1>1 DEF Crash
    <3>. QED
      BY <2>3, <3>1, <3>2, <3>3 DEF Work
  <2>4. ASSUME NEW on \in BOOLEAN, NEW hour \in Hours, Configure(on, hour)
        PROVE  FALSE
    <3>1. left'.changes = left.changes - 1 /\ left.changes \in Int
      BY <2>4, SchedulerAssumption, <1>1 DEF Configure, IInv, TypeOK
    <3>. QED
      BY <1>1, <3>1
  <2>5. ~Time
    BY <1>1 DEF Time, IInv, TypeOK
  <2>6. PICK p \in Procs : Work(p) \/ Crash(p)
    BY <2>1, <2>4, <2>5
  <2>7. PICK r \in Results : Record(p, r)
    BY <2>3, <2>6
  <2>. QED
    BY <2>2, <2>7
<1>2. IInv /\ [Next]_vars =>
        [(sched.enabled /\ ~sched'.enabled /\ left' = left)
           => \/ errors' = 3
              \/ \E p \in Procs : Record(p, "blocked")]_vars
  BY <1>1
<1>. QED
  BY <1>2, Inductive, PTL DEF Spec, PausedForCause

\* Whatever tick runs while a person turns a schedule off, it stays off until a
\* person turns it on (AND enabled=1 in the last UPDATE of tick).
THEOREM DisabledStaysHolds == Spec => DisabledStays
<1>1. ASSUME IInv, [Next]_vars, ~sched.enabled, sched'.enabled
      PROVE  left'.changes < left.changes
  <2>1. CASE \E p \in Procs : Work(p) \/ Crash(p)
    <3> SUFFICES ASSUME NEW p \in Procs, Work(p) \/ Crash(p)
                 PROVE  sched' = sched
      BY <1>1, <2>1
    <3>1. ~Claim(p)
      BY <1>1 DEF Claim, IsDue
    <3>2. ASSUME NEW r \in Results, Record(p, r)
          PROVE  sched' = sched
      BY <1>1, <3>2 DEF Record, Written
    <3>. QED
      BY <3>1, <3>2 DEF Work, Begin, NothingDue, Crash
  <2>2. CASE \E on \in BOOLEAN, hour \in Hours : Configure(on, hour)
    BY <1>1, <2>2, SchedulerAssumption DEF Configure, IInv, TypeOK
  <2>3. CASE Time
    BY <1>1, <2>3 DEF Time, IInv, TypeOK
  <2>. QED
    BY <1>1, <2>1, <2>2, <2>3 DEF Next, vars
<1>2. IInv /\ [Next]_vars =>
        [~sched.enabled /\ sched'.enabled => left'.changes < left.changes]_vars
  BY <1>1
<1>. QED
  BY <1>2, Inductive, PTL DEF Spec, DisabledStays
=============================================================================
