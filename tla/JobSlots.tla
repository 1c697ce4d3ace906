------------------------------- MODULE JobSlots -------------------------------
(***************************************************************************)
(* What the durable leases of denzo/execution.py promise to the rest of    *)
(* the platform, without saying how: a job is granted a slot for one       *)
(* agent, no two granted jobs are rivals, a granted job starts at most     *)
(* once, and a slot that was given back is never used again.               *)
(***************************************************************************)
CONSTANTS Jobs, Agents, NoJob,
          Rivals        \* pairs of agents that may not hold slots together

VARIABLES slot, life

vars == <<slot, life>>

Holds(j) == life[j] \in {"waiting", "started"}

Init ==
    /\ slot = [j \in Jobs |-> NoJob]
    /\ life = [j \in Jobs |-> "new"]

Grant(j, a) ==
    /\ life[j] = "new"
    /\ \A k \in Jobs : Holds(k) => <<a, slot[k]>> \notin Rivals
    /\ slot' = [slot EXCEPT ![j] = a]
    /\ life' = [life EXCEPT ![j] = "waiting"]

Start(j) ==
    /\ life[j] = "waiting"
    /\ life' = [life EXCEPT ![j] = "started"]
    /\ UNCHANGED slot

\* One job ends, or a recovery ends several at once.
Release(S) ==
    /\ \A j \in S : Holds(j)
    /\ life' = [j \in Jobs |-> IF j \in S THEN "over" ELSE life[j]]
    /\ UNCHANGED slot

Next ==
    \/ \E j \in Jobs, a \in Agents : Grant(j, a)
    \/ \E j \in Jobs : Start(j)
    \/ \E S \in SUBSET Jobs : Release(S)

Spec == Init /\ [][Next]_vars
=============================================================================
