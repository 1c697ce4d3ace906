---------------------------- MODULE MCJobSlots ----------------------------
(* Two content writers of one tenant and an agent of another, two workers. *)
EXTENDS AgentJobs, TLC

CONSTANTS w1, w2, r2, t1, t2

MCTenantOf == [a \in Agents |-> IF a = r2 THEN t2 ELSE t1]
Symmetry == Permutations(Jobs) \cup Permutations(SeoWorkers)
=============================================================================
