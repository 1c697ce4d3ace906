---------------------------- MODULE MCAgentJobs ----------------------------
(* A Director and two content writers of one tenant, one worker per queue. *)
EXTENDS AgentJobs, TLC

CONSTANTS d1, w1, w2, t1

MCTenantOf == [a \in Agents |-> t1]
JobSymmetry == Permutations(Jobs)
=============================================================================
