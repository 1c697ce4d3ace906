----------------------------- MODULE MCServices -----------------------------
(* One account that may hold two clients on its best plans.                *)
EXTENDS Services
MCPlanLimits == [free |-> 1, trial |-> 2, starter |-> 1, pro |-> 2]
=============================================================================
