---------------------------- MODULE MCAuditQueue ----------------------------
(* Audit workers over few requests; a tick stands for a minute in the code. *)
EXTENDS AuditQueue
=============================================================================
