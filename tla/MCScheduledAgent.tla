-------------------------- MODULE MCScheduledAgent --------------------------
(* The scheduled agent on small sets of tasks.                             *)
EXTENDS ScheduledAgent
=============================================================================
