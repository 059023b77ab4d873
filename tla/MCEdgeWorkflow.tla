--------------------------- MODULE MCEdgeWorkflow ---------------------------
(* Model values and the workflow lifecycle for EdgeWorkflow.                   *)
EXTENDS EdgeWorkflow, WorkflowFixture

(* TLC evaluates the right-hand side of a <- at every use, and a definition it  *)
(* reaches by name once: the tables have names here for that.                  *)
MCStatuses == WorkflowStatuses
MCStates == WorkflowStates
MCTransitions == WorkflowTransitions
MCWorkflowActive == WorkflowActive
=============================================================================
