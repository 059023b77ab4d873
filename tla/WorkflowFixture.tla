--------------------------- MODULE WorkflowFixture ---------------------------
(* The lifecycle of workflows the integration tests configure                  *)
(* (tests/pnq-003/phase1-real-route-cron.integration.test.ts), with the         *)
(* checkpoints a device reports while it runs and the late completion           *)
(* task-runner.service.ts:503 waits for after a failed ACK.                     *)
EXTENDS LifecycleRows

WorkflowStatuses == {"queued", "running", "completed", "failed", "cancelled"}
WorkflowStates ==
    [s \in WorkflowStatuses |->
        CASE s = "queued" -> State({"initial", "dispatchable"})
          [] s = "running" -> State({})
          [] s = "completed" -> State({"terminal"})
          [] s = "failed" -> State({"terminal", "retryable"})
          [] s = "cancelled" -> State({"terminal", "administrative", "manual"})]
WorkflowTransitions ==
    {Edge("start", "queued", "running", {"automatic", "external", "mark_started"}),
     Edge("progress", "running", "running", {"automatic", "external", "mark_started"}),
     Edge("complete", "queued", "completed", {"external", "mark_completed"}),
     Edge("complete_running", "running", "completed", {"external", "mark_completed"}),
     Edge("complete_late", "failed", "completed", {"external", "mark_completed"}),
     Edge("fail", "queued", "failed", {"external", "mark_completed"}),
     Edge("fail_running", "running", "failed", {"external", "mark_completed"}),
     Edge("cancel", "queued", "cancelled", {"manual", "mark_completed"})}
WorkflowActive == {"running"}
==============================================================================
