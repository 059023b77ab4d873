----------------------------- MODULE TaskFixture -----------------------------
(* A lifecycle of tasks: the states and transitions of phase1_task_fixture      *)
(* (tests/pnq-003/phase1-real-route-cron.integration.test.ts), whose completion *)
(* clears the failure as persistSuccessfulTaskResult asks, and the transitions   *)
(* the other selectors of the runner and of task-lifecycle look for: the start  *)
(* of a retryable task, its return to the queue, the closing by hand.            *)
EXTENDS LifecycleRows

TaskStatuses == {"queued", "running", "completed", "failed", "cancelled"}
TaskStates ==
    [s \in TaskStatuses |->
        CASE s = "queued" -> State({"initial", "dispatchable"})
          [] s = "running" -> State({})
          [] s = "completed" -> State({"terminal"})
          [] s = "failed" -> State({"terminal", "retryable"})
          [] s = "cancelled" -> State({"terminal", "administrative", "manual"})]
TaskSortOrder ==
    [s \in TaskStatuses |->
        CASE s = "queued" -> 10 [] s = "running" -> 20 [] s = "completed" -> 30
          [] s = "failed" -> 40 [] s = "cancelled" -> 50]
TaskTransitions ==
    {Edge("start", "queued", "running", {"automatic", "mark_started"}),
     Edge("complete", "running", "completed", {"external", "mark_completed", "clear_failure"}),
     Edge("fail", "running", "failed", {"external", "mark_completed"}),
     Edge("retry", "failed", "running", {"automatic", "mark_started"}),
     Edge("requeue", "failed", "queued", {"reset_retry", "clear_completed", "clear_failure"}),
     Edge("cancel", "queued", "cancelled", {"manual", "mark_completed"}),
     Edge("cancel_running", "running", "cancelled", {"manual", "mark_completed"})}
==============================================================================
