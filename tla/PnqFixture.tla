----------------------------- MODULE PnqFixture -----------------------------
(* The lifecycle the repository's tests configure for pnq_jobs                 *)
(* (tests/fixtures/pnq-v2-lifecycle.ts), the only one the repository holds.    *)
EXTENDS LifecycleRows

PnqStatuses == {"PENDING", "DISPATCHING", "RUNNING", "DONE", "FAILED", "STUCK"}

PnqStateDefinitions ==
    [s \in PnqStatuses |->
        CASE s = "PENDING" -> State({"initial", "dispatchable"})
          [] s \in {"DISPATCHING", "RUNNING"} -> State({})
          [] s = "DONE" -> State({"terminal"})
          [] s = "FAILED" -> State({"terminal", "retryable"})
          [] s = "STUCK" -> State({"terminal", "retryable", "administrative", "manual"})]

PnqTransitions ==
    {Edge("claim", "PENDING", "DISPATCHING", {"automatic"}),
     Edge("start", "DISPATCHING", "RUNNING", {"mark_started"}),
     Edge("complete", "RUNNING", "DONE", {"mark_completed"}),
     Edge("fail", "RUNNING", "FAILED", {"mark_completed"}),
     Edge("stuck_pending", "PENDING", "STUCK", {}),
     Edge("stuck_dispatch", "DISPATCHING", "STUCK", {}),
     Edge("stuck_running", "RUNNING", "STUCK", {})}
=============================================================================
