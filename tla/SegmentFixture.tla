--------------------------- MODULE SegmentFixture ---------------------------
(* The lifecycle of segment build jobs the mock of                             *)
(* segment-build-job.service.test.ts answers with: its statuses and the         *)
(* transitions its selectors find.  What the mock leaves open is taken from the *)
(* selectors of the service itself: a failed job is the terminal, manual state  *)
(* that reconcileBlockedForRetry reopens.                                       *)
EXTENDS LifecycleRows

BuildStatuses == {"pending_agent", "dispatched", "claimed", "building", "candidate_ready",
                  "canary_running", "completed", "failed"}
Unfinished == BuildStatuses \ {"completed", "failed"}
BuildStates ==
    [s \in BuildStatuses |->
        CASE s = "pending_agent" -> State({"initial", "dispatchable"})
          [] s = "completed" -> State({"terminal"})
          [] s = "failed" -> State({"terminal", "retryable", "dispatchable", "manual"})
          [] OTHER -> State({})]
BuildTransitions ==
    {Edge("dispatch", "pending_agent", "dispatched", {"automatic", "clear_failure"}),
     Edge("retry", "failed", "dispatched", {"automatic", "clear_failure"}),
     Edge("undo", "dispatched", "pending_agent", {"automatic"}),
     Edge("claim_pending", "pending_agent", "claimed", {"external", "mark_started"}),
     Edge("claim", "dispatched", "claimed", {"external", "mark_started"}),
     Edge("build", "claimed", "building", {"external"}),
     Edge("submit", "building", "candidate_ready", {"external"}),
     Edge("canary", "candidate_ready", "canary_running", {"automatic"}),
     Edge("rework", "canary_running", "building", {"automatic"}),
     Edge("complete", "canary_running", "completed",
          {"automatic", "mark_completed", "clear_failure"}),
     Edge("expire", "canary_running", "failed", {"automatic", "mark_completed"})}
    \cup {Edge("fail", s, "failed", {"external", "mark_completed"}) : s \in Unfinished}
==============================================================================
