---------------------------- MODULE DeviceFixture ----------------------------
(* The lifecycles the repository's tests configure for device_execution_roots  *)
(* and device_execution_operations (tests/fixtures/device-execution-policy.ts).*)
EXTENDS LifecycleRows

LOCAL Live == {"dispatching", "dispatched"}
FixtureRootStatuses == {"queued", "claimed", "blocked", "reconciling",
                        "completed", "failed", "cancelled"} \cup Live
FixtureOpStatuses == {"registered", "rejected", "blocked", "reconciling",
                      "completed", "failed", "cancelled"} \cup Live

LOCAL Definition(s) ==
    CASE s \in {"queued", "registered"} -> State({"initial"})
      [] s \in {"claimed", "dispatching"} -> State({})
      [] s = "dispatched" -> State({"dispatchable"})
      [] s = "rejected" -> State({"retryable"})
      [] s \in {"blocked", "reconciling"} -> State({"manual"})
      [] s = "completed" -> State({"terminal"})
      [] s = "failed" -> State({"terminal", "retryable"})
      [] s = "cancelled" -> State({"terminal", "administrative", "manual"})
FixtureRootStates == [s \in FixtureRootStatuses |-> Definition(s)]
FixtureOpStates == [s \in FixtureOpStatuses |-> Definition(s)]

LOCAL Outcome == {"automatic", "external", "mark_completed"}
LOCAL OutcomesFrom(from) ==
    {Edge("complete", from, "completed", Outcome),
     Edge("fail", from, "failed", Outcome)}
LOCAL Common ==
    {Edge("finish_dispatch", "dispatching", "dispatched", {"automatic"}),
     Edge("block_dispatching", "dispatching", "blocked", {"automatic"}),
     Edge("reconcile_dispatched", "dispatched", "reconciling", {"automatic"})}
    \cup UNION {OutcomesFrom(from) : from \in Live}

FixtureRootTransitions ==
    Common \cup OutcomesFrom("claimed") \cup
    {Edge("claim", "queued", "claimed", {"automatic", "mark_started"}),
     Edge("begin_dispatch", "queued", "dispatching", {"automatic"}),
     Edge("observe_dispatch", "queued", "dispatched", {"automatic"}),
     Edge("dispatch_claimed", "claimed", "dispatching", {"automatic"}),
     Edge("observe_claimed_dispatch", "claimed", "dispatched", {"automatic"}),
     Edge("reconcile_claimed", "claimed", "reconciling", {"automatic"}),
     Edge("cancel_queued", "queued", "cancelled", {"manual", "mark_completed"})}

FixtureOpTransitions ==
    Common \cup
    {Edge("begin_dispatch", "registered", "dispatching", {"automatic"}),
     Edge("observe_dispatch", "registered", "dispatched", {"automatic"}),
     Edge("reject_send", "registered", "rejected", {"automatic"}),
     Edge("cancel_registered", "registered", "cancelled", {"manual", "mark_completed"})}
==============================================================================
