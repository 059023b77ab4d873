---------------------------- MODULE LifecycleRows ----------------------------
(* Rows of a lifecycle as the repository's test fixtures insert them: every    *)
(* flag that is not named is FALSE.                                            *)

State(set) == [initial |-> "initial" \in set, terminal |-> "terminal" \in set,
               retryable |-> "retryable" \in set,
               administrative |-> "administrative" \in set,
               dispatchable |-> "dispatchable" \in set, manual |-> "manual" \in set]
Edge(action, from, to, set) ==
    [action_key |-> action, from_status |-> from, to_status |-> to,
     manual_allowed |-> "manual" \in set, external_allowed |-> "external" \in set,
     automatic |-> "automatic" \in set, mark_started |-> "mark_started" \in set,
     mark_completed |-> "mark_completed" \in set,
     clear_completed |-> "clear_completed" \in set,
     clear_failure |-> "clear_failure" \in set,
     reset_retry |-> "reset_retry" \in set]
==============================================================================
