------------------------------ MODULE Lifecycle ------------------------------
(***************************************************************************)
(* The generic lifecycle registry of PostgreSQL (migrations 105, 110, 111). *)
(* No state machine is written in the server's code: an operator configures *)
(* lifecycle_state_definitions and lifecycle_transitions, and every queue   *)
(* asks "which transition out of this status satisfies these flags?".  The  *)
(* configuration is therefore a constant here, and what is proved about a   *)
(* queue holds for every configuration that meets the stated assumptions.   *)
(***************************************************************************)

CONSTANTS
    Statuses,          \* the statuses of one lifecycle_key
    StateDefinitions,  \* status |-> row of lifecycle_state_definitions
    Transitions,       \* rows of lifecycle_transitions
    NULL               \* SQL NULL

\* The capability flags of a state, and of a transition.
StateFlags == [initial : BOOLEAN, terminal : BOOLEAN, retryable : BOOLEAN,
               administrative : BOOLEAN, dispatchable : BOOLEAN, manual : BOOLEAN]
TransitionRow == [action_key : STRING, from_status : Statuses, to_status : Statuses,
                  manual_allowed : BOOLEAN, external_allowed : BOOLEAN, automatic : BOOLEAN,
                  mark_started : BOOLEAN, mark_completed : BOOLEAN,
                  clear_completed : BOOLEAN, clear_failure : BOOLEAN,
                  reset_retry : BOOLEAN]

ASSUME LifecycleAssumption ==
    /\ StateDefinitions \in [Statuses -> StateFlags]
    /\ Transitions \subseteq TransitionRow
    /\ NULL \notin Statuses

\* A selector names the flags it cares about; a flag it does not name is free.
Satisfies(row, selector) == \A flag \in DOMAIN selector : row[flag] = selector[flag]

\* SQL lifecycle_state_matches(table, status, selector).
StateMatches(status, selector) ==
    /\ status \in Statuses
    /\ Satisfies(StateDefinitions[status], selector)

\* The transitions lifecycle_transition_target counts: the target* keys of its
\* selector constrain the target state, the others constrain the transition.
MatchingTransitions(from, targetSelector, edgeSelector) ==
    {t \in Transitions : /\ t.from_status = from
                         /\ Satisfies(StateDefinitions[t.to_status], targetSelector)
                         /\ Satisfies(t, edgeSelector)}

\* SQL lifecycle_transition_target raises when the selector is ambiguous ...
AmbiguousTransition(from, targetSelector, edgeSelector) ==
    \E t, u \in MatchingTransitions(from, targetSelector, edgeSelector) : t # u

\* ... returns NULL when nothing matches, else the one target there is.
TransitionTarget(from, targetSelector, edgeSelector) ==
    LET matching == MatchingTransitions(from, targetSelector, edgeSelector)
    IN  IF matching = {} THEN NULL ELSE (CHOOSE t \in matching : TRUE).to_status

\* A target a caller can move to: one matching transition, so neither NULL nor
\* an exception.
HasTarget(from, targetSelector, edgeSelector) ==
    /\ TransitionTarget(from, targetSelector, edgeSelector) # NULL
    /\ ~AmbiguousTransition(from, targetSelector, edgeSelector)
==============================================================================
