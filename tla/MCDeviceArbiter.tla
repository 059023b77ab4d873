--------------------------- MODULE MCDeviceArbiter ---------------------------
(* TLC instance of DeviceArbiter with the lifecycles of the repository's tests. *)
EXTENDS DeviceArbiterRefinement, DeviceFixture, TLC

\* Every child belongs to the one workflow.
OneParent == [c \in Children |-> CHOOSE w \in Workflows : TRUE]

\* Jobs are interchangeable, and so are children.
Symmetry == Permutations(Jobs) \cup Permutations(Children)

(* TLC evaluates the right-hand side of a <- at every use, and a definition it  *)
(* reaches by name once: the tables have names here for that.                  *)
MCParentOf == OneParent
MCRootStatuses == FixtureRootStatuses
MCRootStates == FixtureRootStates
MCRootTransitions == FixtureRootTransitions
MCOpStatuses == FixtureOpStatuses
MCOpStates == FixtureOpStates
MCOpTransitions == FixtureOpTransitions
==============================================================================
