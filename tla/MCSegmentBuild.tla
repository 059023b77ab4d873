--------------------------- MODULE MCSegmentBuild ---------------------------
(* Model values and the build lifecycle for SegmentBuild.                      *)
EXTENDS SegmentBuild, SegmentFixture, TLC

\* Versions, runs and retries are interchangeable.
Symmetry == Permutations(Versions) \cup Permutations(Runs) \cup Permutations(Retriers)

(* TLC evaluates the right-hand side of a <- at every use, and a definition it  *)
(* reaches by name once: the tables have names here for that.                  *)
MCStatuses == BuildStatuses
MCStates == BuildStates
MCTransitions == BuildTransitions
=============================================================================
