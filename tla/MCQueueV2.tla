------------------------------ MODULE MCQueueV2 ------------------------------
(* TLC instance of QueueV2 with the lifecycle of the repository's tests.       *)
EXTENDS QueueV2Refinement, PnqFixture, TLC

\* Nodes, keys, payloads and execution ids are interchangeable.
Symmetry == Permutations(Nodes) \cup Permutations(Keys) \cup Permutations(Payloads)
            \cup Permutations(ExecutionIds)

(* TLC evaluates the right-hand side of a <- at every use, and a definition it  *)
(* reaches by name once: the tables have names here for that.                  *)
MCStatuses == PnqStatuses
MCStateDefinitions == PnqStateDefinitions
MCTransitions == PnqTransitions
==============================================================================
