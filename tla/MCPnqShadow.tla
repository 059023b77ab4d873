----------------------------- MODULE MCPnqShadow -----------------------------
(* TLC instance of PnqShadow: every legacy job belongs to the one device, and  *)
(* the job lifecycle is the repository's test fixture, as in MCQueueV2.        *)
EXTENDS PnqShadow, PnqFixture, TLC

OneDevice == [k \in Keys |-> CHOOSE d \in Nodes : TRUE]

\* Sockets, keys and execution ids are interchangeable.
Symmetry == Permutations(Sockets) \cup Permutations(Keys) \cup Permutations(ExecutionIds)

(* TLC evaluates the right-hand side of a <- at every use, and a definition it  *)
(* reaches by name once: the tables have names here for that.                  *)
MCDeviceOf == OneDevice
MCStatuses == PnqStatuses
MCStateDefinitions == PnqStateDefinitions
MCTransitions == PnqTransitions
==============================================================================
