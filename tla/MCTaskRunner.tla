---------------------------- MODULE MCTaskRunner ----------------------------
(* TLC instance of TaskRunner: two tasks share a phone, one with an account.  *)
EXTENDS TaskRunner, TaskFixture

CONSTANTS t1, t2, d1

OnePhone == [t \in Tasks |-> d1]
Schedule == [t \in Tasks |-> CASE t = t1 -> 1 [] t = t2 -> 2]

(* TLC evaluates the right-hand side of a <- at every use, and a definition it  *)
(* reaches by name once: the tables have names here for that.                  *)
MCDeviceOf == OnePhone
MCScheduledTime == Schedule
MCStatuses == TaskStatuses
MCStates == TaskStates
MCTransitions == TaskTransitions
MCSortOrder == TaskSortOrder
==============================================================================
