---------------------------- MODULE DeviceArbiter ----------------------------
(***************************************************************************)
(* The per-device execution arbiter (PNQ-001) in enforced mode, for one     *)
(* device: the root and operation ledgers, the egress calls in flight, the  *)
(* result waiters of the WebSocket server, the phone, and what the jobs and  *)
(* workflows tables and the workflow executor add to it.                    *)
(*                                                                         *)
(* Every arbiter method is one transaction under the device's advisory      *)
(* lock, so it is one step; an egress call is two (prepare, complete) with  *)
(* the send between them.  A root's own operation carries the root's name.  *)
(* A row that holds "_at" columns keeps only which of them are set.         *)
(***************************************************************************)
EXTENDS Naturals, FiniteSets

CONSTANTS
    Jobs,              \* standalone jobs: root and operation
    Workflows,         \* server workflows: root and "workflow" operation
    Children,          \* child jobs of server workflows: operations only
    ParentOf,          \* child |-> workflow
    RootStatuses, RootStates, RootTransitions,   \* lifecycle of the roots
    OpStatuses, OpStates, OpTransitions,         \* lifecycle of the operations
    Completed, Failed, Cancelled,   \* terminal statuses, named alike in every table
    NULL

R == INSTANCE Lifecycle WITH Statuses <- RootStatuses, StateDefinitions <- RootStates,
                             Transitions <- RootTransitions
O == INSTANCE Lifecycle WITH Statuses <- OpStatuses, StateDefinitions <- OpStates,
                             Transitions <- OpTransitions

Roots == Jobs \cup Workflows
JobOps == Jobs \cup Children
Ops == Roots \cup Children
RootOf(o) == IF o \in Children THEN ParentOf[o] ELSE o
NoRow == [row |-> NULL]

VARIABLES
    roots,        \* device_execution_roots
    operations,   \* device_execution_operations
    egress,       \* egress calls between prepare and complete
    waiters,      \* permits with an entry in pendingJobs
    phone,        \* job frames the phone has received
    jobRows,      \* how far a jobs row and its root have been ended by the dispatcher
    workflowRows, \* workflows.status
    executor      \* where the workflow executor is with a workflow

ledgers == <<roots, operations>>
records == <<jobRows, workflowRows, executor>>
vars == <<roots, operations, egress, waiters, phone, jobRows, workflowRows, executor>>

Ends == {Completed, Failed, Cancelled}

RootRow == [state : RootStatuses, fifo : Nat, generation : Nat, claimed : BOOLEAN,
            dispatching : BOOLEAN, dispatched : BOOLEAN, terminal : BOOLEAN, ambiguous : BOOLEAN]
OpRow == [state : OpStatuses, generation : Nat, dispatching : BOOLEAN,
          dispatched : BOOLEAN, terminal : BOOLEAN]
Permit == [op : JobOps, generation : Nat]
Call == [op : JobOps, generation : Nat, wire : {"pending", "sent", "failed"}]
Frame == [op : JobOps, generation : Nat, status : {"executing", "succeeded", "failed"}]

-----------------------------------------------------------------------------
(* The selectors of the arbiter, and what the lifecycles must offer. *)

ToDispatching == [terminal |-> FALSE, retryable |-> FALSE, dispatchable |-> FALSE, manual |-> FALSE]
ToDispatched == [terminal |-> FALSE, dispatchable |-> TRUE, manual |-> FALSE]
ToAmbiguous == [terminal |-> FALSE, manual |-> TRUE]
ToAnyLive == [terminal |-> FALSE]
ToOutcome_Completed(success) == [terminal |-> TRUE, retryable |-> FALSE, administrative |-> FALSE]
ToOutcome(success) == [terminal |-> TRUE, retryable |-> ~success, administrative |-> FALSE]
ToEnded == [terminal |-> TRUE]
Automatic == [automatic |-> TRUE]
Unmarked == [automatic |-> TRUE, mark_started |-> FALSE]
Reported == [external_allowed |-> TRUE]
Manual == [manual_allowed |-> TRUE, mark_completed |-> TRUE]

RootInitial == CHOOSE s \in RootStatuses : R!StateMatches(s, [initial |-> TRUE])
OpInitial == CHOOSE s \in OpStatuses : O!StateMatches(s, [initial |-> TRUE])

\* Each lifecycle has one initial status, live and never returned to, from which
\* only a send or a cancellation leads; terminal statuses are left by nothing and
\* mean the same for roots and operations; and every selector but the one of a
\* child's result names at most one transition.
ASSUME DeviceLifecycleAssumption ==
    /\ R!LifecycleAssumption /\ O!LifecycleAssumption
    /\ R!StateMatches(Completed, ToOutcome(TRUE))
    /\ R!StateMatches(Failed, ToOutcome(FALSE))
    /\ R!StateMatches(Cancelled, [terminal |-> TRUE, administrative |-> TRUE])
    /\ \E s \in RootStatuses : \A t \in RootStatuses : R!StateMatches(t, [initial |-> TRUE]) <=> t = s
    /\ \E s \in OpStatuses : \A t \in OpStatuses : O!StateMatches(t, [initial |-> TRUE]) <=> t = s
    /\ R!StateMatches(RootInitial, [terminal |-> FALSE])
    /\ O!StateMatches(OpInitial, [terminal |-> FALSE])
    /\ \A t \in RootTransitions : /\ R!StateMatches(t.to_status, [initial |-> FALSE])
                                  /\ R!StateMatches(t.from_status, [terminal |-> FALSE])
    /\ \A t \in OpTransitions : /\ O!StateMatches(t.to_status, [initial |-> FALSE])
                                /\ O!StateMatches(t.from_status, [terminal |-> FALSE])
    /\ \A s \in RootStatuses : R!StateMatches(s, [terminal |-> TRUE]) =>
          s \in OpStatuses /\ OpStates[s] = RootStates[s]
    /\ R!TransitionTarget(RootInitial, ToAmbiguous, Automatic) = NULL

ASSUME SelectorAssumption ==
    /\ \A s \in RootStatuses :
          /\ ~R!AmbiguousTransition(s, ToDispatching, Unmarked)
          /\ ~R!AmbiguousTransition(s, ToDispatched, Automatic)
          /\ ~R!AmbiguousTransition(s, ToAmbiguous, Automatic)
          /\ ~R!AmbiguousTransition(s, ToEnded, Manual)
          /\ \A b \in BOOLEAN : /\ ~R!AmbiguousTransition(s, ToOutcome(b), Automatic)
                                /\ ~R!AmbiguousTransition(s, ToOutcome(b), Reported)
    /\ \A s \in OpStatuses :
          /\ ~O!AmbiguousTransition(s, ToDispatching, Automatic)
          /\ ~O!AmbiguousTransition(s, ToDispatched, Automatic)
          /\ ~O!AmbiguousTransition(s, ToAmbiguous, Automatic)
          /\ ~O!AmbiguousTransition(s, ToEnded, Manual)
          /\ \A b \in BOOLEAN : ~O!AmbiguousTransition(s, ToOutcome(b), Automatic)

\* A send is prepared only for an operation that is still registered; a root in
\* flight can always be blocked; one that waits for an operator is left by nothing
\* automatic, and a child's result does not lead there; and cancelling a registered
\* operation gives it no outcome.
ASSUME FenceAssumption ==
    /\ \A s \in OpStatuses : O!TransitionTarget(s, ToDispatching, Automatic) # NULL => s = OpInitial
    /\ \A s \in RootStatuses :
          R!StateMatches(s, [initial |-> FALSE, terminal |-> FALSE, manual |-> FALSE]) =>
             R!TransitionTarget(s, ToAmbiguous, Automatic) # NULL
    /\ \A t \in RootTransitions :
          R!StateMatches(t.from_status, ToAmbiguous) => ~t.automatic /\ ~t.external_allowed
    /\ \A s \in RootStatuses :
          ~RootStates[s].dispatchable /\ R!HasTarget(s, ToAnyLive, Automatic) =>
             ~R!StateMatches(R!TransitionTarget(s, ToAnyLive, Automatic), ToAmbiguous)
    /\ \A s \in OpStatuses :
          s = O!TransitionTarget(OpInitial, ToEnded, Manual) => OpStates[s].administrative

ASSUME NameAssumption ==
    /\ ParentOf \in [Children -> Workflows]
    /\ Jobs \cap Workflows = {} /\ Roots \cap Children = {} /\ NULL \notin Roots
    /\ IsFiniteSet(Ops)

-----------------------------------------------------------------------------
(* Reading the ledgers. *)

Admitted(r) == roots[r] # NoRow
Registered(o) == operations[o] # NoRow
RootMatches(r, selector) == Admitted(r) /\ R!StateMatches(roots[r].state, selector)
QueuedRoots == {r \in Roots : RootMatches(r, [initial |-> TRUE])}
ActiveRoots == {r \in Roots : RootMatches(r, [initial |-> FALSE, terminal |-> FALSE])}

\* The phases of a row, told by its timestamps and not by its state.
InitialPhase(row) ==
    ~(row.claimed \/ row.dispatching \/ row.dispatched \/ row.terminal \/ row.ambiguous)
Dispatching(row) == row.dispatching /\ ~row.dispatched /\ ~row.terminal
Dispatched(row) == row.dispatched /\ ~row.terminal

-----------------------------------------------------------------------------
(* Writing a row. *)

NewRoot ==
    [state |-> RootInitial, fifo |-> 1 + Cardinality({r \in Roots : Admitted(r)}), generation |-> 0,
     claimed |-> FALSE, dispatching |-> FALSE, dispatched |-> FALSE, terminal |-> FALSE,
     ambiguous |-> FALSE]
NewOperation(generation) ==
    [state |-> OpInitial, generation |-> generation,
     dispatching |-> FALSE, dispatched |-> FALSE, terminal |-> FALSE]

UpsertedOperation_Reset(o, rootRow) == NewOperation(rootRow.generation)
\* upsertOperation: a registered operation follows its root's generation.
UpsertedOperation(o, rootRow) ==
    IF ~Registered(o) THEN NewOperation(rootRow.generation)
    ELSE IF O!StateMatches(operations[o].state, [initial |-> TRUE])
         THEN [operations[o] EXCEPT !.generation = rootRow.generation]
         ELSE operations[o]

\* updateRootState: the timestamps fill up one after the other.
MovedRoot(row, status, markStarted, increment) ==
    [row EXCEPT !.state = status,
                !.generation = @ + increment,
                !.claimed = TRUE,
                !.dispatching = @ \/ row.claimed \/ ~markStarted,
                !.dispatched = @ \/ row.dispatching \/ RootStates[status].dispatchable]

\* updateOperationState.
MovedOperation(row, status) ==
    LET live == ~OpStates[status].terminal IN
    [row EXCEPT !.state = status,
                !.dispatching = @ \/ live,
                !.dispatched = @ \/ (live /\ (row.dispatching \/ OpStates[status].dispatchable)),
                !.terminal = @ \/ ~live]

EndedRoot(row, status) == [row EXCEPT !.state = status, !.terminal = TRUE]

BlockedRoot_Unchecked(row) ==
    [row EXCEPT !.state = R!TransitionTarget(row.state, ToAmbiguous, Automatic), !.ambiguous = TRUE]
BlockedRoot_GivesUp(row) ==
    LET target == R!TransitionTarget(row.state, ToOutcome(FALSE), Automatic) IN
    IF target = NULL THEN row ELSE EndedRoot(row, target)
\* updateRootAmbiguous: no timestamp tells an ambiguous root apart, its reason does.
BlockedRoot(row) ==
    LET target == R!TransitionTarget(row.state, ToAmbiguous, Automatic) IN
    IF target = NULL THEN row ELSE [row EXCEPT !.state = target, !.ambiguous = TRUE]
BlockedOperation(row) ==
    LET target == O!TransitionTarget(row.state, ToAmbiguous, Automatic) IN
    IF target = NULL THEN row ELSE MovedOperation(row, target)

-----------------------------------------------------------------------------
(* Admission. *)

\* observeAdmission: the root with its operation, or the operation again.
ObserveAdmission(r) ==
    LET row == IF Admitted(r) THEN roots[r] ELSE NewRoot IN
    /\ roots' = [roots EXCEPT ![r] = row]
    /\ operations' = [operations EXCEPT ![r] = UpsertedOperation(r, row)]
    /\ UNCHANGED <<egress, waiters, phone>>

AdmitJob(j) == ObserveAdmission(j) /\ UNCHANGED records

-----------------------------------------------------------------------------
(* The workflow executor, up to its steps. *)

\* runWorkflow reads the row: an initial one is admitted first, a running one resumes.
RunWorkflow(w) ==
    /\ executor[w] = "idle" /\ workflowRows[w] \in {"queued", "running"}
    /\ executor' = [executor EXCEPT ![w] =
          IF workflowRows[w] = "queued" THEN "loaded" ELSE "stepping"]
    /\ UNCHANGED <<ledgers, egress, waiters, phone, jobRows, workflowRows>>

\* A new root behind an active one leaves the workflow's row queued.
AdmitWorkflow(w) ==
    /\ executor[w] = "loaded"
    /\ ObserveAdmission(w)
    /\ executor' = [executor EXCEPT ![w] =
          IF ~Admitted(w) /\ ActiveRoots # {} THEN "stepping" ELSE "admitted"]
    /\ UNCHANGED <<jobRows, workflowRows>>

MarkRunning(w) ==
    /\ executor[w] = "admitted" /\ workflowRows[w] = "queued"
    /\ workflowRows' = [workflowRows EXCEPT ![w] = "running"]
    /\ executor' = [executor EXCEPT ![w] = "stepping"]
    /\ UNCHANGED <<ledgers, egress, waiters, phone, jobRows>>

\* markCompleted after the last step: nothing to do for a row still queued.
MarkCompleted(w) ==
    /\ executor[w] = "stepping"
    /\ executor' = [executor EXCEPT ![w] = "completing"]
    /\ workflowRows' = IF workflowRows[w] = "running"
                       THEN [workflowRows EXCEPT ![w] = Completed] ELSE workflowRows
    /\ UNCHANGED <<ledgers, egress, waiters, phone, jobRows>>

\* An attempt fails: another one will be made, or markFailed ends the row.
AttemptFails(w, last) ==
    /\ executor[w] # "idle"
    /\ executor' = [executor EXCEPT ![w] = IF last THEN "failing" ELSE "idle"]
    /\ workflowRows' = IF last /\ workflowRows[w] \notin Ends
                       THEN [workflowRows EXCEPT ![w] = Failed] ELSE workflowRows
    /\ UNCHANGED <<ledgers, egress, waiters, phone, jobRows>>

\* The fleet kill switch and the administrative close end the row alone.
CloseWorkflowRow(w) ==
    /\ workflowRows[w] \notin Ends
    /\ workflowRows' = [workflowRows EXCEPT ![w] = Failed]
    /\ UNCHANGED <<ledgers, egress, waiters, phone, jobRows, executor>>

-----------------------------------------------------------------------------
(* runStandaloneJobEgress. *)

\* A root that never left the queue goes only when it is the oldest there; a
\* root in dispatch, or a workflow already on the phone, may send one more.
MaySend_AnyQueued(o, r, row) ==
    /\ ActiveRoots \subseteq {r}
    /\ ~row.terminal /\ ~row.ambiguous
    /\ InitialPhase(row) => R!TransitionTarget(row.state, ToDispatching, Unmarked) # NULL
    /\ Dispatched(row) => o \in Children
MaySend_SlotUnchecked(o, r, row) ==
    /\ ~row.terminal /\ ~row.ambiguous
    /\ InitialPhase(row) => /\ \A q \in QueuedRoots : row.fifo <= roots[q].fifo
                            /\ R!TransitionTarget(row.state, ToDispatching, Unmarked) # NULL
    /\ Dispatched(row) => o \in Children
MaySend_Ambiguous(o, r, row) ==
    /\ ActiveRoots \subseteq {r}
    /\ ~row.terminal
    /\ InitialPhase(row) => /\ \A q \in QueuedRoots : row.fifo <= roots[q].fifo
                            /\ R!TransitionTarget(row.state, ToDispatching, Unmarked) # NULL
    /\ Dispatched(row) => o \in Children
MaySend(o, r, row) ==
    /\ ActiveRoots \subseteq {r}
    /\ ~row.terminal /\ ~row.ambiguous
    /\ InitialPhase(row) => /\ \A q \in QueuedRoots : row.fifo <= roots[q].fifo
                            /\ R!TransitionTarget(row.state, ToDispatching, Unmarked) # NULL
    /\ Dispatched(row) => o \in Children

\* The root as the permit finds it: out of the queue under a new generation.
OwningRoot_EachSend(row) ==
    LET target == R!TransitionTarget(row.state, ToDispatching, Unmarked) IN
    IF target # NULL THEN MovedRoot(row, target, FALSE, 1)
    ELSE [row EXCEPT !.generation = @ + 1]
OwningRoot(row) ==
    LET target == R!TransitionTarget(row.state, ToDispatching, Unmarked) IN
    IF InitialPhase(row) THEN MovedRoot(row, target, FALSE, 1)
    ELSE IF ~row.dispatching /\ target # NULL THEN MovedRoot(row, target, FALSE, 0)
    ELSE row

\* The prepare transaction, called by the dispatcher, by the executor for a step, or
\* by the queue's replay of a registered operation.  Whatever it decides, a job's
\* missing root is admitted and the operation registered; a child without a root is
\* turned away.  A permit also needs the operation's own transition.
PrepareEgress(o) ==
    LET r == RootOf(o)
        row == IF Admitted(r) THEN roots[r] ELSE NewRoot
        operation == UpsertedOperation(o, row)
        owner == OwningRoot(row)
        target == O!TransitionTarget(operation.state, ToDispatching, Automatic)
    IN
    /\ o \in Children => Admitted(r) /\ (executor[r] = "stepping" \/ Registered(o))
    /\ \/ /\ ~MaySend(o, r, row)
          /\ roots' = [roots EXCEPT ![r] = row]
          /\ operations' = [operations EXCEPT ![o] = operation]
          /\ UNCHANGED egress
       \/ /\ MaySend(o, r, row)
          /\ roots' = [roots EXCEPT ![r] = owner]
          /\ \/ /\ target = NULL
                /\ operations' = [operations EXCEPT ![o] = operation]
                /\ UNCHANGED egress
             \/ /\ target # NULL
                /\ operations' = [operations EXCEPT ![o] =
                      [MovedOperation(operation, target) EXCEPT !.generation = owner.generation]]
                /\ egress' = egress \cup
                      {[op |-> o, generation |-> owner.generation, wire |-> "pending"]}
    /\ UNCHANGED <<waiters, phone, records>>

PermitOf(call) == [op |-> call.op, generation |-> call.generation]

\* registerWaiter, then the send, which fails when the device is not connected.
WireDispatch(call, sent) ==
    /\ call \in egress /\ call.wire = "pending"
    /\ waiters' = waiters \cup {PermitOf(call)}
    /\ egress' = (egress \ {call}) \cup
                    {[call EXCEPT !.wire = IF sent THEN "sent" ELSE "failed"]}
    /\ phone' = IF sent THEN phone \cup {[op |-> call.op, generation |-> call.generation,
                                          status |-> "executing"]}
                        ELSE phone
    /\ UNCHANGED <<ledgers, records>>

\* The call still speaks for the root and the operation it was given.
StillOwner(call, row, operation) ==
    /\ row.generation = call.generation
    /\ operation.generation = call.generation
    /\ Dispatching(row) \/ (call.op \in Children /\ Dispatched(row))
    /\ ~(call.op \in Children /\ Dispatched(row) /\ operation.terminal)

\* The complete transaction, and the transport's cleanup of an unsent waiter.
CompleteEgress(call) ==
    LET r == RootOf(call.op)
        row == roots[r]
        operation == operations[call.op]
        rootTarget == R!TransitionTarget(row.state, ToDispatched, Automatic)
        opTarget == O!TransitionTarget(operation.state, ToDispatched, Automatic)
    IN
    /\ call \in egress /\ call.wire # "pending"
    /\ egress' = egress \ {call}
    /\ waiters' = IF call.wire = "sent" THEN waiters ELSE waiters \ {PermitOf(call)}
    /\ \/ /\ \/ ~StillOwner(call, row, operation)
             \/ call.wire = "sent" /\ ~Dispatched(row) /\ rootTarget = NULL
          /\ UNCHANGED <<roots, operations>>
       \/ /\ StillOwner(call, row, operation)
          /\ call.wire = "failed"
          /\ roots' = [roots EXCEPT ![r] = BlockedRoot(row)]
          /\ operations' = [operations EXCEPT ![call.op] = BlockedOperation(operation)]
       \/ /\ StillOwner(call, row, operation)
          /\ call.wire = "sent"
          /\ Dispatched(row) \/ rootTarget # NULL
          /\ roots' = [roots EXCEPT ![r] =
                IF Dispatched(row) THEN row ELSE MovedRoot(row, rootTarget, FALSE, 0)]
          /\ operations' = [operations EXCEPT ![call.op] =
                IF opTarget = NULL THEN operation ELSE MovedOperation(operation, opTarget)]
    /\ UNCHANGED <<phone, records>>

-----------------------------------------------------------------------------
(* The phone's answer. *)

\* The phone works on a frame until it is done, whatever the server makes of it.
PhoneFinishes(frame, status) ==
    /\ frame \in phone /\ frame.status = "executing"
    /\ phone' = (phone \ {frame}) \cup {[frame EXCEPT !.status = status]}
    /\ UNCHANGED <<ledgers, egress, waiters, records>>

\* acceptJobResult: who may end an operation by a result.
CurrentDispatchOwner(frame, row, operation) ==
    /\ frame.generation = operation.generation
    /\ \A permit \in waiters : permit.op = frame.op => permit.generation = operation.generation
    /\ row.generation = operation.generation
    /\ \/ Dispatching(operation) /\ (Dispatching(row) \/ Dispatched(row))
       \/ Dispatched(operation) /\ Dispatched(row)

\* A child's result on a root still in dispatch moves the root along whichever
\* live automatic transition there is; two of them are an exception, which rolls
\* the transaction back.
ChildResultRoot(row) ==
    IF Dispatching(row)
    THEN MovedRoot(row, R!TransitionTarget(row.state, ToAnyLive, Automatic), FALSE, 0)
    ELSE row
ChildResultFails(row) ==
    Dispatching(row) /\ ~R!HasTarget(row.state, ToAnyLive, Automatic)

\* A result that is turned away (other owner, no transition) changes nothing.
AcceptJobResult(frame) ==
    LET o == frame.op
        row == roots[RootOf(o)]
        target == R!TransitionTarget(row.state, ToOutcome(frame.status = "succeeded"), Reported)
    IN
    /\ frame \in phone /\ frame.status # "executing"
    /\ target # NULL
    /\ CurrentDispatchOwner(frame, row, operations[o])
    /\ o \in Children => ~ChildResultFails(row)
    /\ roots' = [roots EXCEPT ![RootOf(o)] =
          IF o \in Children THEN ChildResultRoot(row) ELSE EndedRoot(row, target)]
    /\ operations' = [operations EXCEPT ![o] = MovedOperation(@, target)]
    /\ waiters' = {permit \in waiters : permit.op # o}
    /\ UNCHANGED <<egress, phone, records>>

-----------------------------------------------------------------------------
(* Ends that are not the phone's. *)

\* The dispatcher ends the jobs row first, a cancellation or its timeout, and
\* tells the arbiter in a transaction of its own.
EndJobRow(j, how) ==
    /\ jobRows[j] = "open"
    /\ jobRows' = [jobRows EXCEPT ![j] = how]
    /\ UNCHANGED <<ledgers, egress, waiters, phone, workflowRows, executor>>

\* cancelJob's observeTerminal: any root that is not terminal, in any phase.
ObserveCancelled(j) ==
    /\ jobRows[j] = "cancelling"
    /\ jobRows' = [jobRows EXCEPT ![j] = "cancelled"]
    /\ IF Admitted(j) /\ ~roots[j].terminal /\ operations[j].generation = roots[j].generation
       THEN /\ roots' = [roots EXCEPT ![j] = EndedRoot(@, Cancelled)]
            /\ operations' = [operations EXCEPT ![j] = MovedOperation(@, Cancelled)]
       ELSE UNCHANGED ledgers
    /\ UNCHANGED <<egress, waiters, phone, workflowRows, executor>>

\* markAmbiguous for an operation, expecting a generation.
MarkedAmbiguous(o, generation) ==
    LET r == RootOf(o)
        blocks == /\ Admitted(r) /\ ~roots[r].terminal /\ roots[r].generation = generation
                  /\ R!TransitionTarget(roots[r].state, ToAmbiguous, Automatic) # NULL
    IN
    IF blocks THEN /\ roots' = [roots EXCEPT ![r] = BlockedRoot(@)]
                   /\ operations' = [operations EXCEPT ![o] = BlockedOperation(@)]
    ELSE UNCHANGED ledgers

\* The dispatcher's job timeout.
MarkTimedOut(j) ==
    /\ jobRows[j] = "expiring"
    /\ jobRows' = [jobRows EXCEPT ![j] = "expired"]
    /\ MarkedAmbiguous(j, operations[j].generation)
    /\ UNCHANGED <<egress, waiters, phone, workflowRows, executor>>

\* A disconnect, or the waiter timeout of a standalone job: the waiter goes once
\* the root is known ambiguous or terminal, and is kept otherwise.
WaiterLost(permit) ==
    LET r == RootOf(permit.op) IN
    /\ permit \in waiters
    /\ MarkedAmbiguous(permit.op, permit.generation)
    /\ waiters' = IF roots[r].terminal \/ roots' # roots THEN waiters \ {permit} ELSE waiters
    /\ UNCHANGED <<egress, phone, records>>

ExpireServerWorkflowChild_AnyJob(permit) ==
    LET target == O!TransitionTarget(operations[permit.op].state, ToOutcome(FALSE), Automatic) IN
    /\ permit \in waiters /\ target # NULL
    /\ operations' = [operations EXCEPT ![permit.op] = MovedOperation(@, target)]
    /\ waiters' = waiters \ {permit}
    /\ UNCHANGED <<roots, egress, phone, records>>
\* expireServerWorkflowChild: the child's operation ends, its root stays.
ExpireServerWorkflowChild(permit) ==
    LET o == permit.op
        row == roots[RootOf(o)]
        target == O!TransitionTarget(operations[o].state, ToOutcome(FALSE), Automatic)
    IN
    /\ permit \in waiters /\ o \in Children
    /\ permit.generation = operations[o].generation /\ permit.generation = row.generation
    /\ ~operations[o].terminal /\ ~row.ambiguous /\ ~row.terminal
    /\ target # NULL
    /\ operations' = [operations EXCEPT ![o] = MovedOperation(@, target)]
    /\ waiters' = waiters \ {permit}
    /\ UNCHANGED <<roots, egress, phone, records>>

\* What the executor tells finishServerWorkflowRoot: the end it just recorded, or
\* the end it found in the row, when it started or when the row refused to run.
Finishing(w, successful) ==
    \/ executor[w] = "completing" /\ successful
    \/ executor[w] = "failing" /\ ~successful
    \/ /\ executor[w] \in {"idle", "admitted"}
       /\ workflowRows[w] \in Ends
       /\ successful <=> workflowRows[w] = Completed

\* finishServerWorkflowRoot: a root that is open, known and can end so, ends; its
\* children are not consulted.  A refusal is not looked at.
FinishServerWorkflowRoot(w, successful) ==
    LET target == R!TransitionTarget(roots[w].state, ToOutcome(successful), Automatic)
        opTarget == O!TransitionTarget(operations[w].state, ToOutcome(successful), Automatic)
        ends == Admitted(w) /\ ~roots[w].terminal /\ ~roots[w].ambiguous /\ target # NULL
    IN
    /\ Finishing(w, successful)
    /\ executor' = [executor EXCEPT ![w] = "idle"]
    /\ roots' = IF ends THEN [roots EXCEPT ![w] = EndedRoot(@, target)] ELSE roots
    /\ operations' = IF ~ends \/ opTarget = NULL THEN operations
                     ELSE [operations EXCEPT ![w] = [MovedOperation(@, opTarget)
                                                     EXCEPT !.generation = roots[w].generation]]
    /\ UNCHANGED <<egress, waiters, phone, jobRows, workflowRows>>

\* cancelQueuedPersistedWorkflow: a queued row, with its root and what is registered
\* under it if that root was admitted and never left the queue.
CancelQueuedPersistedWorkflow(w) ==
    LET target == R!TransitionTarget(roots[w].state, ToEnded, Manual)
        Cancels(o) == /\ Registered(o) /\ RootOf(o) = w
                      /\ O!StateMatches(operations[o].state, [initial |-> TRUE])
                      /\ O!TransitionTarget(operations[o].state, ToEnded, Manual) # NULL
    IN
    /\ workflowRows[w] = "queued"
    /\ workflowRows' = [workflowRows EXCEPT ![w] = Cancelled]
    /\ \/ ~Admitted(w) /\ UNCHANGED ledgers
       \/ /\ Admitted(w) /\ InitialPhase(roots[w])
          /\ RootMatches(w, [initial |-> TRUE])
          /\ target # NULL
          /\ roots' = [roots EXCEPT ![w] = EndedRoot(@, target)]
          /\ operations' = [o \in Ops |->
                IF Cancels(o)
                THEN [operations[o] EXCEPT
                        !.state = O!TransitionTarget(@, ToEnded, Manual),
                        !.generation = roots[w].generation, !.terminal = TRUE]
                ELSE operations[o]]
    /\ UNCHANGED <<egress, waiters, phone, jobRows, executor>>

-----------------------------------------------------------------------------
(* Repairs from the evidence of the jobs and workflows tables. *)

\* reconcileTerminalWorkflowRoots: a root that waits for an operator, whose workflow
\* has ended, whose own operation carries its generation, and whose children's jobs
\* ended some time ago ("settled").
TerminalEvidence(w, root, ops, settled) ==
    /\ root # NoRow /\ R!StateMatches(root.state, [terminal |-> FALSE, manual |-> TRUE])
    /\ workflowRows[w] \in Ends
    /\ ops[w].generation = root.generation
    /\ \A c \in Children : RootOf(c) = w /\ ops[c] # NoRow =>
          /\ c \in settled
          /\ \/ O!StateMatches(ops[c].state, [terminal |-> TRUE])
             \/ /\ O!StateMatches(ops[c].state, [terminal |-> FALSE, manual |-> TRUE])
                /\ ops[c].generation = root.generation

\* reconcileUndispatchedTimedOutServerWorkflows: an open root and an open workflow,
\* all of whose jobs ended although none was reported started ("unstarted").
NeverStarted(w, root, ops, unstarted) ==
    /\ root # NoRow /\ R!StateMatches(root.state, [terminal |-> FALSE])
    /\ workflowRows[w] \notin Ends
    /\ \E c \in Children : RootOf(c) = w /\ c \in unstarted
    /\ \A c \in Children : RootOf(c) = w /\ ops[c] # NoRow => c \in unstarted

\* The operations of a repaired root take over its end; the first repair leaves
\* their terminal_at alone.
RepairedOperation(operation, generation, status, stamps) ==
    IF /\ operation # NoRow /\ operation.generation \in generation
       /\ O!StateMatches(operation.state, [terminal |-> FALSE])
    THEN [operation EXCEPT !.state = status, !.terminal = @ \/ stamps]
    ELSE operation

\* The ledgers after both repairs of the given ones.
Repaired(rootsNow, opsNow, settled, unstarted) ==
    LET ended == {w \in Workflows : TerminalEvidence(w, rootsNow[w], opsNow, settled)}
        failed == {w \in Workflows : NeverStarted(w, rootsNow[w], opsNow, unstarted)}
    IN
    /\ roots' = [r \in Roots |->
          CASE r \in ended -> EndedRoot(rootsNow[r], workflowRows[r])
            [] r \in failed -> EndedRoot(rootsNow[r], Failed)
            [] OTHER -> rootsNow[r]]
    /\ operations' = [o \in Ops |->
          CASE RootOf(o) \in ended ->
                  RepairedOperation(opsNow[o], {rootsNow[RootOf(o)].generation},
                                    workflowRows[RootOf(o)], FALSE)
            [] RootOf(o) \in failed -> RepairedOperation(opsNow[o], Nat, Failed, TRUE)
            [] OTHER -> opsNow[o]]
    /\ workflowRows' = [w \in Workflows |-> IF w \in failed THEN Failed ELSE workflowRows[w]]

\* The edge workflows' watchdog runs the first repair for every device.
ReconcileTerminalWorkflowRoots(settled) ==
    /\ Repaired(roots, operations, settled, {})
    /\ UNCHANGED <<egress, waiters, phone, jobRows, executor>>

\* A crash forgets every call, waiter, unfinished follow-up and run; the next process
\* blocks whatever was in flight (reconcileInFlightAtStartup) and repairs what it
\* can before it serves.
InFlight_Dispatched(r) ==
    /\ RootMatches(r, [initial |-> FALSE, terminal |-> FALSE, manual |-> FALSE])
    /\ roots[r].dispatched
    /\ R!TransitionTarget(roots[r].state, ToAmbiguous, Automatic) # NULL
InFlight(r) ==
    /\ RootMatches(r, [initial |-> FALSE, terminal |-> FALSE, manual |-> FALSE])
    /\ R!TransitionTarget(roots[r].state, ToAmbiguous, Automatic) # NULL
ReconciledOperation(o) ==
    LET target == O!TransitionTarget(operations[o].state, ToAmbiguous, Automatic) IN
    IF /\ Registered(o) /\ InFlight(RootOf(o))
       /\ O!StateMatches(operations[o].state, [terminal |-> FALSE])
       /\ target # NULL
    THEN [operations[o] EXCEPT !.state = target]
    ELSE operations[o]
Restart(settled, unstarted) ==
    /\ Repaired([r \in Roots |-> IF InFlight(r) THEN BlockedRoot(roots[r]) ELSE roots[r]],
                [o \in Ops |-> ReconciledOperation(o)], settled, unstarted)
    /\ egress' = {}
    /\ waiters' = {}
    /\ jobRows' = [j \in Jobs |-> CASE jobRows[j] = "cancelling" -> "cancelled"
                                     [] jobRows[j] = "expiring" -> "expired"
                                     [] OTHER -> jobRows[j]]
    /\ executor' = [w \in Workflows |-> "idle"]
    /\ UNCHANGED phone

-----------------------------------------------------------------------------
Init ==
    /\ roots = [r \in Roots |-> NoRow]
    /\ operations = [o \in Ops |-> NoRow]
    /\ egress = {}
    /\ waiters = {}
    /\ phone = {}
    /\ jobRows = [j \in Jobs |-> "open"]
    /\ workflowRows = [w \in Workflows |-> "queued"]
    /\ executor = [w \in Workflows |-> "idle"]

Next ==
    \/ \E j \in Jobs : AdmitJob(j)
    \/ \E w \in Workflows : RunWorkflow(w) \/ AdmitWorkflow(w) \/ MarkRunning(w)
                            \/ MarkCompleted(w) \/ CloseWorkflowRow(w)
    \/ \E w \in Workflows, last \in BOOLEAN : AttemptFails(w, last)
    \/ \E o \in JobOps : PrepareEgress(o)
    \/ \E call \in egress, sent \in BOOLEAN : WireDispatch(call, sent)
    \/ \E call \in egress : CompleteEgress(call)
    \/ \E frame \in phone, status \in {"succeeded", "failed"} : PhoneFinishes(frame, status)
    \/ \E frame \in phone : AcceptJobResult(frame)
    \/ \E j \in Jobs, how \in {"cancelling", "expiring"} : EndJobRow(j, how)
    \/ \E j \in Jobs : ObserveCancelled(j) \/ MarkTimedOut(j)
    \/ \E permit \in waiters : WaiterLost(permit) \/ ExpireServerWorkflowChild(permit)
    \/ \E w \in Workflows, successful \in BOOLEAN : FinishServerWorkflowRoot(w, successful)
    \/ \E w \in Workflows : CancelQueuedPersistedWorkflow(w)
    \/ \E settled \in SUBSET Children : ReconcileTerminalWorkflowRoots(settled)
    \/ \E settled \in SUBSET Children : \E unstarted \in SUBSET settled :
          Restart(settled, unstarted)

Spec == Init /\ [][Next]_vars

-----------------------------------------------------------------------------
(* Properties. *)

\* Every row is well formed; above all, no update writes a NULL status.
TypeOK ==
    /\ roots \in [Roots -> RootRow \cup {NoRow}]
    /\ operations \in [Ops -> OpRow \cup {NoRow}]
    /\ egress \subseteq Call
    /\ waiters \subseteq Permit
    /\ phone \subseteq Frame
    /\ jobRows \in [Jobs -> {"open", "cancelling", "cancelled", "expiring", "expired"}]
    /\ workflowRows \in [Workflows -> {"queued", "running"} \cup Ends]
    /\ executor \in [Workflows -> {"idle", "loaded", "admitted", "stepping", "completing", "failing"}]

\* At most one root holds the device, although no index says so: the slot is
\* guarded by a read of other rows.
OneActiveRoot == \A r, s \in ActiveRoots : r = s

\* A job is sent to the phone once: an egress call that has yet to send is alone,
\* and the phone has not seen its operation.  Repeated dispatches of a job, and the
\* sends after a failed one or a restart, all meet the operation's row.
SentOnce ==
    \A call \in egress : call.wire = "pending" =>
        /\ \A other \in egress : other.op = call.op => other = call
        /\ \A frame \in phone : frame.op # call.op

\* The fence is stable: a frame's handle is still the handle of its root and its
\* operation when it is answered, however many siblings went out in between.
HandleStaysCurrent ==
    \A frame \in phone :
        /\ frame.generation > 0
        /\ frame.generation = operations[frame.op].generation
        /\ frame.generation = roots[RootOf(frame.op)].generation

\* While the phone works on a standalone job, the device is that job's, through
\* timeouts, disconnects and restarts: only a cancellation takes it away.
JobFrameHoldsDevice ==
    \A frame \in phone : frame.status = "executing" /\ frame.op \in Jobs =>
        frame.op \in ActiveRoots \/ roots[frame.op].state = Cancelled

\* An outcome is the phone's word.  A job's completion and failure, and a child's
\* completion, were reported so by a frame (a child's failure may be a timer's, and
\* a repair that copies a workflow's status to a child sets no terminal_at).
OutcomeIsThePhones ==
    \A o \in JobOps :
        LET Said(status) == \E frame \in phone : frame.op = o /\ frame.status = status
            Is(selector) == /\ Registered(o) /\ operations[o].terminal
                            /\ O!StateMatches(operations[o].state, selector)
        IN  /\ Is(ToOutcome(TRUE)) => Said("succeeded")
            /\ Is(ToOutcome(FALSE)) => Said("failed") \/ o \in Children

\* No sent frame is forgotten: until its operation or root has ended, a waiter
\* stands for it or its root is marked ambiguous.
FrameIsAccountedFor ==
    \A frame \in phone :
        \/ \E permit \in waiters : permit.op = frame.op
        \/ operations[frame.op].terminal
        \/ roots[RootOf(frame.op)].terminal
        \/ roots[RootOf(frame.op)].ambiguous

\* An ambiguous root fails closed: late answers and the executor included, it keeps
\* its place until its job is cancelled or a repair copies its workflow's end, and
\* nothing is prepared for it.
AmbiguousFailsClosed ==
    [][\A r \in Roots : Admitted(r) /\ roots[r].ambiguous =>
          /\ \/ roots'[r] = roots[r]
             \/ r \in Jobs /\ roots'[r].state = Cancelled
             \/ r \in Workflows /\ workflowRows'[r] \in Ends /\ roots'[r].state = workflowRows'[r]
          /\ \A call \in egress' \ egress : call.wire = "pending" => RootOf(call.op) # r]_vars

\* PNQ-001: "At most one root execution may affect a device", said here of roots
\* nobody cancelled.  A server workflow is finished without asking its children.
OneRootOnThePhone ==
    \A f, g \in {frame \in phone : frame.status = "executing"} :
        \/ RootOf(f.op) = RootOf(g.op)
        \/ roots[RootOf(f.op)].state = Cancelled \/ roots[RootOf(g.op)].state = Cancelled
==============================================================================
