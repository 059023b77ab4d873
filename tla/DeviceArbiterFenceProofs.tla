----------------------- MODULE DeviceArbiterFenceProofs -----------------------
(***************************************************************************)
(* Proofs about the fence of DeviceArbiter: what a permit, once given, goes *)
(* on to mean, for every configured lifecycle that meets FenceAssumption.   *)
(*                                                                         *)
(* A permit is good for one send because its operation has left its initial *)
(* status; its generation stays the generation of the root because a root   *)
(* that has left the queue is not numbered again; and an ambiguous root     *)
(* keeps its place because no automatic transition leads away from it.      *)
(***************************************************************************)
EXTENDS DeviceArbiterProofs, DeviceArbiterRefinement

-----------------------------------------------------------------------------
(* The invariant. *)

\* Timestamps, status and generation of a root agree: it is terminal where its status
\* is, is numbered when it leaves the queue and not before, and is ambiguous exactly
\* while its status waits for an operator.
WellFormedRoot(row) ==
    /\ row \in RootRow
    /\ row.terminal <=> RootStates[row.state].terminal
    /\ row.claimed \/ row.dispatching \/ row.dispatched =>
          row.generation > 0 /\ row.state # RootInitial
    /\ InitialPhase(row) => row.generation = 0 /\ row.state = RootInitial
    /\ row.ambiguous => row.state # RootInitial
    /\ row.ambiguous /\ ~row.terminal => RootStates[row.state].manual
    /\ ~row.terminal /\ row.state # RootInitial =>
          /\ RootStates[row.state].manual => row.ambiguous
          /\ RootStates[row.state].dispatchable => row.dispatched \/ row.ambiguous

WellFormedOperation(row) == row \in OpRow /\ (row.terminal => OpStates[row.state].terminal)

WellFormed ==
    /\ \A r \in Roots : Admitted(r) => WellFormedRoot(roots[r])
    /\ \A o \in JobOps : Registered(o) => WellFormedOperation(operations[o])

\* A permit that was given is the handle of its root and its operation, and neither of
\* them is in the queue any more.
Current(permit) ==
    /\ permit.generation > 0
    /\ operations[permit.op].generation = permit.generation
    /\ operations[permit.op].state # OpInitial
    /\ roots[RootOf(permit.op)].generation = permit.generation
    /\ ~InitialPhase(roots[RootOf(permit.op)])
HandlesCurrent ==
    /\ \A call \in egress : Current(call)
    /\ \A permit \in waiters : Current(permit)
    /\ \A frame \in phone : Current(frame)

\* An operation has one call and one frame, and a call that did not send has none.
OneSend ==
    /\ \A call, other \in egress : call.op = other.op => call = other
    /\ \A frame, other \in phone : frame.op = other.op => frame = other
    /\ \A call \in egress, frame \in phone : call.op = frame.op => call.wire = "sent"

\* Until the phone has answered, a standalone job's root is open or cancelled.
Held(row) == ~row.terminal \/ row.state = Cancelled
JobsHeld ==
    /\ \A call \in egress : call.wire = "pending" /\ call.op \in Jobs => Held(roots[call.op])
    /\ \A frame \in phone : frame.status = "executing" /\ frame.op \in Jobs => Held(roots[frame.op])

Fenced == /\ WellFormed /\ HandlesCurrent /\ OneSend /\ JobsHeld
          /\ FrameIsAccountedFor /\ OutcomeIsThePhones

FenceInv == ArbiterInv /\ Fenced

-----------------------------------------------------------------------------
(* What the lifecycles offer. *)

\* What the selectors of the arbiter say of a target.
LEMMA TargetSelects ==
    ASSUME NEW flags
    PROVE  /\ R!Satisfies(flags, ToDispatching) =>
                 flags.terminal = FALSE /\ flags.dispatchable = FALSE /\ flags.manual = FALSE
           /\ R!Satisfies(flags, ToDispatched) => flags.terminal = FALSE /\ flags.manual = FALSE
           /\ R!Satisfies(flags, ToAmbiguous) <=> flags.terminal = FALSE /\ flags.manual = TRUE
           /\ R!Satisfies(flags, ToAnyLive) => flags.terminal = FALSE
           /\ \A b \in BOOLEAN : R!Satisfies(flags, ToOutcome(b)) <=>
                 flags.terminal = TRUE /\ flags.retryable = ~b /\ flags.administrative = FALSE
<1>1. R!Satisfies(flags, ToDispatching) =>
         flags.terminal = FALSE /\ flags.dispatchable = FALSE /\ flags.manual = FALSE
  BY DEF R!Satisfies, ToDispatching
<1>2. R!Satisfies(flags, ToDispatched) => flags.terminal = FALSE /\ flags.manual = FALSE
  BY DEF R!Satisfies, ToDispatched
<1>3. R!Satisfies(flags, ToAmbiguous) <=> flags.terminal = FALSE /\ flags.manual = TRUE
  <2>1. /\ DOMAIN ToAmbiguous = {"terminal", "manual"}
        /\ ToAmbiguous["terminal"] = FALSE /\ ToAmbiguous["manual"] = TRUE
    BY DEF ToAmbiguous
  <2> QED BY <2>1 DEF R!Satisfies
<1>4. R!Satisfies(flags, ToAnyLive) => flags.terminal = FALSE
  BY DEF R!Satisfies, ToAnyLive
<1>5. ASSUME NEW b \in BOOLEAN
      PROVE  R!Satisfies(flags, ToOutcome(b)) <=>
                flags.terminal = TRUE /\ flags.retryable = ~b /\ flags.administrative = FALSE
  <2>1. /\ DOMAIN ToOutcome(b) = {"terminal", "retryable", "administrative"}
        /\ ToOutcome(b)["terminal"] = TRUE /\ ToOutcome(b)["retryable"] = ~b
        /\ ToOutcome(b)["administrative"] = FALSE
    BY DEF ToOutcome
  <2> QED BY <2>1 DEF R!Satisfies
<1> QED BY <1>1, <1>2, <1>3, <1>4, <1>5

\* The two lifecycles read a selector alike.
LEMMA SameReading ==
    ASSUME NEW s, NEW flags, NEW selector
    PROVE  /\ O!Satisfies(flags, selector) <=> R!Satisfies(flags, selector)
           /\ O!StateMatches(s, selector) <=> s \in OpStatuses /\ R!Satisfies(OpStates[s], selector)
  BY DEF O!Satisfies, R!Satisfies, O!StateMatches

\* A selected target of an operation: from a live status, never the initial one.
LEMMA OpTargetFlags ==
    ASSUME NEW from, NEW target, NEW edge, O!TransitionTarget(from, target, edge) # NULL
    PROVE  LET to == O!TransitionTarget(from, target, edge) IN
           /\ from \in OpStatuses /\ OpStates[from].terminal = FALSE
           /\ to \in OpStatuses /\ OpStates[to].initial = FALSE /\ to # OpInitial
           /\ R!Satisfies(OpStates[to], target)
<1> DEFINE matching == O!MatchingTransitions(from, target, edge)
<1>1. matching # {}
  BY DEF O!TransitionTarget
<1>2. PICK t \in matching : O!TransitionTarget(from, target, edge) = t.to_status
  BY <1>1 DEF O!TransitionTarget
<1>3. /\ t \in OpTransitions /\ t.from_status = from
      /\ O!Satisfies(OpStates[t.to_status], target)
  BY DEF O!MatchingTransitions
<1>4. /\ O!StateMatches(t.to_status, [initial |-> FALSE])
      /\ O!StateMatches(t.from_status, [terminal |-> FALSE])
  BY <1>3, DeviceLifecycleAssumption
<1>5. OpStates[OpInitial].initial = TRUE
  <2>1. PICK q \in OpStatuses : \A u \in OpStatuses : O!StateMatches(u, [initial |-> TRUE]) <=> u = q
    BY DeviceLifecycleAssumption
  <2>2. O!StateMatches(OpInitial, [initial |-> TRUE])
    BY <2>1 DEF OpInitial
  <2> QED BY <2>2, OpSelects
<1> QED BY <1>2, <1>3, <1>4, <1>5, OpSelects, SameReading

\* A terminal status of the roots is one of the operations, with the same flags.
LEMMA SharedEnds ==
    ASSUME NEW s \in RootStatuses, RootStates[s].terminal = TRUE
    PROVE  /\ s \in OpStatuses /\ OpStates[s] = RootStates[s] /\ OpStates[s].terminal = TRUE
           /\ s # OpInitial
<1>1. s \in OpStatuses /\ OpStates[s] = RootStates[s]
  BY RootSelects, DeviceLifecycleAssumption
<1>2. OpStates[OpInitial].terminal = FALSE
  BY OpSelects, DeviceLifecycleAssumption
<1> QED BY <1>1, <1>2

\* The flags of a status are Booleans.
LEMMA FlagTypes ==
    /\ \A s \in RootStatuses : /\ RootStates[s].terminal \in BOOLEAN /\ RootStates[s].manual \in BOOLEAN
                               /\ RootStates[s].initial \in BOOLEAN
                               /\ RootStates[s].dispatchable \in BOOLEAN
                               /\ RootStates[s].retryable \in BOOLEAN
                               /\ RootStates[s].administrative \in BOOLEAN
    /\ \A s \in OpStatuses : /\ OpStates[s].terminal \in BOOLEAN
                             /\ OpStates[s].dispatchable \in BOOLEAN
  BY LifecycleTypes DEF R!StateFlags, O!StateFlags

\* Nothing automatic and nothing reported leads away from a root that has ended or
\* waits for an operator.
LEMMA ClosedRootStays ==
    ASSUME NEW row, WellFormedRoot(row), row.terminal \/ row.ambiguous,
           NEW selector, NEW edge \in {Automatic, Unmarked, Reported}
    PROVE  R!TransitionTarget(row.state, selector, edge) = NULL
<1> SUFFICES ASSUME NEW t \in RootTransitions, t.from_status = row.state, R!Satisfies(t, edge)
             PROVE  FALSE
  BY DEF R!TransitionTarget, R!MatchingTransitions
<1>1. t.automatic = TRUE \/ t.external_allowed = TRUE
  BY DEF R!Satisfies, Automatic, Unmarked, Reported
<1>2. row.state \in RootStatuses /\ RootStates[row.state].terminal = FALSE
  BY DeviceLifecycleAssumption, RootSelects
<1>3. ~row.terminal /\ row.ambiguous
  BY <1>2 DEF WellFormedRoot
<1>4. RootStates[row.state].manual = TRUE
  BY <1>2, <1>3, FlagTypes DEF WellFormedRoot
<1>5. R!StateMatches(t.from_status, ToAmbiguous)
  BY <1>2, <1>4, TargetSelects DEF R!StateMatches
<1> QED BY <1>1, <1>5, FenceAssumption

-----------------------------------------------------------------------------
(* What a step may do to a row. *)

\* A root that has ended stays as it is, an ambiguous one stays ambiguous, and one
\* that has left the queue keeps its generation.
RootFollows(before, after) ==
    /\ WellFormedRoot(after)
    /\ after.fifo = before.fifo
    /\ before.terminal => after = before
    /\ before.ambiguous => after.ambiguous
    /\ ~InitialPhase(before) => ~InitialPhase(after) /\ after.generation = before.generation

\* An operation that has left its initial status keeps its generation.
OpFollows(before, after) ==
    /\ WellFormedOperation(after)
    /\ before.terminal => after.terminal
    /\ before.state # OpInitial => after.state # OpInitial /\ after.generation = before.generation

LEMMA SameRootFollows == ASSUME NEW row, WellFormedRoot(row) PROVE RootFollows(row, row)
  BY DEF RootFollows
LEMMA SameOpFollows == ASSUME NEW row, WellFormedOperation(row) PROVE OpFollows(row, row)
  BY DEF OpFollows

\* The columns of a row have their types.
LEMMA RootColumns ==
    ASSUME NEW row \in RootRow
    PROVE  /\ row.state \in RootStatuses /\ row.generation \in Nat /\ row.fifo \in Nat
           /\ row.claimed \in BOOLEAN /\ row.dispatching \in BOOLEAN /\ row.dispatched \in BOOLEAN
           /\ row.terminal \in BOOLEAN /\ row.ambiguous \in BOOLEAN
  BY DEF RootRow
LEMMA OpColumns ==
    ASSUME NEW row \in OpRow
    PROVE  /\ row.state \in OpStatuses /\ row.generation \in Nat /\ row.terminal \in BOOLEAN
           /\ row.dispatching \in BOOLEAN /\ row.dispatched \in BOOLEAN
  BY DEF OpRow

LEMMA NewRootIsWellFormed ==
    WellFormedRoot(NewRoot) /\ InitialPhase(NewRoot) /\ ~NewRoot.terminal /\ ~NewRoot.ambiguous
<1>1. NewRoot \in RootRow /\ NewRoot.state = RootInitial
  BY NewRootIsTyped
<1>2. /\ ~NewRoot.claimed /\ ~NewRoot.dispatching /\ ~NewRoot.dispatched
      /\ ~NewRoot.terminal /\ ~NewRoot.ambiguous /\ NewRoot.generation = 0
  BY DEF NewRoot
<1>3. RootStates[RootInitial].terminal = FALSE
  BY InitialFlags DEF RootFlags
<1> HIDE DEF NewRoot
<1> QED BY <1>1, <1>2, <1>3 DEF WellFormedRoot, InitialPhase

\* The columns of a root that was moved to another live status.
LEMMA MovedRootColumns ==
    ASSUME NEW row \in RootRow, NEW s \in RootStatuses, NEW increment \in Nat
    PROVE  LET after == MovedRoot(row, s, FALSE, increment) IN
           /\ after \in RootRow /\ after.state = s /\ after.generation = row.generation + increment
           /\ after.claimed /\ after.dispatching
           /\ RootStates[s].dispatchable => after.dispatched
           /\ after.terminal = row.terminal /\ after.ambiguous = row.ambiguous
           /\ after.fifo = row.fifo
<1>1. MovedRoot(row, s, FALSE, increment) \in RootRow
  BY MovedRootIsTyped
<1> QED BY <1>1 DEF MovedRoot, RootRow

\* A root leaves the queue under a new number, or moves on under the one it has.
LEMMA MovedRootFollows ==
    ASSUME NEW row, WellFormedRoot(row), ~row.terminal, ~row.ambiguous,
           NEW s \in RootStatuses, RootStates[s].initial = FALSE,
           RootStates[s].terminal = FALSE, RootStates[s].manual = FALSE,
           NEW increment \in Nat, increment = IF InitialPhase(row) THEN 1 ELSE 0
    PROVE  LET after == MovedRoot(row, s, FALSE, increment) IN
           /\ RootFollows(row, after) /\ ~InitialPhase(after)
           /\ after.generation > 0 /\ ~after.terminal /\ ~after.ambiguous
<1> DEFINE after == MovedRoot(row, s, FALSE, increment)
<1>1. row \in RootRow /\ row.generation \in Nat
  BY RootColumns DEF WellFormedRoot
<1>2. /\ after \in RootRow /\ after.state = s /\ after.generation = row.generation + increment
      /\ after.claimed /\ after.dispatching
      /\ RootStates[s].dispatchable => after.dispatched
      /\ ~after.terminal /\ ~after.ambiguous /\ after.fifo = row.fifo
  <2>1. /\ after \in RootRow /\ after.state = s /\ after.generation = row.generation + increment
        /\ after.claimed /\ after.dispatching
        /\ RootStates[s].dispatchable => after.dispatched
        /\ after.terminal = row.terminal /\ after.ambiguous = row.ambiguous
        /\ after.fifo = row.fifo
    BY ONLY <1>1, MovedRootColumns, s \in RootStatuses, increment \in Nat
  <2> HIDE DEF after
  <2> QED BY <2>1
<1> HIDE DEF after
<1>3. after.generation > 0
  <2>1. CASE InitialPhase(row)
    BY <1>1, <1>2, <2>1
  <2>2. CASE ~InitialPhase(row)
    <3>1. row.generation > 0
      BY <2>2 DEF InitialPhase, WellFormedRoot
    <3> QED BY <1>1, <1>2, <2>2, <3>1
  <2> QED BY <2>1, <2>2
<1>4. s # RootInitial
  BY InitialFlags DEF RootFlags
<1>5. WellFormedRoot(after)
  BY <1>2, <1>3, <1>4 DEF WellFormedRoot, InitialPhase
<1>6. ~InitialPhase(after)
  BY <1>2 DEF InitialPhase
<1>7. ~InitialPhase(row) => after.generation = row.generation
  BY <1>1, <1>2
<1>8. RootFollows(row, after)
  BY <1>2, <1>5, <1>6, <1>7 DEF RootFollows
<1> QED BY <1>2, <1>3, <1>6, <1>8 DEF after

\* An open root ends, and keeps everything but its status.
LEMMA EndedRootFollows ==
    ASSUME NEW row, WellFormedRoot(row), ~row.terminal,
           NEW s \in RootStatuses, RootStates[s].terminal = TRUE
    PROVE  RootFollows(row, EndedRoot(row, s)) /\ EndedRoot(row, s).terminal
<1> DEFINE after == EndedRoot(row, s)
<1>1. row \in RootRow
  BY DEF WellFormedRoot
<1>2. /\ after \in RootRow /\ after.state = s /\ after.terminal
      /\ after.generation = row.generation /\ after.claimed = row.claimed
      /\ after.dispatching = row.dispatching /\ after.dispatched = row.dispatched
      /\ after.ambiguous = row.ambiguous /\ after.fifo = row.fifo
  BY <1>1 DEF EndedRoot, RootRow
<1> HIDE DEF after
<1>3. s # RootInitial
  BY InitialFlags DEF RootFlags
<1>4. WellFormedRoot(after)
  BY <1>2, <1>3 DEF WellFormedRoot, InitialPhase
<1>5. RootFollows(row, after)
  BY <1>2, <1>4 DEF RootFollows, InitialPhase
<1> QED BY <1>2, <1>5 DEF after

\* A root is blocked while it is open and known; else it stays as it is.
LEMMA BlockedRootFollows ==
    ASSUME NEW row, WellFormedRoot(row)
    PROVE  /\ RootFollows(row, BlockedRoot(row)) /\ BlockedRoot(row).terminal = row.terminal
           /\ row.ambiguous => BlockedRoot(row) = row
           /\ R!TransitionTarget(row.state, ToAmbiguous, Automatic) # NULL => BlockedRoot(row).ambiguous
<1> DEFINE target == R!TransitionTarget(row.state, ToAmbiguous, Automatic)
           after == BlockedRoot(row)
<1>1. CASE target = NULL
  BY <1>1, SameRootFollows DEF BlockedRoot
<1>2. CASE target # NULL
  <2>1. ~row.terminal /\ ~row.ambiguous
    BY <1>2, ClosedRootStays
  <2>2. /\ target \in RootStatuses /\ RootStates[target].initial = FALSE
        /\ R!Satisfies(RootStates[target], ToAmbiguous)
    BY <1>2, RootTarget
  <2>3. RootStates[target].terminal = FALSE /\ RootStates[target].manual = TRUE
    BY <2>2, TargetSelects
  <2>4. target # RootInitial
    BY <2>2, InitialFlags DEF RootFlags
  <2>5. row \in RootRow
    BY DEF WellFormedRoot
  <2>6. after = [row EXCEPT !.state = target, !.ambiguous = TRUE]
    BY <1>2 DEF BlockedRoot
  <2> HIDE DEF target
  <2>7. /\ after \in RootRow /\ after.state = target /\ after.ambiguous
        /\ after.generation = row.generation /\ after.claimed = row.claimed
        /\ after.dispatching = row.dispatching /\ after.dispatched = row.dispatched
        /\ after.terminal = row.terminal /\ after.fifo = row.fifo
    BY <2>2, <2>5, <2>6 DEF RootRow
  <2> HIDE DEF after
  <2>8. WellFormedRoot(after)
    BY <2>1, <2>3, <2>4, <2>7 DEF WellFormedRoot, InitialPhase
  <2>9. RootFollows(row, after)
    BY <2>1, <2>7, <2>8 DEF RootFollows, InitialPhase
  <2> QED BY <2>1, <2>7, <2>9 DEF after
<1> QED BY <1>1, <1>2

\* An operation moves to another status than its initial one.
LEMMA MovedOperationFollows ==
    ASSUME NEW row, WellFormedOperation(row), ~row.terminal,
           NEW s \in OpStatuses, s # OpInitial
    PROVE  LET after == MovedOperation(row, s) IN
           /\ OpFollows(row, after) /\ after.state = s
           /\ after.generation = row.generation
           /\ after.terminal = OpStates[s].terminal
<1> DEFINE after == MovedOperation(row, s)
<1>1. row \in OpRow
  BY DEF WellFormedOperation
<1>2. after \in OpRow
  BY <1>1, MovedOperationIsTyped
<1>3. after.state = s /\ after.generation = row.generation
  BY <1>1 DEF MovedOperation, OpRow
<1>4. after.terminal = (row.terminal \/ ~~OpStates[s].terminal)
  BY <1>1 DEF MovedOperation, OpRow
<1>5. OpStates[s].terminal \in BOOLEAN
  BY FlagTypes
<1> HIDE DEF after
<1>6. after.terminal = OpStates[s].terminal
  BY <1>4, <1>5
<1>7. OpFollows(row, after)
  BY <1>2, <1>3, <1>6 DEF OpFollows, WellFormedOperation
<1> QED BY <1>3, <1>6, <1>7 DEF after

\* An operation with an automatic target has not ended.
LEMMA OpenOperation ==
    ASSUME NEW row, WellFormedOperation(row), NEW selector, NEW edge,
           O!TransitionTarget(row.state, selector, edge) # NULL
    PROVE  /\ ~row.terminal
           /\ O!TransitionTarget(row.state, selector, edge) \in OpStatuses
           /\ O!TransitionTarget(row.state, selector, edge) # OpInitial
  BY OpTargetFlags DEF WellFormedOperation

LEMMA BlockedOperationFollows ==
    ASSUME NEW row, WellFormedOperation(row)
    PROVE  /\ OpFollows(row, BlockedOperation(row))
           /\ BlockedOperation(row).terminal => BlockedOperation(row) = row
<1> DEFINE target == O!TransitionTarget(row.state, ToAmbiguous, Automatic)
<1>1. CASE target = NULL
  BY <1>1, SameOpFollows DEF BlockedOperation
<1>2. CASE target # NULL
  <2>1. ~row.terminal /\ target \in OpStatuses /\ target # OpInitial
    BY <1>2, OpenOperation
  <2>2. R!Satisfies(OpStates[target], ToAmbiguous)
    BY <1>2, OpTargetFlags
  <2>3. OpStates[target].terminal = FALSE
    BY <2>2, TargetSelects
  <2>4. BlockedOperation(row) = MovedOperation(row, target)
    BY <1>2 DEF BlockedOperation
  <2> HIDE DEF target
  <2> QED BY <2>1, <2>3, <2>4, MovedOperationFollows
<1> QED BY <1>1, <1>2

\* A new operation, or a registered one that follows its root's generation.
LEMMA UpsertedOperationFollows ==
    ASSUME TypeOK, WellFormed, NEW o \in JobOps, NEW rootRow \in RootRow
    PROVE  LET after == UpsertedOperation(o, rootRow) IN
           /\ WellFormedOperation(after)
           /\ Registered(o) => /\ OpFollows(operations[o], after)
                               /\ after.terminal = operations[o].terminal
                               /\ after.state = operations[o].state
           /\ ~Registered(o) => ~after.terminal
<1> DEFINE after == UpsertedOperation(o, rootRow)
<1>1. rootRow.generation \in Nat /\ o \in Ops
  BY RootColumns DEF JobOps, Ops, Roots
<1>2. CASE ~Registered(o)
  <2>1. after = NewOperation(rootRow.generation)
    BY <1>2 DEF UpsertedOperation
  <2>2. NewOperation(rootRow.generation) \in OpRow
    BY <1>1, NewOperationIsTyped
  <2>3. ~NewOperation(rootRow.generation).terminal
    BY DEF NewOperation
  <2> QED BY <1>2, <2>1, <2>2, <2>3 DEF WellFormedOperation
<1>3. CASE Registered(o) /\ O!StateMatches(operations[o].state, [initial |-> TRUE])
  <2>1. operations[o] \in OpRow /\ WellFormedOperation(operations[o])
    BY <1>3 DEF WellFormed, WellFormedOperation
  <2>2. after = [operations[o] EXCEPT !.generation = rootRow.generation]
    BY <1>3 DEF UpsertedOperation
  <2>3. /\ after \in OpRow /\ after.state = operations[o].state
        /\ after.terminal = operations[o].terminal
    BY <1>1, <2>1, <2>2 DEF OpRow
  <2>4. operations[o].state = OpInitial
    <3>1. PICK q \in OpStatuses : \A u \in OpStatuses : O!StateMatches(u, [initial |-> TRUE]) <=> u = q
      BY DeviceLifecycleAssumption
    <3>2. OpInitial = q
      BY <3>1 DEF OpInitial
    <3> QED BY <1>3, <2>1, <3>1, <3>2, OpColumns
  <2> HIDE DEF after
  <2>5. OpFollows(operations[o], after)
    BY <2>1, <2>3, <2>4 DEF OpFollows, WellFormedOperation
  <2> QED BY <1>3, <2>3, <2>5 DEF after, OpFollows
<1>4. CASE Registered(o) /\ ~O!StateMatches(operations[o].state, [initial |-> TRUE])
  <2>1. after = operations[o]
    BY <1>4 DEF UpsertedOperation
  <2> QED BY <1>4, <2>1, SameOpFollows DEF WellFormed
<1> QED BY <1>2, <1>3, <1>4
-----------------------------------------------------------------------------
(* What a step may do to the ledgers, and what follows from that alone. *)

Said(o, status) == \E frame \in phone : frame.op = o /\ frame.status = status
Answered(j) == \E frame \in phone : frame.op = j /\ frame.status # "executing"

\* The outcome a row of o shows, if it shows one, is what the phone said of o.
Told(o, row) ==
    row.terminal =>
        /\ O!StateMatches(row.state, ToOutcome(TRUE)) => Said(o, "succeeded")
        /\ O!StateMatches(row.state, ToOutcome(FALSE)) => Said(o, "failed") \/ o \in Children

\* Every row follows the one before it; a job's root ends when it was answered or
\* is cancelled; and an operation shows no outcome the phone did not tell.
RootRight(r, row) ==
    /\ Admitted(r) => RootFollows(roots[r], row)
    /\ row # NoRow => WellFormedRoot(row)
    /\ r \in Jobs /\ Admitted(r) /\ ~roots[r].terminal => Held(row) \/ Answered(r)
OpRight(o, row) ==
    /\ Registered(o) => OpFollows(operations[o], row)
    /\ row # NoRow => WellFormedOperation(row) /\ Told(o, row)
LedgersFollow == /\ \A r \in Roots : RootRight(r, roots'[r])
                 /\ \A o \in JobOps : OpRight(o, operations'[o])

\* An ambiguous root stays as it is until its job is cancelled or its workflow's end
\* is copied.
AmbiguousRight(r, row) ==
    Admitted(r) /\ roots[r].ambiguous =>
        \/ row = roots[r]
        \/ r \in Jobs /\ row.state = Cancelled
        \/ r \in Workflows /\ workflowRows'[r] \in Ends /\ row.state = workflowRows'[r]
AmbiguousStays == \A r \in Roots : AmbiguousRight(r, roots'[r])

\* A waiter goes when nothing was sent for it, or its operation or root has ended, or
\* its root is known ambiguous.
WaitersGo ==
    \A permit \in waiters \ waiters' :
        \/ \A frame \in phone : frame.op # permit.op
        \/ operations'[permit.op].terminal
        \/ roots'[RootOf(permit.op)].terminal
        \/ roots'[RootOf(permit.op)].ambiguous

\* Whatever is in flight is about an operation and a root with rows.
LEMMA FlightRows ==
    ASSUME FenceInv
    PROVE  \A item \in egress \cup waiters \cup phone :
              /\ item.op \in JobOps /\ item.op \in Ops /\ RootOf(item.op) \in Roots
              /\ Registered(item.op) /\ Admitted(RootOf(item.op))
              /\ Current(item)
<1>1. \A item \in egress \cup waiters \cup phone : item.op \in JobOps
  BY DEF FenceInv, ArbiterInv, TypeOK, Call, Permit, Frame
<1>2. \A o \in JobOps : o \in Ops
  BY DEF JobOps, Ops, Roots
<1>3. \A item \in egress \cup waiters \cup phone : Registered(item.op) /\ Admitted(RootOf(item.op))
  BY DEF FenceInv, ArbiterInv, Grounded
<1>4. \A item \in egress \cup waiters \cup phone : Current(item)
  BY DEF FenceInv, Fenced, HandlesCurrent
<1> QED BY <1>1, <1>2, <1>3, <1>4, RootOfIsRoot

\* A handle stays current through every step of the ledgers.
LEMMA HandleFollows ==
    ASSUME FenceInv, LedgersFollow, NEW item \in egress \cup waiters \cup phone
    PROVE  Current(item)'
<1> DEFINE o == item.op
           r == RootOf(item.op)
<1>1. /\ o \in JobOps /\ r \in Roots /\ Registered(o) /\ Admitted(r) /\ Current(item)
  BY FlightRows
<1>2. OpFollows(operations[o], operations'[o]) /\ RootFollows(roots[r], roots'[r])
  BY <1>1 DEF LedgersFollow, RootRight, OpRight
<1>3. /\ operations'[o].state # OpInitial
      /\ operations'[o].generation = item.generation
  BY <1>1, <1>2 DEF OpFollows, Current
<1>4. /\ ~InitialPhase(roots'[r])
      /\ roots'[r].generation = item.generation
  BY <1>1, <1>2 DEF RootFollows, Current
<1> QED BY <1>1, <1>3, <1>4 DEF Current

LEMMA RowsStayWellFormed == ASSUME LedgersFollow PROVE WellFormed'
  BY DEF LedgersFollow, RootRight, OpRight, WellFormed, Admitted, Registered

\* What the phone was sent stays accounted for.
LEMMA AccountFollows ==
    ASSUME FenceInv, LedgersFollow, WaitersGo, NEW frame \in phone
    PROVE  \/ \E permit \in waiters' : permit.op = frame.op
           \/ operations'[frame.op].terminal
           \/ roots'[RootOf(frame.op)].terminal
           \/ roots'[RootOf(frame.op)].ambiguous
<1> DEFINE o == frame.op
           r == RootOf(frame.op)
<1>1. /\ o \in JobOps /\ r \in Roots /\ Registered(o) /\ Admitted(r)
  BY FlightRows
<1>2. OpFollows(operations[o], operations'[o]) /\ RootFollows(roots[r], roots'[r])
  BY <1>1 DEF LedgersFollow, RootRight, OpRight
<1>3. CASE operations[o].terminal \/ roots[r].terminal \/ roots[r].ambiguous
  BY <1>2, <1>3 DEF OpFollows, RootFollows
<1>4. CASE \E permit \in waiters : permit.op = o
  BY <1>4 DEF WaitersGo
<1> QED BY <1>3, <1>4 DEF FenceInv, Fenced, FrameIsAccountedFor

\* A held job stays held until it is answered.
LEMMA HoldFollows ==
    ASSUME FenceInv, LedgersFollow, NEW j \in Jobs, Admitted(j), Held(roots[j]), ~Answered(j)
    PROVE  Held(roots'[j])
<1>1. j \in Roots /\ RootRight(j, roots'[j])
  BY DEF LedgersFollow, Roots
<1>2. CASE roots[j].terminal
  BY <1>1, <1>2 DEF RootRight, RootFollows
<1>3. CASE ~roots[j].terminal
  BY <1>1, <1>3 DEF RootRight
<1> QED BY <1>2, <1>3

\* A call that has not sent, and a frame the phone works on, belong to no answered job.
LEMMA NotAnswered ==
    ASSUME FenceInv
    PROVE  /\ \A call \in egress : call.wire = "pending" => ~Answered(call.op)
           /\ \A frame \in phone : frame.status = "executing" => ~Answered(frame.op)
  BY DEF FenceInv, Fenced, OneSend, Answered

\* The steps that start nothing and hear nothing keep the invariant.
LEMMA QuietStep ==
    ASSUME FenceInv, LedgersFollow, WaitersGo,
           egress' \subseteq egress, waiters' \subseteq waiters, phone' = phone
    PROVE  Fenced'
<1>1. WellFormed'
  BY RowsStayWellFormed
<1>2. HandlesCurrent'
  <2>1. \A call \in egress' : Current(call)'
    BY HandleFollows
  <2>2. \A permit \in waiters' : Current(permit)'
    BY HandleFollows
  <2>3. \A frame \in phone' : Current(frame)'
    BY HandleFollows
  <2> QED BY <2>1, <2>2, <2>3 DEF HandlesCurrent
<1>3. OneSend'
  BY DEF FenceInv, Fenced, OneSend
<1>4. JobsHeld'
  <2>1. \A o \in Jobs : RootOf(o) = o
    BY NameAssumption DEF RootOf, Roots
  <2>2. \A call \in egress' : call.wire = "pending" /\ call.op \in Jobs => Held(roots'[call.op])
    <3> SUFFICES ASSUME NEW call \in egress, call.wire = "pending", call.op \in Jobs
                 PROVE  Held(roots'[call.op])
      OBVIOUS
    <3>1. Admitted(call.op) /\ Held(roots[call.op])
      BY <2>1, FlightRows DEF FenceInv, Fenced, JobsHeld
    <3> QED BY <3>1, HoldFollows, NotAnswered
  <2>3. \A frame \in phone' : frame.status = "executing" /\ frame.op \in Jobs => Held(roots'[frame.op])
    <3> SUFFICES ASSUME NEW frame \in phone, frame.status = "executing", frame.op \in Jobs
                 PROVE  Held(roots'[frame.op])
      OBVIOUS
    <3>1. Admitted(frame.op) /\ Held(roots[frame.op])
      BY <2>1, FlightRows DEF FenceInv, Fenced, JobsHeld
    <3> QED BY <3>1, HoldFollows, NotAnswered
  <2> QED BY <2>2, <2>3 DEF JobsHeld
<1>5. FrameIsAccountedFor'
  BY AccountFollows DEF FrameIsAccountedFor
<1>6. OutcomeIsThePhones'
  <2>1. \A o \in JobOps : operations'[o] # NoRow => Told(o, operations'[o])
    BY DEF LedgersFollow, OpRight
  <2> QED BY <2>1 DEF OutcomeIsThePhones, Told, Said, Registered
<1> QED BY <1>1, <1>2, <1>3, <1>4, <1>5, <1>6 DEF Fenced

-----------------------------------------------------------------------------
(* One row is written; the others stay. *)

LEMMA SameRootRight ==
    ASSUME FenceInv, NEW r \in Roots
    PROVE  RootRight(r, roots[r]) /\ AmbiguousRight(r, roots[r])
<1>1. Admitted(r) => WellFormedRoot(roots[r])
  BY DEF FenceInv, Fenced, WellFormed
<1> QED BY <1>1, SameRootFollows DEF RootRight, AmbiguousRight, Held, Admitted

LEMMA SameOpRight ==
    ASSUME FenceInv, NEW o \in JobOps PROVE OpRight(o, operations[o])
<1>1. Registered(o) => WellFormedOperation(operations[o])
  BY DEF FenceInv, Fenced, WellFormed
<1>2. Registered(o) => Told(o, operations[o])
  BY DEF FenceInv, Fenced, OutcomeIsThePhones, Told, Said
<1> QED BY <1>1, <1>2, SameOpFollows DEF OpRight, Registered

RootsRight == \A r \in Roots : RootRight(r, roots'[r]) /\ AmbiguousRight(r, roots'[r])
OpsRight == \A o \in JobOps : OpRight(o, operations'[o])

LEMMA RightIsFollowed == ASSUME RootsRight, OpsRight PROVE LedgersFollow /\ AmbiguousStays
  BY DEF RootsRight, OpsRight, LedgersFollow, AmbiguousStays

LEMMA SameRootsRight == ASSUME FenceInv, roots' = roots PROVE RootsRight
  BY SameRootRight DEF RootsRight
LEMMA SameOpsRight == ASSUME FenceInv, operations' = operations PROVE OpsRight
  BY SameOpRight DEF OpsRight

LEMMA RootRightlyWritten ==
    ASSUME FenceInv, NEW r \in Roots, NEW row, RootRight(r, row), AmbiguousRight(r, row),
           roots' = [roots EXCEPT ![r] = row]
    PROVE  RootsRight /\ roots'[r] = row
<1>1. roots'[r] = row /\ \A s \in Roots : s # r => roots'[s] = roots[s]
  BY DEF FenceInv, ArbiterInv, TypeOK
<1> QED BY <1>1, SameRootRight DEF RootsRight

LEMMA OpRightlyWritten ==
    ASSUME FenceInv, NEW o \in Ops, NEW row, o \in JobOps => OpRight(o, row),
           operations' = [operations EXCEPT ![o] = row]
    PROVE  OpsRight /\ operations'[o] = row
<1>1. \A q \in JobOps : q \in Ops
  BY DEF JobOps, Ops, Roots
<1>2. operations'[o] = row /\ \A q \in Ops : q # o => operations'[q] = operations[q]
  BY DEF FenceInv, ArbiterInv, TypeOK
<1> QED BY <1>1, <1>2, SameOpRight DEF OpsRight

\* A move of an open root that is not ambiguous, and stays open.
LEMMA OpenMoveRight ==
    ASSUME NEW r \in Roots, NEW row, RootFollows(roots[r], row),
           ~roots[r].ambiguous \/ row = roots[r], ~row.terminal \/ row = roots[r]
    PROVE  Admitted(r) => RootRight(r, row) /\ AmbiguousRight(r, row)
<1> SUFFICES ASSUME Admitted(r) PROVE RootRight(r, row) /\ AmbiguousRight(r, row)
  OBVIOUS
<1>1. WellFormedRoot(row)
  BY DEF RootFollows
<1>2. ~roots[r].terminal => Held(row)
  BY DEF Held
<1> QED BY <1>1, <1>2 DEF RootRight, AmbiguousRight

\* A workflow's root is no job's.
LEMMA WorkflowRight ==
    ASSUME NEW w \in Workflows, Admitted(w), NEW row, RootFollows(roots[w], row),
           AmbiguousRight(w, row)
    PROVE  RootRight(w, row)
<1>1. w \notin Jobs
  BY NameAssumption
<1>2. WellFormedRoot(row)
  BY DEF RootFollows
<1> QED BY <1>1, <1>2 DEF RootRight

\* A row that shows no end shows no outcome.
LEMMA LiveOpRight ==
    ASSUME FenceInv, NEW o \in JobOps, NEW row, WellFormedOperation(row),
           Registered(o) => OpFollows(operations[o], row), ~row.terminal
    PROVE  OpRight(o, row)
  BY DEF OpRight, Told

-----------------------------------------------------------------------------
(* The steps that record and admit. *)

LEMMA UnwatchedStep ==
    ASSUME FenceInv, UNCHANGED <<ledgers, egress, waiters, phone>>
    PROVE  Fenced' /\ AmbiguousStays
<1>1. RootsRight /\ OpsRight
  BY SameRootsRight, SameOpsRight DEF ledgers
<1>2. LedgersFollow /\ AmbiguousStays
  BY <1>1, RightIsFollowed
<1>3. WaitersGo
  BY DEF WaitersGo
<1> QED BY <1>2, <1>3, QuietStep

\* The row admission leaves, and the operation with it.
LEMMA AdmittedRowRight ==
    ASSUME FenceInv, NEW r \in Roots
    PROVE  LET row == IF Admitted(r) THEN roots[r] ELSE NewRoot IN
           WellFormedRoot(row) /\ RootRight(r, row) /\ AmbiguousRight(r, row)
<1>1. CASE Admitted(r)
  BY <1>1, SameRootRight DEF FenceInv, Fenced, WellFormed
<1>2. CASE ~Admitted(r)
  BY <1>2, NewRootIsWellFormed DEF RootRight, AmbiguousRight
<1> QED BY <1>1, <1>2

LEMMA UpsertRight ==
    ASSUME FenceInv, NEW o \in JobOps, NEW rootRow \in RootRow
    PROVE  OpRight(o, UpsertedOperation(o, rootRow))
<1> DEFINE after == UpsertedOperation(o, rootRow)
<1>1. TypeOK /\ WellFormed
  BY DEF FenceInv, ArbiterInv, Fenced
<1>2. /\ WellFormedOperation(after)
      /\ Registered(o) => /\ OpFollows(operations[o], after)
                          /\ after.terminal = operations[o].terminal
                          /\ after.state = operations[o].state
      /\ ~Registered(o) => ~after.terminal
  BY <1>1, UpsertedOperationFollows
<1>3. Registered(o) => Told(o, operations[o])
  BY SameOpRight DEF OpRight, Registered
<1> HIDE DEF after
<1>4. Told(o, after)
  BY <1>2, <1>3 DEF Told
<1>5. OpRight(o, after)
  BY <1>2, <1>4 DEF OpRight
<1> QED BY <1>5 DEF after

LEMMA AdmissionFenced ==
    ASSUME FenceInv, NEW r \in Roots, ObserveAdmission(r) PROVE Fenced' /\ AmbiguousStays
<1> DEFINE row == IF Admitted(r) THEN roots[r] ELSE NewRoot
           operation == UpsertedOperation(r, row)
<1>1. WellFormedRoot(row) /\ RootRight(r, row) /\ AmbiguousRight(r, row)
  BY AdmittedRowRight
<1>2. /\ roots' = [roots EXCEPT ![r] = row] /\ operations' = [operations EXCEPT ![r] = operation]
      /\ UNCHANGED <<egress, waiters, phone>>
  BY DEF ObserveAdmission
<1> HIDE DEF row
<1>3. r \in JobOps => OpRight(r, operation)
  BY <1>1, UpsertRight DEF WellFormedRoot
<1> HIDE DEF operation
<1>4. RootsRight /\ OpsRight
  BY <1>1, <1>2, <1>3, RootRightlyWritten, OpRightlyWritten DEF Ops
<1>5. LedgersFollow /\ AmbiguousStays
  BY <1>4, RightIsFollowed
<1>6. WaitersGo
  BY <1>2 DEF WaitersGo
<1> QED BY <1>2, <1>5, <1>6, QuietStep

-----------------------------------------------------------------------------
(* The prepare transaction. *)

\* The root a permit is given for: numbered, out of the queue, open and known.
LEMMA OwningRootFollows ==
    ASSUME NEW row, WellFormedRoot(row), ~row.terminal, ~row.ambiguous,
           InitialPhase(row) => R!TransitionTarget(row.state, ToDispatching, Unmarked) # NULL
    PROVE  LET owner == OwningRoot(row) IN
           /\ RootFollows(row, owner) /\ ~InitialPhase(owner)
           /\ owner.generation > 0 /\ ~owner.terminal /\ ~owner.ambiguous
<1> DEFINE target == R!TransitionTarget(row.state, ToDispatching, Unmarked)
           Good(owner) == /\ RootFollows(row, owner) /\ ~InitialPhase(owner)
                          /\ owner.generation > 0 /\ ~owner.terminal /\ ~owner.ambiguous
<1>1. ASSUME target # NULL
      PROVE  /\ target \in RootStatuses /\ RootStates[target].initial = FALSE
             /\ RootStates[target].terminal = FALSE /\ RootStates[target].manual = FALSE
  <2>1. /\ target \in RootStatuses /\ RootStates[target].initial = FALSE
        /\ R!Satisfies(RootStates[target], ToDispatching)
    BY <1>1, RootTarget
  <2> QED BY <2>1, TargetSelects
<1> HIDE DEF target
<1>2. CASE InitialPhase(row)
  <2>1. OwningRoot(row) = MovedRoot(row, target, FALSE, 1) /\ target # NULL
    BY <1>2 DEF OwningRoot, target
  <2>2. Good(MovedRoot(row, target, FALSE, 1))
    BY <1>1, <1>2, <2>1, MovedRootFollows
  <2> QED BY <2>1, <2>2
<1>3. CASE ~InitialPhase(row) /\ ~row.dispatching /\ target # NULL
  <2>1. OwningRoot(row) = MovedRoot(row, target, FALSE, 0)
    BY <1>3 DEF OwningRoot, target
  <2>2. Good(MovedRoot(row, target, FALSE, 0))
    BY <1>1, <1>3, MovedRootFollows
  <2> QED BY <2>1, <2>2
<1>4. CASE ~InitialPhase(row) /\ ~(~row.dispatching /\ target # NULL)
  <2>1. OwningRoot(row) = row
    BY <1>4 DEF OwningRoot, target
  <2>2. row.generation > 0
    BY <1>4 DEF InitialPhase, WellFormedRoot
  <2> QED BY <1>4, <2>1, <2>2, SameRootFollows
<1> QED BY <1>2, <1>3, <1>4

LEMMA OwnerRight ==
    ASSUME FenceInv, NEW o \in JobOps, NEW row,
           row = IF Admitted(RootOf(o)) THEN roots[RootOf(o)] ELSE NewRoot,
           MaySend(o, RootOf(o), row)
    PROVE  LET owner == OwningRoot(row) IN
           /\ RootRight(RootOf(o), owner) /\ AmbiguousRight(RootOf(o), owner) /\ WellFormedRoot(owner)
           /\ ~InitialPhase(owner) /\ owner.generation > 0 /\ ~owner.terminal
<1> DEFINE r == RootOf(o)
           owner == OwningRoot(row)
<1>1. r \in Roots /\ WellFormedRoot(row)
  BY RootOfIsRoot, AdmittedRowRight DEF JobOps, Ops, Roots
<1>2. /\ ~row.terminal /\ ~row.ambiguous
      /\ InitialPhase(row) => R!TransitionTarget(row.state, ToDispatching, Unmarked) # NULL
  BY DEF MaySend
<1>3. /\ RootFollows(row, owner) /\ ~InitialPhase(owner)
      /\ owner.generation > 0 /\ ~owner.terminal /\ ~owner.ambiguous
  BY <1>1, <1>2, OwningRootFollows
<1> HIDE DEF owner
<1>4. CASE Admitted(r)
  <2>1. row = roots[r]
    BY <1>4
  <2>2. RootFollows(roots[r], owner) /\ ~roots[r].ambiguous /\ ~owner.terminal
    BY <1>2, <1>3, <2>1
  <2>3. RootRight(r, owner) /\ AmbiguousRight(r, owner)
    BY <1>1, <1>4, <2>2, OpenMoveRight
  <2> QED BY <1>3, <2>3 DEF owner, RootFollows
<1>5. CASE ~Admitted(r)
  BY <1>3, <1>5 DEF RootRight, AmbiguousRight, RootFollows, owner
<1> QED BY <1>3, <1>4, <1>5 DEF owner, RootFollows

\* A permit is given for an operation that has neither a call nor a frame.
LEMMA PermittedOnce ==
    ASSUME FenceInv, NEW o \in JobOps, NEW rootRow \in RootRow,
           O!TransitionTarget(UpsertedOperation(o, rootRow).state, ToDispatching, Automatic) # NULL
    PROVE  \A item \in egress \cup waiters \cup phone : item.op # o
<1> SUFFICES ASSUME NEW item \in egress \cup waiters \cup phone, item.op = o PROVE FALSE
  OBVIOUS
<1>1. Registered(o) /\ operations[o].state # OpInitial
  BY FlightRows DEF Current
<1>2. TypeOK /\ WellFormed
  BY DEF FenceInv, ArbiterInv, Fenced
<1>3. UpsertedOperation(o, rootRow).state = operations[o].state
  BY <1>1, <1>2, UpsertedOperationFollows
<1>4. operations[o].state \in OpStatuses
  BY <1>1, <1>2, OpColumns DEF WellFormed, WellFormedOperation
<1> QED BY <1>1, <1>3, <1>4, FenceAssumption

\* A permit that is current after the step.
NextCurrent(permit) ==
    /\ permit.generation > 0
    /\ operations'[permit.op].generation = permit.generation
    /\ operations'[permit.op].state # OpInitial
    /\ roots'[RootOf(permit.op)].generation = permit.generation
    /\ ~InitialPhase(roots'[RootOf(permit.op)])

\* The permit of a new call is current, and its job is held.
LEMMA StartStep ==
    ASSUME FenceInv, LedgersFollow, NEW call \in Call,
           egress' = egress \cup {call}, waiters' = waiters, phone' = phone,
           \A item \in egress \cup waiters \cup phone : item.op # call.op,
           NextCurrent(call), call.op \in Jobs => Held(roots'[call.op])
    PROVE  Fenced'
<1>1. WellFormed'
  BY RowsStayWellFormed
<1>2. HandlesCurrent'
  <2>0. Current(call)'
    BY DEF Current, NextCurrent
  <2>1. \A c \in egress' : Current(c)'
    BY <2>0, HandleFollows
  <2>2. \A permit \in waiters' : Current(permit)'
    BY HandleFollows
  <2>3. \A frame \in phone' : Current(frame)'
    BY HandleFollows
  <2> QED BY <2>1, <2>2, <2>3 DEF HandlesCurrent
<1>3. OneSend'
  BY DEF FenceInv, Fenced, OneSend
<1>4. JobsHeld'
  <2>1. \A o \in Jobs : RootOf(o) = o
    BY NameAssumption DEF RootOf, Roots
  <2>2. ASSUME NEW c \in egress, c.wire = "pending", c.op \in Jobs PROVE Held(roots'[c.op])
    <3>1. Admitted(c.op) /\ Held(roots[c.op])
      BY <2>1, <2>2, FlightRows DEF FenceInv, Fenced, JobsHeld
    <3> QED BY <2>2, <3>1, HoldFollows, NotAnswered
  <2>3. ASSUME NEW frame \in phone, frame.status = "executing", frame.op \in Jobs
        PROVE  Held(roots'[frame.op])
    <3>1. Admitted(frame.op) /\ Held(roots[frame.op])
      BY <2>1, <2>3, FlightRows DEF FenceInv, Fenced, JobsHeld
    <3> QED BY <2>3, <3>1, HoldFollows, NotAnswered
  <2> QED BY <2>2, <2>3 DEF JobsHeld
<1>5. FrameIsAccountedFor'
  <2>1. WaitersGo
    BY DEF WaitersGo
  <2> QED BY <2>1, AccountFollows DEF FrameIsAccountedFor
<1>6. OutcomeIsThePhones'
  <2>1. \A o \in JobOps : operations'[o] # NoRow => Told(o, operations'[o])
    BY DEF LedgersFollow, OpRight
  <2> QED BY <2>1 DEF OutcomeIsThePhones, Told, Said, Registered
<1> QED BY <1>1, <1>2, <1>3, <1>4, <1>5, <1>6 DEF Fenced

\* Nothing is prepared for an ambiguous root.
NoneStarts(r) == \A call \in egress' \ egress : call.wire = "pending" => RootOf(call.op) # r
Closed == \A r \in Roots : Admitted(r) /\ roots[r].ambiguous => NoneStarts(r)

LEMMA PrepareFenced ==
    ASSUME FenceInv, NEW o \in JobOps, PrepareEgress(o) PROVE Fenced' /\ AmbiguousStays /\ Closed
<1> DEFINE r == RootOf(o)
           row == IF Admitted(r) THEN roots[r] ELSE NewRoot
           operation == UpsertedOperation(o, row)
           owner == OwningRoot(row)
           target == O!TransitionTarget(operation.state, ToDispatching, Automatic)
           sending == [MovedOperation(operation, target) EXCEPT !.generation = owner.generation]
           call == [op |-> o, generation |-> owner.generation, wire |-> "pending"]
<1>1. o \in Ops /\ r \in Roots
  BY RootOfIsRoot DEF JobOps, Ops, Roots
<1>2. /\ WellFormedRoot(row) /\ RootRight(r, row) /\ AmbiguousRight(r, row) /\ row \in RootRow
  BY <1>1, AdmittedRowRight DEF WellFormedRoot
<1>3. OpRight(o, operation) /\ WellFormedOperation(operation)
  BY <1>2, UpsertRight, UpsertedOperationFollows DEF FenceInv, ArbiterInv, Fenced
<1>4. MaySend(o, r, row) => /\ RootRight(r, owner) /\ AmbiguousRight(r, owner) /\ WellFormedRoot(owner)
                            /\ ~InitialPhase(owner) /\ owner.generation > 0 /\ ~owner.terminal
                            /\ ~row.ambiguous
  BY OwnerRight DEF MaySend
<1>5. \/ /\ roots' = [roots EXCEPT ![r] = row]
         /\ operations' = [operations EXCEPT ![o] = operation]
         /\ egress' = egress
      \/ /\ MaySend(o, r, row)
         /\ roots' = [roots EXCEPT ![r] = owner]
         /\ \/ /\ operations' = [operations EXCEPT ![o] = operation]
               /\ egress' = egress
            \/ /\ target # NULL
               /\ operations' = [operations EXCEPT ![o] = sending]
               /\ egress' = egress \cup {call}
  BY DEF PrepareEgress
<1>6. waiters' = waiters /\ phone' = phone
  BY DEF PrepareEgress
<1>7. WaitersGo
  BY <1>6 DEF WaitersGo
<1>8. ASSUME target # NULL
      PROVE  \A item \in egress \cup waiters \cup phone : item.op # o
  BY <1>2, <1>8, PermittedOnce
<1>9. ASSUME target # NULL, MaySend(o, r, row)
      PROVE  /\ OpRight(o, sending) /\ sending.generation = owner.generation
             /\ sending.state # OpInitial /\ owner.generation \in Nat
  <2>1. ~operation.terminal /\ target \in OpStatuses /\ target # OpInitial
    BY <1>3, <1>9, OpenOperation
  <2>2. R!Satisfies(OpStates[target], ToDispatching)
    BY <1>9, OpTargetFlags
  <2>3. OpStates[target].terminal = FALSE
    BY <2>2, TargetSelects
  <2>4. owner.generation \in Nat
    BY <1>4, <1>9, RootColumns DEF WellFormedRoot
  <2> DEFINE moved == MovedOperation(operation, target)
  <2>5. OpFollows(operation, moved) /\ moved.state = target /\ ~moved.terminal /\ moved \in OpRow
    BY <1>3, <2>1, <2>3, MovedOperationFollows, SMTT(30) DEF OpFollows, WellFormedOperation
  <2> HIDE DEF moved
  <2>6. sending = [moved EXCEPT !.generation = owner.generation]
    BY DEF moved
  <2>7. /\ sending \in OpRow /\ sending.state = target /\ ~sending.terminal
        /\ sending.generation = owner.generation
    BY <2>4, <2>5, <2>6 DEF OpRow
  <2>8. Registered(o) => operations[o].state = OpInitial /\ ~operations[o].terminal
    <3> SUFFICES ASSUME Registered(o) PROVE operations[o].state = OpInitial /\ ~operations[o].terminal
      OBVIOUS
    <3>1. operation.state = operations[o].state /\ operation.terminal = operations[o].terminal
      BY <1>2, UpsertedOperationFollows DEF FenceInv, ArbiterInv, Fenced
    <3>2. operation.state \in OpStatuses
      BY <1>3, OpColumns DEF WellFormedOperation
    <3> QED BY <1>9, <2>1, <3>1, <3>2, FenceAssumption
  <2> HIDE DEF sending, target, operation
  <2>9. WellFormedOperation(sending) /\ (Registered(o) => OpFollows(operations[o], sending))
    BY <2>7, <2>8 DEF WellFormedOperation, OpFollows
  <2> QED BY <2>1, <2>4, <2>7, <2>9, LiveOpRight
<1> HIDE DEF row, operation, owner, sending, target, call
<1>10. CASE egress' = egress /\ operations' = [operations EXCEPT ![o] = operation]
  <2>1. RootsRight
    <3>1. CASE roots' = [roots EXCEPT ![r] = row]
      BY <1>1, <1>2, <3>1, RootRightlyWritten
    <3>2. CASE MaySend(o, r, row) /\ roots' = [roots EXCEPT ![r] = owner]
      BY <1>1, <1>4, <3>2, RootRightlyWritten
    <3> QED BY <1>5, <3>1, <3>2
  <2>2. OpsRight
    BY <1>1, <1>3, <1>10, OpRightlyWritten
  <2>3. LedgersFollow /\ AmbiguousStays
    BY <2>1, <2>2, RightIsFollowed
  <2>4. Fenced'
    BY <1>6, <1>7, <1>10, <2>3, QuietStep
  <2>5. Closed
    BY <1>10 DEF Closed, NoneStarts
  <2> QED BY <2>3, <2>4, <2>5
<1>11. CASE /\ MaySend(o, r, row) /\ target # NULL
            /\ roots' = [roots EXCEPT ![r] = owner]
            /\ operations' = [operations EXCEPT ![o] = sending]
            /\ egress' = egress \cup {call}
  <2>1. RootsRight /\ roots'[r] = owner
    BY <1>1, <1>4, <1>11, RootRightlyWritten
  <2>2. OpsRight /\ operations'[o] = sending
    BY <1>1, <1>9, <1>11, OpRightlyWritten
  <2>3. LedgersFollow /\ AmbiguousStays
    BY <2>1, <2>2, RightIsFollowed
  <2>4. call \in Call /\ call.op = o /\ call.generation = owner.generation /\ call.wire = "pending"
    BY <1>9, <1>11 DEF call, Call
  <2>5. NextCurrent(call)
    BY <1>4, <1>9, <1>11, <2>1, <2>2, <2>4 DEF NextCurrent
  <2>6. call.op \in Jobs => Held(roots'[call.op])
    <3>1. call.op \in Jobs => r = call.op
      BY <2>4, NameAssumption DEF RootOf, Roots
    <3> QED BY <1>4, <1>11, <2>1, <3>1 DEF Held
  <2>7. Fenced'
    BY <1>6, <1>8, <1>11, <2>3, <2>4, <2>5, <2>6, StartStep
  <2>8. Closed
    <3>1. Admitted(r) => ~roots[r].ambiguous
      BY <1>4, <1>11 DEF row
    <3> QED BY <1>11, <2>4, <3>1 DEF Closed, NoneStarts
  <2> QED BY <2>3, <2>7, <2>8
<1> QED BY <1>5, <1>10, <1>11

-----------------------------------------------------------------------------
(* The wire and the phone: the ledgers stay. *)

LEMMA SameLedgersFollow ==
    ASSUME FenceInv, UNCHANGED ledgers PROVE LedgersFollow /\ AmbiguousStays
  BY SameRootsRight, SameOpsRight, RightIsFollowed DEF ledgers

\* What the ledgers say of the phone's word stays true while the phone only hears and
\* says more.
LEMMA WordStands ==
    ASSUME FenceInv, UNCHANGED ledgers,
           \A o \in JobOps, status \in {"succeeded", "failed"} :
              Said(o, status) => \E frame \in phone' : frame.op = o /\ frame.status = status
    PROVE  OutcomeIsThePhones'
<1>1. \A o \in JobOps : Registered(o) => Told(o, operations[o])
  BY SameOpRight DEF OpRight, Registered
<1>2. roots' = roots /\ operations' = operations
  BY DEF ledgers
<1> QED BY <1>1, <1>2 DEF OutcomeIsThePhones, Told, Registered

LEMMA WireFenced ==
    ASSUME FenceInv, NEW call \in egress, NEW sent \in BOOLEAN, WireDispatch(call, sent)
    PROVE  Fenced' /\ AmbiguousStays /\ Closed
<1> DEFINE after == [call EXCEPT !.wire = IF sent THEN "sent" ELSE "failed"]
           frame == [op |-> call.op, generation |-> call.generation, status |-> "executing"]
           permit == PermitOf(call)
<1>1. /\ call \in Call /\ call.wire = "pending" /\ Current(call)
      /\ LedgersFollow /\ AmbiguousStays /\ UNCHANGED ledgers
  BY FlightRows, SameLedgersFollow DEF WireDispatch, FenceInv, ArbiterInv, TypeOK
<1>2. /\ after.op = call.op /\ after.generation = call.generation
      /\ after.wire = IF sent THEN "sent" ELSE "failed"
  BY <1>1 DEF Call
<1>3. frame.op = call.op /\ frame.generation = call.generation /\ frame.status = "executing"
  OBVIOUS
<1>4. permit.op = call.op /\ permit.generation = call.generation
  BY DEF PermitOf
<1>5. /\ waiters' = waiters \cup {permit}
      /\ egress' = (egress \ {call}) \cup {after}
      /\ phone' = IF sent THEN phone \cup {frame} ELSE phone
  BY DEF WireDispatch
<1> HIDE DEF after, frame, permit
<1>6. WellFormed'
  BY <1>1, RowsStayWellFormed
<1>7. HandlesCurrent'
  <2>1. roots' = roots /\ operations' = operations
    BY <1>1 DEF ledgers
  <2>2. \A item : item.op = call.op /\ item.generation = call.generation => NextCurrent(item)
    BY <1>1, <2>1 DEF Current, NextCurrent
  <2>3. \A item \in egress \cup waiters \cup phone : NextCurrent(item)
    BY <2>1, FlightRows DEF Current, NextCurrent
  <2>4. /\ \A item \in egress' : NextCurrent(item)
        /\ \A item \in waiters' : NextCurrent(item)
        /\ \A item \in phone' : NextCurrent(item)
    BY <1>2, <1>3, <1>4, <1>5, <2>2, <2>3
  <2> QED BY <2>4 DEF HandlesCurrent, Current, NextCurrent
<1>8. OneSend'
  <2>1. /\ \A c, d \in egress : c.op = d.op => c = d
        /\ \A f, g \in phone : f.op = g.op => f = g
        /\ \A c \in egress, f \in phone : c.op = f.op => c.wire = "sent"
    BY DEF FenceInv, Fenced, OneSend
  <2>2. \A f \in phone : f.op # call.op
    BY <1>1, <2>1
  <2>3. \A c \in egress' : c.op = call.op => c = after
    BY <1>2, <1>5, <2>1
  <2>4. \A c, d \in egress' : c.op = d.op => c = d
    BY <1>2, <1>5, <2>1, <2>3
  <2>5. \A f, g \in phone' : f.op = g.op => f = g
    BY <1>3, <1>5, <2>1, <2>2
  <2>6. \A c \in egress', f \in phone' : c.op = f.op => c.wire = "sent"
    BY <1>2, <1>3, <1>5, <2>1, <2>2, <2>3
  <2> QED BY <2>4, <2>5, <2>6 DEF OneSend
<1>9. JobsHeld'
  <2>1. roots' = roots
    BY <1>1 DEF ledgers
  <2>2. /\ \A c \in egress : c.wire = "pending" /\ c.op \in Jobs => Held(roots[c.op])
        /\ \A f \in phone : f.status = "executing" /\ f.op \in Jobs => Held(roots[f.op])
    BY DEF FenceInv, Fenced, JobsHeld
  <2>3. \A c \in egress' : c.wire = "pending" /\ c.op \in Jobs => Held(roots'[c.op])
    BY <1>2, <1>5, <2>1, <2>2
  <2>4. \A f \in phone' : f.status = "executing" /\ f.op \in Jobs => Held(roots'[f.op])
    BY <1>1, <1>3, <1>5, <2>1, <2>2
  <2> QED BY <2>3, <2>4 DEF JobsHeld
<1>10. FrameIsAccountedFor'
  <2>1. WaitersGo
    BY <1>5 DEF WaitersGo
  <2>2. permit \in waiters'
    BY <1>5
  <2>3. \A f \in phone' : f \in phone \/ f = frame
    BY <1>5
  <2>4. \A f \in phone : \/ \E p \in waiters' : p.op = f.op
                         \/ operations'[f.op].terminal
                         \/ roots'[RootOf(f.op)].terminal
                         \/ roots'[RootOf(f.op)].ambiguous
    BY <1>1, <2>1, AccountFollows
  <2> QED BY <1>3, <1>4, <2>2, <2>3, <2>4 DEF FrameIsAccountedFor
<1>11. OutcomeIsThePhones'
  <2>1. phone \subseteq phone'
    BY <1>5
  <2> QED BY <1>1, <2>1, WordStands DEF Said
<1>12. Closed
  BY <1>2, <1>5 DEF Closed, NoneStarts
<1> QED BY <1>1, <1>6, <1>7, <1>8, <1>9, <1>10, <1>11, <1>12 DEF Fenced

LEMMA PhoneFenced ==
    ASSUME FenceInv, NEW frame \in phone, NEW status \in {"succeeded", "failed"},
           PhoneFinishes(frame, status)
    PROVE  Fenced' /\ AmbiguousStays /\ Closed
<1> DEFINE after == [frame EXCEPT !.status = status]
<1>1. /\ frame \in Frame /\ frame.status = "executing" /\ Current(frame)
      /\ LedgersFollow /\ AmbiguousStays /\ UNCHANGED ledgers
  BY FlightRows, SameLedgersFollow DEF PhoneFinishes, FenceInv, ArbiterInv, TypeOK
<1>2. after.op = frame.op /\ after.generation = frame.generation /\ after.status = status
  BY <1>1 DEF Frame
<1>3. phone' = (phone \ {frame}) \cup {after} /\ egress' = egress /\ waiters' = waiters
  BY DEF PhoneFinishes
<1>4. roots' = roots /\ operations' = operations
  BY <1>1 DEF ledgers
<1> HIDE DEF after
<1>5. WellFormed'
  BY <1>1, RowsStayWellFormed
<1>6. HandlesCurrent'
  <2>1. \A item \in egress \cup waiters \cup phone : NextCurrent(item)
    BY <1>4, FlightRows DEF Current, NextCurrent
  <2>2. NextCurrent(after)
    BY <1>2, <2>1 DEF NextCurrent
  <2>3. /\ \A item \in egress' : NextCurrent(item)
        /\ \A item \in waiters' : NextCurrent(item)
        /\ \A item \in phone' : NextCurrent(item)
    BY <1>3, <2>1, <2>2
  <2> QED BY <2>3 DEF HandlesCurrent, Current, NextCurrent
<1>7. OneSend'
  <2>1. /\ \A c, d \in egress : c.op = d.op => c = d
        /\ \A f, g \in phone : f.op = g.op => f = g
        /\ \A c \in egress, f \in phone : c.op = f.op => c.wire = "sent"
    BY DEF FenceInv, Fenced, OneSend
  <2>2. \A f, g \in phone' : f.op = g.op => f = g
    BY <1>2, <1>3, <2>1
  <2>3. \A c \in egress', f \in phone' : c.op = f.op => c.wire = "sent"
    BY <1>2, <1>3, <2>1
  <2> QED BY <1>3, <2>1, <2>2, <2>3 DEF OneSend
<1>8. JobsHeld'
  BY <1>2, <1>3, <1>4 DEF FenceInv, Fenced, JobsHeld
<1>9. FrameIsAccountedFor'
  <2>1. \A f \in phone' : \E g \in phone : g.op = f.op
    BY <1>2, <1>3
  <2> QED BY <1>3, <1>4, <2>1 DEF FenceInv, Fenced, FrameIsAccountedFor
<1>10. OutcomeIsThePhones'
  <2>1. \A f \in phone : f.status \in {"succeeded", "failed"} => f \in phone'
    BY <1>1, <1>3
  <2> QED BY <1>1, <2>1, WordStands DEF Said
<1>11. Closed
  BY <1>3 DEF Closed, NoneStarts
<1> QED BY <1>1, <1>5, <1>6, <1>7, <1>8, <1>9, <1>10, <1>11 DEF Fenced

-----------------------------------------------------------------------------
(* The steps that end something. *)

Quiet == /\ RootsRight /\ OpsRight /\ WaitersGo
         /\ egress' \subseteq egress /\ waiters' \subseteq waiters /\ phone' = phone

LEMMA QuietIsFenced == ASSUME FenceInv, Quiet PROVE Fenced' /\ AmbiguousStays /\ Closed
<1>1. LedgersFollow /\ AmbiguousStays
  BY RightIsFollowed DEF Quiet
<1>2. Closed
  BY DEF Quiet, Closed, NoneStarts
<1> QED BY <1>1, <1>2, QuietStep DEF Quiet

\* Blocking a root and an operation of it.
LEMMA BlockRight ==
    ASSUME FenceInv, NEW r \in Roots, Admitted(r), NEW o \in Ops, o \in JobOps => Registered(o),
           roots' = [roots EXCEPT ![r] = BlockedRoot(roots[r])],
           operations' = [operations EXCEPT ![o] = BlockedOperation(operations[o])]
    PROVE  RootsRight /\ OpsRight /\ roots'[r] = BlockedRoot(roots[r])
<1>1. WellFormedRoot(roots[r])
  BY DEF FenceInv, Fenced, WellFormed
<1>2. /\ RootFollows(roots[r], BlockedRoot(roots[r]))
      /\ BlockedRoot(roots[r]).terminal = roots[r].terminal
      /\ roots[r].ambiguous => BlockedRoot(roots[r]) = roots[r]
  BY <1>1, BlockedRootFollows
<1>3. RootRight(r, BlockedRoot(roots[r])) /\ AmbiguousRight(r, BlockedRoot(roots[r]))
  <2>1. roots[r].terminal => BlockedRoot(roots[r]) = roots[r]
    BY <1>2 DEF RootFollows
  <2> QED BY <1>2, <2>1, OpenMoveRight
<1>4. ASSUME o \in JobOps PROVE OpRight(o, BlockedOperation(operations[o]))
  <2>1. WellFormedOperation(operations[o]) /\ OpRight(o, operations[o])
    BY <1>4, SameOpRight DEF FenceInv, Fenced, WellFormed
  <2>2. /\ OpFollows(operations[o], BlockedOperation(operations[o]))
        /\ BlockedOperation(operations[o]).terminal => BlockedOperation(operations[o]) = operations[o]
    BY <2>1, BlockedOperationFollows
  <2>3. CASE BlockedOperation(operations[o]).terminal
    BY <2>1, <2>2, <2>3
  <2>4. CASE ~BlockedOperation(operations[o]).terminal
    BY <1>4, <2>2, <2>4, LiveOpRight DEF OpFollows
  <2> QED BY <2>3, <2>4
<1> QED BY <1>3, <1>4, RootRightlyWritten, OpRightlyWritten

LEMMA CompletionFenced ==
    ASSUME FenceInv, NEW call \in egress, CompleteEgress(call) PROVE Quiet
<1> DEFINE r == RootOf(call.op)
           row == roots[r]
           operation == operations[call.op]
           rootTarget == R!TransitionTarget(row.state, ToDispatched, Automatic)
           opTarget == O!TransitionTarget(operation.state, ToDispatched, Automatic)
<1>1. /\ call.op \in JobOps /\ call.op \in Ops /\ r \in Roots /\ Admitted(r) /\ Registered(call.op)
  BY FlightRows
<1>2. WellFormedRoot(row) /\ WellFormedOperation(operation)
  BY <1>1 DEF FenceInv, Fenced, WellFormed
<1>3. /\ egress' \subseteq egress /\ waiters' \subseteq waiters /\ phone' = phone
      /\ \A permit \in waiters \ waiters' : permit.op = call.op /\ call.wire # "sent"
  BY DEF CompleteEgress, PermitOf
<1>4. WaitersGo
  <2>1. call.wire # "sent" => \A frame \in phone : frame.op # call.op
    BY DEF FenceInv, Fenced, OneSend
  <2> QED BY <1>3, <2>1 DEF WaitersGo
<1>5. CASE UNCHANGED <<roots, operations>>
  BY <1>3, <1>4, <1>5, SameRootsRight, SameOpsRight DEF Quiet
<1>6. CASE /\ roots' = [roots EXCEPT ![r] = BlockedRoot(row)]
           /\ operations' = [operations EXCEPT ![call.op] = BlockedOperation(operation)]
  BY <1>1, <1>3, <1>4, <1>6, BlockRight DEF Quiet
<1>7. CASE /\ StillOwner(call, row, operation)
           /\ Dispatched(row) \/ rootTarget # NULL
           /\ roots' = [roots EXCEPT ![r] =
                 IF Dispatched(row) THEN row ELSE MovedRoot(row, rootTarget, FALSE, 0)]
           /\ operations' = [operations EXCEPT ![call.op] =
                 IF opTarget = NULL THEN operation ELSE MovedOperation(operation, opTarget)]
  <2>1. RootsRight
    <3>1. CASE Dispatched(row)
      <4>1. roots' = [roots EXCEPT ![r] = row]
        BY <1>7, <3>1
      <4> QED BY <1>1, <4>1, SameRootRight, RootRightlyWritten
    <3>2. CASE ~Dispatched(row)
      <4> DEFINE after == MovedRoot(row, rootTarget, FALSE, 0)
      <4>1. rootTarget # NULL /\ ~InitialPhase(row)
        BY <1>7, <3>2 DEF StillOwner, Dispatching, Dispatched, InitialPhase
      <4>2. ~row.terminal /\ ~row.ambiguous
        BY <1>2, <4>1, ClosedRootStays
      <4>3. /\ rootTarget \in RootStatuses /\ RootStates[rootTarget].initial = FALSE
            /\ R!Satisfies(RootStates[rootTarget], ToDispatched)
        BY <4>1, RootTarget
      <4>4. RootStates[rootTarget].terminal = FALSE /\ RootStates[rootTarget].manual = FALSE
        BY <4>3, TargetSelects
      <4> HIDE DEF rootTarget
      <4>5. RootFollows(row, after) /\ ~after.terminal
        BY <1>2, <4>1, <4>2, <4>3, <4>4, MovedRootFollows
      <4>6. RootRight(r, after) /\ AmbiguousRight(r, after)
        BY <1>1, <4>2, <4>5, OpenMoveRight
      <4>7. roots' = [roots EXCEPT ![r] = after]
        BY <1>7, <3>2 DEF rootTarget
      <4> HIDE DEF after
      <4> QED BY <1>1, <4>6, <4>7, RootRightlyWritten
    <3> QED BY <3>1, <3>2
  <2>2. OpsRight
    <3>1. CASE opTarget = NULL
      <4>1. operations' = [operations EXCEPT ![call.op] = operation]
        BY <1>7, <3>1
      <4> QED BY <1>1, <4>1, SameOpRight, OpRightlyWritten
    <3>2. CASE opTarget # NULL
      <4> DEFINE after == MovedOperation(operation, opTarget)
      <4>1. ~operation.terminal /\ opTarget \in OpStatuses /\ opTarget # OpInitial
        BY <1>2, <3>2, OpenOperation
      <4>2. R!Satisfies(OpStates[opTarget], ToDispatched)
        BY <3>2, OpTargetFlags
      <4>3. OpStates[opTarget].terminal = FALSE
        BY <4>2, TargetSelects
      <4>4. operations' = [operations EXCEPT ![call.op] = after]
        BY <1>7, <3>2
      <4> HIDE DEF opTarget
      <4>5. OpFollows(operation, after) /\ ~after.terminal
        BY <1>2, <4>1, <4>3, MovedOperationFollows
      <4>6. OpRight(call.op, after)
        BY <1>1, <4>5, LiveOpRight DEF OpFollows
      <4> HIDE DEF after
      <4> QED BY <1>1, <4>4, <4>6, OpRightlyWritten
    <3> QED BY <3>1, <3>2
  <2> QED BY <1>3, <1>4, <2>1, <2>2 DEF Quiet
<1> QED BY <1>5, <1>6, <1>7 DEF CompleteEgress

\* A result that is taken: the phone has said so, and its root was open and known.
LEMMA ResultFenced ==
    ASSUME FenceInv, NEW frame \in phone, AcceptJobResult(frame) PROVE Quiet
<1> DEFINE o == frame.op
           r == RootOf(o)
           row == roots[r]
           success == frame.status = "succeeded"
           target == R!TransitionTarget(row.state, ToOutcome(success), Reported)
           after == IF o \in Children THEN ChildResultRoot(row) ELSE EndedRoot(row, target)
<1>1. /\ o \in JobOps /\ o \in Ops /\ r \in Roots /\ Admitted(r) /\ Registered(o)
      /\ success \in BOOLEAN
  BY FlightRows
<1>2. WellFormedRoot(row) /\ WellFormedOperation(operations[o])
  BY <1>1 DEF FenceInv, Fenced, WellFormed
<1>3. /\ target # NULL /\ frame.status # "executing"
      /\ o \in Children => ~ChildResultFails(row)
      /\ CurrentDispatchOwner(frame, row, operations[o])
      /\ roots' = [roots EXCEPT ![r] = after]
      /\ operations' = [operations EXCEPT ![o] = MovedOperation(operations[o], target)]
      /\ waiters' = {permit \in waiters : permit.op # o} /\ egress' = egress /\ phone' = phone
  BY DEF AcceptJobResult
<1>4. ~row.terminal /\ ~row.ambiguous
  BY <1>2, <1>3, ClosedRootStays
<1>5. /\ target \in RootStatuses /\ RootStates[target].terminal = TRUE
      /\ R!Satisfies(RootStates[target], ToOutcome(success))
  BY <1>3, OutcomeEnds, RootTarget
<1>6. /\ target \in OpStatuses /\ OpStates[target] = RootStates[target]
      /\ OpStates[target].terminal = TRUE /\ target # OpInitial
  BY <1>5, SharedEnds
<1>7. RootRight(r, after) /\ AmbiguousRight(r, after)
  <2>1. CASE o \notin Children
    <3>1. after = EndedRoot(row, target)
      BY <2>1
    <3>2. RootFollows(row, EndedRoot(row, target))
      BY <1>2, <1>4, <1>5, EndedRootFollows
    <3>3. o = r /\ Answered(r)
      BY <1>3, <2>1 DEF RootOf, Answered
    <3> HIDE DEF after, target
    <3> QED BY <1>1, <1>4, <3>1, <3>2, <3>3 DEF RootRight, AmbiguousRight, RootFollows
  <2>2. CASE o \in Children /\ ~Dispatching(row)
    BY <1>1, <2>2, SameRootRight DEF ChildResultRoot
  <2>3. CASE o \in Children /\ Dispatching(row)
    <3> DEFINE next == R!TransitionTarget(row.state, ToAnyLive, Automatic)
    <3>1. R!HasTarget(row.state, ToAnyLive, Automatic) /\ next # NULL
      BY <1>3, <2>3 DEF ChildResultFails, R!HasTarget
    <3>2. /\ next \in RootStatuses /\ RootStates[next].initial = FALSE
          /\ R!Satisfies(RootStates[next], ToAnyLive)
      BY <3>1, RootTarget
    <3>3. RootStates[next].terminal = FALSE
      BY <3>2, TargetSelects
    <3>4. RootStates[next].manual = FALSE
      <4>1. row.state \in RootStatuses /\ row.state # RootInitial
        BY <1>2, <2>3, RootColumns DEF Dispatching, WellFormedRoot
      <4>2. ~RootStates[row.state].dispatchable
        BY <1>2, <1>4, <2>3, <4>1 DEF Dispatching, WellFormedRoot
      <4>3. ~R!StateMatches(next, ToAmbiguous)
        BY <3>1, <4>1, <4>2, FenceAssumption
      <4>4. RootStates[next].manual # TRUE
        BY <3>2, <3>3, <4>3, TargetSelects DEF R!StateMatches
      <4> QED BY <3>2, <4>4, FlagTypes
    <3>5. after = MovedRoot(row, next, FALSE, 0) /\ ~InitialPhase(row)
      BY <2>3 DEF ChildResultRoot, Dispatching, InitialPhase
    <3> HIDE DEF next, after
    <3>6. RootFollows(row, after) /\ ~after.terminal
      BY <1>2, <1>4, <3>2, <3>3, <3>4, <3>5, MovedRootFollows
    <3> QED BY <1>1, <1>4, <3>6, OpenMoveRight
  <2> QED BY <2>1, <2>2, <2>3
<1> DEFINE opAfter == MovedOperation(operations[o], target)
<1>8. OpRight(o, opAfter) /\ opAfter.terminal
  <2>1. ~operations[o].terminal
    BY <1>3 DEF CurrentDispatchOwner, Dispatching, Dispatched
  <2>2. OpFollows(operations[o], opAfter) /\ opAfter.state = target /\ opAfter.terminal = TRUE
    BY <1>2, <1>6, <2>1, MovedOperationFollows
  <2>3. RootStates[target].retryable = ~success
    BY <1>1, <1>5, TargetSelects
  <2>4. frame.status = IF success THEN "succeeded" ELSE "failed"
    BY <1>3 DEF FenceInv, ArbiterInv, TypeOK, Frame
  <2>5. \A b \in BOOLEAN : O!StateMatches(target, ToOutcome(b)) => b = success
    <3> SUFFICES ASSUME NEW b \in BOOLEAN, O!StateMatches(target, ToOutcome(b)) PROVE b = success
      OBVIOUS
    <3>1. R!Satisfies(OpStates[target], ToOutcome(b))
      BY SameReading
    <3>2. OpStates[target].retryable = ~b
      BY <3>1, TargetSelects
    <3>3. ~b = ~success
      BY <1>6, <2>3, <3>2
    <3> QED BY <1>1, <3>3
  <2> HIDE DEF opAfter, target, success
  <2>6. Told(o, opAfter)
    <3>1. O!StateMatches(target, ToOutcome(TRUE)) => Said(o, "succeeded")
      BY <2>4, <2>5 DEF Said
    <3>2. O!StateMatches(target, ToOutcome(FALSE)) => Said(o, "failed")
      BY <2>4, <2>5 DEF Said
    <3> QED BY <2>2, <3>1, <3>2 DEF Told
  <2> QED BY <2>2, <2>6 DEF OpRight, OpFollows
<1> HIDE DEF after, opAfter
<1>9. RootsRight
  BY <1>1, <1>3, <1>7, RootRightlyWritten
<1>10. OpsRight /\ operations'[o] = opAfter
  BY <1>1, <1>3, <1>8, OpRightlyWritten DEF opAfter
<1>11. WaitersGo
  BY <1>3, <1>8, <1>10 DEF WaitersGo
<1> QED BY <1>3, <1>9, <1>10, <1>11 DEF Quiet

\* An operation that takes an end of the roots, whatever it was before.
LEMMA EndedOperationFollows ==
    ASSUME NEW row, WellFormedOperation(row), NEW s \in RootStatuses, RootStates[s].terminal = TRUE
    PROVE  LET after == MovedOperation(row, s) IN
           OpFollows(row, after) /\ after.state = s /\ after.terminal
<1> DEFINE after == MovedOperation(row, s)
<1>1. row \in OpRow
  BY DEF WellFormedOperation
<1>2. s \in OpStatuses /\ OpStates[s].terminal = TRUE /\ s # OpInitial
  BY SharedEnds
<1>3. after \in OpRow
  BY <1>1, <1>2, MovedOperationIsTyped
<1>4. after.state = s /\ after.generation = row.generation
  BY <1>1 DEF MovedOperation, OpRow
<1>5. after.terminal
  BY <1>1, <1>2 DEF MovedOperation, OpRow
<1> HIDE DEF after
<1>6. OpFollows(row, after)
  BY <1>2, <1>3, <1>4, <1>5 DEF OpFollows, WellFormedOperation
<1> QED BY <1>4, <1>5, <1>6 DEF after

\* An administrative end is no outcome.
LEMMA AdministrativeIsNoOutcome ==
    ASSUME NEW o, NEW row, OpStates[row.state].administrative = TRUE PROVE Told(o, row)
<1>1. \A b \in BOOLEAN : ~O!StateMatches(row.state, ToOutcome(b))
  <2> SUFFICES ASSUME NEW b \in BOOLEAN, O!StateMatches(row.state, ToOutcome(b)) PROVE FALSE
    OBVIOUS
  <2>1. R!Satisfies(OpStates[row.state], ToOutcome(b))
    BY SameReading
  <2> QED BY <2>1, TargetSelects
<1> QED BY <1>1 DEF Told

LEMMA CancellationFenced ==
    ASSUME FenceInv, NEW j \in Jobs, ObserveCancelled(j) PROVE Quiet
<1>1. j \in Roots /\ j \in Ops /\ j \in JobOps
  BY DEF Roots, Ops, JobOps
<1>2. egress' = egress /\ waiters' = waiters /\ phone' = phone
  BY DEF ObserveCancelled
<1>3. WaitersGo
  BY <1>2 DEF WaitersGo
<1>4. CASE UNCHANGED ledgers
  BY <1>2, <1>3, <1>4, SameRootsRight, SameOpsRight DEF Quiet, ledgers
<1>5. CASE /\ Admitted(j) /\ ~roots[j].terminal
           /\ roots' = [roots EXCEPT ![j] = EndedRoot(roots[j], Cancelled)]
           /\ operations' = [operations EXCEPT ![j] = MovedOperation(operations[j], Cancelled)]
  <2> DEFINE after == EndedRoot(roots[j], Cancelled)
             opAfter == MovedOperation(operations[j], Cancelled)
  <2>1. Registered(j) /\ WellFormedRoot(roots[j]) /\ WellFormedOperation(operations[j])
    BY <1>1, <1>5 DEF FenceInv, ArbiterInv, Grounded, Fenced, WellFormed
  <2>2. Cancelled \in RootStatuses /\ RootStates[Cancelled].terminal = TRUE
    BY EndFlags DEF Ends
  <2>3. RootFollows(roots[j], after) /\ after.state = Cancelled
    BY <1>5, <2>1, <2>2, EndedRootFollows, EndedRootIsTyped DEF WellFormedRoot
  <2>4. OpFollows(operations[j], opAfter) /\ opAfter.state = Cancelled
    BY <2>1, <2>2, EndedOperationFollows
  <2>5. OpStates[Cancelled].administrative = TRUE
    <3>1. R!StateMatches(Cancelled, [terminal |-> TRUE, administrative |-> TRUE])
      BY DeviceLifecycleAssumption
    <3>2. RootStates[Cancelled].administrative = TRUE
      BY <3>1 DEF R!StateMatches, R!Satisfies
    <3> QED BY <2>2, <3>2, SharedEnds
  <2> HIDE DEF after, opAfter
  <2>6. RootRight(j, after) /\ AmbiguousRight(j, after)
    BY <2>3 DEF RootRight, AmbiguousRight, RootFollows, Held
  <2>7. OpRight(j, opAfter)
    BY <2>4, <2>5, AdministrativeIsNoOutcome DEF OpRight, OpFollows
  <2>8. roots' = [roots EXCEPT ![j] = after] /\ operations' = [operations EXCEPT ![j] = opAfter]
    BY <1>5 DEF after, opAfter
  <2> QED BY <1>1, <1>2, <1>3, <2>6, <2>7, <2>8, RootRightlyWritten, OpRightlyWritten DEF Quiet
<1> QED BY <1>4, <1>5 DEF ObserveCancelled

\* markAmbiguous leaves the ledgers alone, or an ambiguous root.
LEMMA AmbiguityRight ==
    ASSUME FenceInv, NEW o \in JobOps, NEW generation, MarkedAmbiguous(o, generation),
           Admitted(RootOf(o)) => Registered(o)
    PROVE  /\ RootsRight /\ OpsRight
           /\ roots' # roots => roots'[RootOf(o)].ambiguous
<1> DEFINE r == RootOf(o)
<1>1. r \in Roots /\ o \in Ops
  BY RootOfIsRoot DEF JobOps, Ops, Roots
<1>2. CASE UNCHANGED ledgers
  BY <1>2, SameRootsRight, SameOpsRight DEF ledgers
<1>3. CASE /\ Admitted(r) /\ R!TransitionTarget(roots[r].state, ToAmbiguous, Automatic) # NULL
           /\ roots' = [roots EXCEPT ![r] = BlockedRoot(roots[r])]
           /\ operations' = [operations EXCEPT ![o] = BlockedOperation(operations[o])]
  <2>1. RootsRight /\ OpsRight /\ roots'[r] = BlockedRoot(roots[r])
    BY <1>1, <1>3, BlockRight
  <2>2. BlockedRoot(roots[r]).ambiguous
    BY <1>1, <1>3, BlockedRootFollows DEF FenceInv, Fenced, WellFormed
  <2> QED BY <2>1, <2>2
<1> QED BY <1>2, <1>3 DEF MarkedAmbiguous

LEMMA TimeoutFenced ==
    ASSUME FenceInv, NEW j \in Jobs, MarkTimedOut(j) PROVE Quiet
<1>1. egress' = egress /\ waiters' = waiters /\ phone' = phone
  BY DEF MarkTimedOut
<1>2. WaitersGo
  BY <1>1 DEF WaitersGo
<1>3. j \in JobOps /\ (Admitted(RootOf(j)) => Registered(j))
  BY NameAssumption DEF FenceInv, ArbiterInv, Grounded, JobOps, Roots, RootOf
<1>4. RootsRight /\ OpsRight
  BY <1>3, AmbiguityRight DEF MarkTimedOut
<1> QED BY <1>1, <1>2, <1>4 DEF Quiet

LEMMA LossFenced ==
    ASSUME FenceInv, NEW permit \in waiters, WaiterLost(permit) PROVE Quiet
<1> DEFINE r == RootOf(permit.op)
<1>1. permit.op \in JobOps /\ Registered(permit.op) /\ r \in Roots /\ Admitted(r)
  BY FlightRows
<1>2. RootsRight /\ OpsRight /\ (roots' # roots => roots'[r].ambiguous)
  BY <1>1, AmbiguityRight DEF WaiterLost
<1>3. roots[r].terminal => roots'[r].terminal
  BY <1>1, <1>2 DEF RootsRight, RootRight, RootFollows
<1>4. /\ waiters' = IF roots[r].terminal \/ roots' # roots THEN waiters \ {permit} ELSE waiters
      /\ egress' = egress /\ phone' = phone
  BY DEF WaiterLost
<1>5. WaitersGo
  BY <1>2, <1>3, <1>4 DEF WaitersGo
<1> QED BY <1>2, <1>4, <1>5 DEF Quiet

LEMMA ExpiryFenced ==
    ASSUME FenceInv, NEW permit \in waiters, ExpireServerWorkflowChild(permit) PROVE Quiet
<1> DEFINE o == permit.op
           target == O!TransitionTarget(operations[o].state, ToOutcome(FALSE), Automatic)
           after == MovedOperation(operations[o], target)
<1>1. o \in JobOps /\ o \in Ops /\ Registered(o)
  BY FlightRows
<1>2. /\ o \in Children /\ ~operations[o].terminal /\ target # NULL
      /\ operations' = [operations EXCEPT ![o] = after]
      /\ waiters' = waiters \ {permit} /\ roots' = roots /\ egress' = egress /\ phone' = phone
  BY DEF ExpireServerWorkflowChild
<1>3. target \in OpStatuses /\ target # OpInitial /\ R!Satisfies(OpStates[target], ToOutcome(FALSE))
  BY <1>2, OpTargetFlags
<1>4. OpStates[target].terminal = TRUE /\ OpStates[target].retryable = TRUE
  BY <1>3, TargetSelects
<1>5. WellFormedOperation(operations[o])
  BY <1>1 DEF FenceInv, Fenced, WellFormed
<1> HIDE DEF target
<1>6. OpFollows(operations[o], after) /\ after.state = target /\ after.terminal = TRUE
  BY <1>2, <1>3, <1>4, <1>5, MovedOperationFollows
<1> HIDE DEF after
<1>7. ~O!StateMatches(target, ToOutcome(TRUE))
  <2> SUFFICES ASSUME O!StateMatches(target, ToOutcome(TRUE)) PROVE FALSE
    OBVIOUS
  <2>1. R!Satisfies(OpStates[target], ToOutcome(TRUE))
    BY SameReading
  <2>2. OpStates[target].retryable = ~TRUE
    BY <2>1, TargetSelects
  <2> QED BY <1>4, <2>2
<1>8. OpRight(o, after)
  BY <1>2, <1>6, <1>7 DEF OpRight, Told, OpFollows
<1>9. RootsRight /\ OpsRight /\ operations'[o] = after
  BY <1>1, <1>2, <1>8, SameRootsRight, OpRightlyWritten
<1>10. WaitersGo
  BY <1>2, <1>6, <1>9 DEF WaitersGo
<1> QED BY <1>2, <1>9, <1>10 DEF Quiet

LEMMA FinishFenced ==
    ASSUME FenceInv, NEW w \in Workflows, NEW successful \in BOOLEAN,
           FinishServerWorkflowRoot(w, successful)
    PROVE  Quiet
<1> DEFINE target == R!TransitionTarget(roots[w].state, ToOutcome(successful), Automatic)
           opTarget == O!TransitionTarget(operations[w].state, ToOutcome(successful), Automatic)
           ends == Admitted(w) /\ ~roots[w].terminal /\ ~roots[w].ambiguous /\ target # NULL
           after == EndedRoot(roots[w], target)
           opAfter == [MovedOperation(operations[w], opTarget) EXCEPT !.generation = roots[w].generation]
<1>1. w \in Roots /\ w \in Ops /\ w \notin JobOps
  BY NameAssumption DEF Roots, Ops, JobOps
<1>2. /\ roots' = IF ends THEN [roots EXCEPT ![w] = after] ELSE roots
      /\ operations' = IF ~ends \/ opTarget = NULL THEN operations
                       ELSE [operations EXCEPT ![w] = opAfter]
      /\ egress' = egress /\ waiters' = waiters /\ phone' = phone
  BY DEF FinishServerWorkflowRoot
<1>3. ASSUME ends PROVE RootRight(w, after) /\ AmbiguousRight(w, after)
  <2>1. target \in RootStatuses /\ RootStates[target].terminal = TRUE
    BY <1>3, OutcomeEnds
  <2>2. WellFormedRoot(roots[w])
    BY <1>1, <1>3 DEF FenceInv, Fenced, WellFormed
  <2>3. RootFollows(roots[w], after)
    BY <1>3, <2>1, <2>2, EndedRootFollows
  <2>4. AmbiguousRight(w, after)
    BY <1>3 DEF AmbiguousRight
  <2> HIDE DEF after
  <2> QED BY <1>3, <2>3, <2>4, WorkflowRight
<1> HIDE DEF after, opAfter, target, opTarget
<1>4. RootsRight
  <2>1. CASE ends
    BY <1>1, <1>2, <1>3, <2>1, RootRightlyWritten
  <2>2. CASE ~ends
    BY <1>2, <2>2, SameRootsRight
  <2> QED BY <2>1, <2>2
<1>5. OpsRight
  <2>1. CASE operations' = operations
    BY <2>1, SameOpsRight
  <2>2. CASE operations' = [operations EXCEPT ![w] = opAfter]
    BY <1>1, <2>2, OpRightlyWritten
  <2> QED BY <1>2, <2>1, <2>2
<1>6. WaitersGo
  BY <1>2 DEF WaitersGo
<1> QED BY <1>2, <1>4, <1>5, <1>6 DEF Quiet

LEMMA CancelQueuedFenced ==
    ASSUME FenceInv, NEW w \in Workflows, CancelQueuedPersistedWorkflow(w) PROVE Quiet
<1> DEFINE target == R!TransitionTarget(roots[w].state, ToEnded, Manual)
           To(o) == O!TransitionTarget(operations[o].state, ToEnded, Manual)
           Cancels(o) == /\ Registered(o) /\ RootOf(o) = w
                         /\ O!StateMatches(operations[o].state, [initial |-> TRUE])
                         /\ To(o) # NULL
           CancelledOp(o) == [operations[o] EXCEPT !.state = To(o),
                                 !.generation = roots[w].generation, !.terminal = TRUE]
           After(o) == IF Cancels(o) THEN CancelledOp(o) ELSE operations[o]
           after == EndedRoot(roots[w], target)
<1>1. w \in Roots /\ egress' = egress /\ waiters' = waiters /\ phone' = phone
  BY DEF CancelQueuedPersistedWorkflow, Roots
<1>2. WaitersGo
  BY <1>1 DEF WaitersGo
<1>3. CASE UNCHANGED ledgers
  BY <1>1, <1>2, <1>3, SameRootsRight, SameOpsRight DEF Quiet, ledgers
<1>4. CASE /\ Admitted(w) /\ InitialPhase(roots[w]) /\ target # NULL
           /\ roots' = [roots EXCEPT ![w] = after]
           /\ operations' = [o \in Ops |-> After(o)]
  <2>1. WellFormedRoot(roots[w]) /\ ~roots[w].terminal /\ ~roots[w].ambiguous
    BY <1>1, <1>4 DEF FenceInv, Fenced, WellFormed, InitialPhase
  <2>2. target \in RootStatuses /\ R!Satisfies(RootStates[target], ToEnded)
    BY <1>4, RootTarget
  <2>3. RootStates[target].terminal = TRUE
    BY <2>2 DEF R!Satisfies, ToEnded
  <2>4. RootFollows(roots[w], after)
    BY <2>1, <2>2, <2>3, EndedRootFollows
  <2>5. AmbiguousRight(w, after)
    BY <2>1 DEF AmbiguousRight
  <2>6. roots[w].generation \in Nat
    BY <2>1, RootColumns DEF WellFormedRoot
  <2>7. roots' = [roots EXCEPT ![w] = after]
    BY <1>4
  <2> HIDE DEF after
  <2>8. RootRight(w, after)
    BY <1>4, <2>4, <2>5, WorkflowRight
  <2>9. RootsRight
    BY <1>1, <2>5, <2>7, <2>8, RootRightlyWritten
  <2>10. ASSUME NEW o \in JobOps, Cancels(o) PROVE OpRight(o, CancelledOp(o))
    <3>1. operations[o] \in OpRow /\ operations[o].state \in OpStatuses
      BY <2>10, OpColumns DEF FenceInv, Fenced, WellFormed, WellFormedOperation
    <3>2. operations[o].state = OpInitial
      <4>1. PICK q \in OpStatuses : \A u \in OpStatuses : O!StateMatches(u, [initial |-> TRUE]) <=> u = q
        BY DeviceLifecycleAssumption
      <4>2. OpInitial = q
        BY <4>1 DEF OpInitial
      <4> QED BY <2>10, <3>1, <4>1, <4>2
    <3>3. /\ To(o) \in OpStatuses /\ R!Satisfies(OpStates[To(o)], ToEnded)
      BY <2>10, OpTargetFlags
    <3>4. OpStates[To(o)].terminal = TRUE
      BY <3>3 DEF R!Satisfies, ToEnded
    <3>5. OpStates[To(o)].administrative = TRUE
      <4>1. OpStates[To(o)].administrative
        BY <3>2, <3>3, FenceAssumption
      <4>2. OpStates[To(o)].administrative \in BOOLEAN
        BY <3>3, LifecycleTypes DEF O!StateFlags
      <4> QED BY <4>1, <4>2
    <3> HIDE DEF To
    <3>6. /\ CancelledOp(o) \in OpRow /\ CancelledOp(o).state = To(o)
          /\ CancelledOp(o).terminal = TRUE
      BY <2>6, <3>1, <3>3 DEF OpRow
    <3> HIDE DEF CancelledOp
    <3>7. WellFormedOperation(CancelledOp(o)) /\ OpFollows(operations[o], CancelledOp(o))
      BY <3>2, <3>4, <3>6 DEF WellFormedOperation, OpFollows
    <3>8. Told(o, CancelledOp(o))
      BY <3>5, <3>6, AdministrativeIsNoOutcome
    <3> QED BY <3>7, <3>8 DEF OpRight
  <2> HIDE DEF CancelledOp, Cancels
  <2>11. \A o \in JobOps : OpRight(o, After(o))
    BY <2>10, SameOpRight
  <2>12. \A o \in JobOps : operations'[o] = After(o)
    <3>1. \A o \in JobOps : o \in Ops
      BY DEF JobOps, Ops, Roots
    <3> QED BY <1>4, <3>1
  <2> HIDE DEF After
  <2>13. OpsRight
    BY <2>11, <2>12 DEF OpsRight
  <2> QED BY <1>1, <1>2, <2>9, <2>13 DEF Quiet
<1> QED BY <1>3, <1>4 DEF CancelQueuedPersistedWorkflow, ledgers

-----------------------------------------------------------------------------
(* The repairs and the restart. *)

LEMMA RootFollowsFurther ==
    ASSUME NEW before, NEW now, NEW after, RootFollows(before, now), RootFollows(now, after)
    PROVE  RootFollows(before, after)
  BY DEF RootFollows
LEMMA OpFollowsFurther ==
    ASSUME NEW before, NEW now, NEW after, OpFollows(before, now), OpFollows(now, after)
    PROVE  OpFollows(before, after)
  BY DEF OpFollows

\* The repair of an operation: it takes over an end while it shows none.
LEMMA RepairedOperationFollows ==
    ASSUME NEW row, WellFormedOperation(row), NEW generation, NEW s \in Ends, NEW stamps \in BOOLEAN
    PROVE  LET after == RepairedOperation(row, generation, s, stamps) IN
           /\ OpFollows(row, after)
           /\ after = row \/ (after.state = s /\ (after.terminal => stamps))
<1> DEFINE after == RepairedOperation(row, generation, s, stamps)
<1>1. s \in OpStatuses /\ OpStates[s].terminal = TRUE /\ s # OpInitial
  BY EndFlags, SharedEnds
<1>2. CASE after = row
  BY <1>2, SameOpFollows
<1>3. CASE /\ O!StateMatches(row.state, [terminal |-> FALSE])
           /\ after = [row EXCEPT !.state = s, !.terminal = row.terminal \/ stamps]
  <2>1. row \in OpRow
    BY DEF WellFormedOperation
  <2>2. ~row.terminal
    BY <1>3, OpSelects DEF WellFormedOperation
  <2>3. /\ after \in OpRow /\ after.state = s /\ after.generation = row.generation
        /\ after.terminal = (row.terminal \/ stamps)
    BY <1>1, <1>3, <2>1 DEF OpRow
  <2> HIDE DEF after
  <2>4. after.terminal => stamps
    BY <2>2, <2>3
  <2>5. OpFollows(row, after)
    BY <1>1, <2>2, <2>3 DEF OpFollows, WellFormedOperation
  <2> QED BY <2>3, <2>4, <2>5 DEF after
<1> QED BY <1>2, <1>3 DEF RepairedOperation

\* Both repairs, of ledgers that follow the ones before the step.
LEMMA RepairRight ==
    ASSUME FenceInv, NEW rootsNow, NEW opsNow, NEW settled, NEW unstarted,
           \A r \in Roots : RootRight(r, rootsNow[r]),
           \A r \in Roots : rootsNow[r] # NoRow => Admitted(r),
           \A r \in Roots : Admitted(r) /\ roots[r].ambiguous => rootsNow[r] = roots[r],
           \A o \in JobOps : OpRight(o, opsNow[o]),
           \A o \in JobOps : opsNow[o] # NoRow => Registered(o),
           Repaired(rootsNow, opsNow, settled, unstarted)
    PROVE  /\ RootsRight /\ OpsRight
           /\ \A r \in Roots : rootsNow[r] # NoRow => RootFollows(rootsNow[r], roots'[r])
<1> DEFINE ended == {w \in Workflows : TerminalEvidence(w, rootsNow[w], opsNow, settled)}
           failed == {w \in Workflows : NeverStarted(w, rootsNow[w], opsNow, unstarted)}
           RootAfter(r) == CASE r \in ended -> EndedRoot(rootsNow[r], workflowRows[r])
                             [] r \in failed -> EndedRoot(rootsNow[r], Failed)
                             [] OTHER -> rootsNow[r]
           OpAfter(o) == CASE RootOf(o) \in ended ->
                                RepairedOperation(opsNow[o], {rootsNow[RootOf(o)].generation},
                                                  workflowRows[RootOf(o)], FALSE)
                           [] RootOf(o) \in failed -> RepairedOperation(opsNow[o], Nat, Failed, TRUE)
                           [] OTHER -> opsNow[o]
<1>1. /\ roots' = [r \in Roots |-> RootAfter(r)]
      /\ operations' = [o \in Ops |-> OpAfter(o)]
      /\ workflowRows' = [w \in Workflows |-> IF w \in failed THEN Failed ELSE workflowRows[w]]
  BY DEF Repaired
<1>2. \A w \in ended : w \in Workflows /\ rootsNow[w] # NoRow /\ workflowRows[w] \in Ends
  BY DEF TerminalEvidence
<1>3. \A w \in failed : w \in Workflows /\ w \notin ended /\ rootsNow[w] # NoRow /\ Failed \in Ends
  BY DEF NeverStarted, TerminalEvidence, Ends
<1>4. \A w \in ended \cup failed : RootStates[rootsNow[w].state].terminal = FALSE
  <2>1. ASSUME NEW w \in ended PROVE RootStates[rootsNow[w].state].terminal = FALSE
    <3>1. R!StateMatches(rootsNow[w].state, [terminal |-> FALSE, manual |-> TRUE])
      BY <2>1 DEF TerminalEvidence
    <3> QED BY <3>1 DEF R!StateMatches, R!Satisfies
  <2>2. ASSUME NEW w \in failed PROVE RootStates[rootsNow[w].state].terminal = FALSE
    <3>1. R!StateMatches(rootsNow[w].state, [terminal |-> FALSE])
      BY <2>2 DEF NeverStarted
    <3> QED BY <3>1, RootSelects
  <2> QED BY <2>1, <2>2
<1>5. Workflows \subseteq Roots /\ \A w \in Workflows : w \notin Jobs
  BY NameAssumption DEF Roots
<1> HIDE DEF ended, failed
<1>6. ASSUME NEW w \in ended \cup failed, NEW s \in Ends
      PROVE  /\ RootFollows(rootsNow[w], EndedRoot(rootsNow[w], s))
             /\ EndedRoot(rootsNow[w], s).state = s
  <2>1. WellFormedRoot(rootsNow[w])
    BY <1>2, <1>3, <1>5 DEF RootRight
  <2>2. ~rootsNow[w].terminal
    BY <1>4, <2>1 DEF WellFormedRoot
  <2>3. s \in RootStatuses /\ RootStates[s].terminal = TRUE
    BY EndFlags
  <2> QED BY <2>1, <2>2, <2>3, EndedRootFollows, EndedRootIsTyped DEF WellFormedRoot
<1>7. ASSUME NEW w \in ended \cup failed, NEW s \in Ends, workflowRows'[w] = s,
             NEW row, row = EndedRoot(rootsNow[w], s)
      PROVE  RootRight(w, row) /\ AmbiguousRight(w, row) /\ RootFollows(rootsNow[w], row)
  <2>1. w \in Workflows /\ w \in Roots /\ rootsNow[w] # NoRow
    BY <1>2, <1>3, <1>5
  <2>2. Admitted(w) /\ RootFollows(roots[w], rootsNow[w])
    BY <2>1 DEF RootRight
  <2>3. RootFollows(rootsNow[w], row) /\ row.state = s
    BY <1>6, <1>7
  <2>4. RootFollows(roots[w], row)
    BY <2>2, <2>3, RootFollowsFurther
  <2>5. AmbiguousRight(w, row)
    BY <1>7, <2>1, <2>3 DEF AmbiguousRight
  <2> QED BY <2>1, <2>2, <2>3, <2>4, <2>5, WorkflowRight
<1>8. ASSUME NEW r \in Roots
      PROVE  /\ RootRight(r, RootAfter(r)) /\ AmbiguousRight(r, RootAfter(r))
             /\ rootsNow[r] # NoRow => RootFollows(rootsNow[r], RootAfter(r))
  <2>1. CASE r \in ended
    <3>1. RootAfter(r) = EndedRoot(rootsNow[r], workflowRows[r])
      BY <1>3, <2>1
    <3>2. workflowRows[r] \in Ends /\ workflowRows'[r] = workflowRows[r]
      BY <1>1, <1>2, <1>3, <2>1
    <3> HIDE DEF RootAfter
    <3> QED BY <1>7, <2>1, <3>1, <3>2
  <2>2. CASE r \notin ended /\ r \in failed
    <3>1. RootAfter(r) = EndedRoot(rootsNow[r], Failed)
      BY <2>2
    <3>2. Failed \in Ends /\ workflowRows'[r] = Failed
      BY <1>1, <1>3, <2>2
    <3> HIDE DEF RootAfter
    <3> QED BY <1>7, <2>2, <3>1, <3>2
  <2>3. CASE r \notin ended /\ r \notin failed
    <3>1. RootAfter(r) = rootsNow[r]
      BY <2>3
    <3> HIDE DEF RootAfter
    <3>2. RootRight(r, rootsNow[r]) /\ AmbiguousRight(r, rootsNow[r])
      BY DEF AmbiguousRight
    <3>3. rootsNow[r] # NoRow => RootFollows(rootsNow[r], rootsNow[r])
      BY <3>2, SameRootFollows DEF RootRight
    <3> QED BY <3>1, <3>2, <3>3
  <2> QED BY <2>1, <2>2, <2>3
<1>9. ASSUME NEW o \in JobOps, RootOf(o) \in Workflows, NEW generation, NEW s \in Ends,
             NEW stamps \in BOOLEAN, stamps => s = Failed,
             NEW row, row = RepairedOperation(opsNow[o], generation, s, stamps)
      PROVE  OpRight(o, row)
  <2>1. CASE opsNow[o] = NoRow
    BY <1>9, <2>1 DEF RepairedOperation
  <2>2. CASE opsNow[o] # NoRow
    <3>1. Registered(o) /\ OpRight(o, opsNow[o]) /\ WellFormedOperation(opsNow[o])
      BY <2>2 DEF OpRight
    <3>2. OpFollows(opsNow[o], row) /\ (row = opsNow[o] \/ (row.state = s /\ (row.terminal => stamps)))
      BY <1>9, <3>1, RepairedOperationFollows
    <3>3. OpFollows(operations[o], row)
      BY <3>1, <3>2, OpFollowsFurther DEF OpRight
    <3>4. Told(o, row)
      <4>1. CASE row = opsNow[o]
        BY <2>2, <3>1, <4>1 DEF OpRight
      <4>2. CASE row.state = s /\ ~row.terminal
        BY <4>2 DEF Told
      <4>3. CASE row.state = Failed
        <5>1. o \in Children
          BY <1>5, <1>9, NameAssumption DEF RootOf, JobOps
        <5>2. Failed \in RootStatuses /\ RootStates[Failed].terminal = TRUE
          BY EndFlags DEF Ends
        <5>3. OpStates[Failed] = RootStates[Failed]
          BY <5>2, SharedEnds
        <5>4. R!Satisfies(RootStates[Failed], ToOutcome(FALSE))
          BY DeviceLifecycleAssumption DEF R!StateMatches
        <5>5. RootStates[Failed].retryable = ~FALSE
          BY <5>4, TargetSelects
        <5>6. ~O!StateMatches(Failed, ToOutcome(TRUE))
          <6> SUFFICES ASSUME O!StateMatches(Failed, ToOutcome(TRUE)) PROVE FALSE
            OBVIOUS
          <6>1. R!Satisfies(OpStates[Failed], ToOutcome(TRUE))
            BY SameReading
          <6>2. OpStates[Failed].retryable = ~TRUE
            BY <6>1, TargetSelects
          <6> QED BY <5>3, <5>5, <6>2
        <5> QED BY <4>3, <5>1, <5>6 DEF Told
      <4> QED BY <1>9, <3>2, <4>1, <4>2, <4>3
    <3> QED BY <3>3, <3>4 DEF OpRight, OpFollows
  <2> QED BY <2>1, <2>2
<1>10. ASSUME NEW o \in JobOps PROVE OpRight(o, OpAfter(o))
  <2>1. CASE RootOf(o) \in ended
    <3>1. OpAfter(o) = RepairedOperation(opsNow[o], {rootsNow[RootOf(o)].generation},
                                         workflowRows[RootOf(o)], FALSE)
      BY <1>3, <2>1
    <3>2. RootOf(o) \in Workflows /\ workflowRows[RootOf(o)] \in Ends
      BY <1>2, <2>1
    <3> DEFINE generation == {rootsNow[RootOf(o)].generation}
               status == workflowRows[RootOf(o)]
    <3>3. OpAfter(o) = RepairedOperation(opsNow[o], generation, status, FALSE) /\ status \in Ends
      BY <3>1, <3>2
    <3> HIDE DEF OpAfter, generation, status
    <3> QED BY <1>9, <3>2, <3>3
  <2>2. CASE RootOf(o) \notin ended /\ RootOf(o) \in failed
    <3>1. OpAfter(o) = RepairedOperation(opsNow[o], Nat, Failed, TRUE)
      BY <2>2
    <3>2. Failed \in Ends /\ RootOf(o) \in Workflows
      BY <1>3, <2>2
    <3> HIDE DEF OpAfter
    <3> QED BY <1>9, <3>1, <3>2
  <2>3. CASE RootOf(o) \notin ended /\ RootOf(o) \notin failed
    <3>1. OpAfter(o) = opsNow[o]
      BY <2>3
    <3> HIDE DEF OpAfter
    <3> QED BY <3>1
  <2> QED BY <2>1, <2>2, <2>3
<1>11. (\A r \in Roots : roots'[r] = RootAfter(r)) /\ (\A o \in JobOps : operations'[o] = OpAfter(o))
  BY <1>1 DEF JobOps, Ops, Roots
<1> HIDE DEF RootAfter, OpAfter
<1> QED BY <1>8, <1>10, <1>11 DEF RootsRight, OpsRight

LEMMA ReconcileFenced ==
    ASSUME FenceInv, NEW settled, ReconcileTerminalWorkflowRoots(settled) PROVE Quiet
<1>1. Repaired(roots, operations, settled, {}) /\ egress' = egress /\ waiters' = waiters /\ phone' = phone
  BY DEF ReconcileTerminalWorkflowRoots
<1>2. (\A r \in Roots : RootRight(r, roots[r])) /\ (\A o \in JobOps : OpRight(o, operations[o]))
  BY SameRootRight, SameOpRight
<1>3. /\ \A r \in Roots : roots[r] # NoRow => Admitted(r)
      /\ \A o \in JobOps : operations[o] # NoRow => Registered(o)
  BY DEF Admitted, Registered
<1>4. RootsRight /\ OpsRight
  BY <1>1, <1>2, <1>3, RepairRight
<1>5. WaitersGo
  BY <1>1 DEF WaitersGo
<1> QED BY <1>1, <1>4, <1>5 DEF Quiet

\* The roots that a restart blocks: out of the queue, open, and not with an operator.
LEMMA InFlightSelects ==
    ASSUME NEW s
    PROVE  R!StateMatches(s, [initial |-> FALSE, terminal |-> FALSE, manual |-> FALSE]) <=>
              RootFlags(s, FALSE, FALSE) /\ RootStates[s].manual = FALSE
<1> DEFINE selector == [initial |-> FALSE, terminal |-> FALSE, manual |-> FALSE]
<1>1. /\ DOMAIN selector = {"initial", "terminal", "manual"}
      /\ selector["initial"] = FALSE /\ selector["terminal"] = FALSE /\ selector["manual"] = FALSE
  OBVIOUS
<1> HIDE DEF selector
<1>2. R!Satisfies(RootStates[s], selector)
        <=> /\ RootStates[s].initial = FALSE /\ RootStates[s].terminal = FALSE
            /\ RootStates[s].manual = FALSE
  BY <1>1 DEF R!Satisfies
<1>3. R!StateMatches(s, selector) <=> RootFlags(s, FALSE, FALSE) /\ RootStates[s].manual = FALSE
  BY <1>2 DEF R!StateMatches, RootFlags
<1> QED BY <1>3 DEF selector

\* A root that has left the queue has ended, waits for an operator, or is blocked.
LEMMA LeftTheQueue ==
    ASSUME FenceInv, NEW r \in Roots, Admitted(r), ~InitialPhase(roots[r])
    PROVE  roots[r].terminal \/ roots[r].ambiguous \/ InFlight(r)
<1> SUFFICES ASSUME ~roots[r].terminal, ~roots[r].ambiguous PROVE InFlight(r)
  OBVIOUS
<1>1. WellFormedRoot(roots[r])
  BY DEF FenceInv, Fenced, WellFormed
<1>2. roots[r].state \in RootStatuses /\ roots[r].state # RootInitial
  BY <1>1, RootColumns DEF WellFormedRoot, InitialPhase
<1>3. /\ RootStates[roots[r].state].initial = FALSE
      /\ RootStates[roots[r].state].terminal = FALSE
      /\ RootStates[roots[r].state].manual = FALSE
  <2>1. ~RootStates[roots[r].state].terminal /\ ~RootStates[roots[r].state].manual
    BY <1>1, <1>2 DEF WellFormedRoot
  <2>2. RootStates[roots[r].state].initial # TRUE
    BY <1>2, InitialFlags
  <2> QED BY <1>2, <2>1, <2>2, FlagTypes
<1>4. R!StateMatches(roots[r].state, [initial |-> FALSE, terminal |-> FALSE, manual |-> FALSE])
  BY <1>2, <1>3, InFlightSelects DEF RootFlags
<1>5. R!TransitionTarget(roots[r].state, ToAmbiguous, Automatic) # NULL
  BY <1>2, <1>4, FenceAssumption
<1> QED BY <1>4, <1>5 DEF InFlight, RootMatches

LEMMA RestartFenced ==
    ASSUME FenceInv, NEW settled, NEW unstarted, Restart(settled, unstarted) PROVE Quiet
<1> DEFINE rootsNow == [r \in Roots |-> IF InFlight(r) THEN BlockedRoot(roots[r]) ELSE roots[r]]
           opsNow == [o \in Ops |-> ReconciledOperation(o)]
<1>1. /\ Repaired(rootsNow, opsNow, settled, unstarted)
      /\ egress' = {} /\ waiters' = {} /\ phone' = phone
  BY DEF Restart
<1>2. ASSUME NEW r \in Roots
      PROVE  /\ RootRight(r, rootsNow[r])
             /\ rootsNow[r] # NoRow <=> Admitted(r)
             /\ Admitted(r) /\ roots[r].ambiguous => rootsNow[r] = roots[r]
             /\ InFlight(r) => rootsNow[r].ambiguous
  <2>1. CASE InFlight(r)
    <3>1. Admitted(r) /\ R!TransitionTarget(roots[r].state, ToAmbiguous, Automatic) # NULL
      BY <2>1 DEF InFlight, RootMatches
    <3>2. WellFormedRoot(roots[r])
      BY <3>1 DEF FenceInv, Fenced, WellFormed
    <3>3. /\ RootFollows(roots[r], BlockedRoot(roots[r])) /\ BlockedRoot(roots[r]).ambiguous
          /\ BlockedRoot(roots[r]).terminal = roots[r].terminal
          /\ roots[r].ambiguous => BlockedRoot(roots[r]) = roots[r]
      BY <3>1, <3>2, BlockedRootFollows
    <3>4. RootRight(r, BlockedRoot(roots[r]))
      <4>1. roots[r].terminal => BlockedRoot(roots[r]) = roots[r]
        BY <3>3 DEF RootFollows
      <4> QED BY <3>1, <3>3, <4>1, OpenMoveRight
    <3>5. BlockedRoot(roots[r]) # NoRow
      BY <3>3, NoRowIsNoRecord DEF RootFollows, WellFormedRoot
    <3>6. rootsNow[r] = BlockedRoot(roots[r])
      BY <2>1
    <3> HIDE DEF rootsNow
    <3> QED BY <3>1, <3>3, <3>4, <3>5, <3>6
  <2>2. CASE ~InFlight(r)
    BY <2>2, SameRootRight DEF Admitted
  <2> QED BY <2>1, <2>2
<1>3. ASSUME NEW o \in JobOps
      PROVE  OpRight(o, ReconciledOperation(o)) /\ (ReconciledOperation(o) # NoRow => Registered(o))
  <2> DEFINE target == O!TransitionTarget(operations[o].state, ToAmbiguous, Automatic)
             after == [operations[o] EXCEPT !.state = target]
  <2>1. CASE ReconciledOperation(o) = operations[o]
    BY <2>1, SameOpRight DEF Registered
  <2>2. CASE /\ Registered(o) /\ O!StateMatches(operations[o].state, [terminal |-> FALSE])
             /\ target # NULL /\ ReconciledOperation(o) = after
    <3>1. WellFormedOperation(operations[o]) /\ operations[o] \in OpRow
      BY <2>2 DEF FenceInv, Fenced, WellFormed, WellFormedOperation
    <3>2. ~operations[o].terminal /\ target \in OpStatuses /\ target # OpInitial
      BY <2>2, <3>1, OpenOperation
    <3> HIDE DEF target
    <3>3. /\ after \in OpRow /\ after.state = target /\ ~after.terminal
          /\ after.generation = operations[o].generation
      BY <3>1, <3>2 DEF OpRow
    <3> HIDE DEF after
    <3>4. WellFormedOperation(after) /\ OpFollows(operations[o], after)
      BY <3>2, <3>3 DEF WellFormedOperation, OpFollows
    <3> QED BY <2>2, <3>3, <3>4, LiveOpRight
  <2> QED BY <2>1, <2>2 DEF ReconciledOperation
<1>4. \A o \in JobOps : opsNow[o] = ReconciledOperation(o)
  BY DEF JobOps, Ops, Roots
<1> HIDE DEF rootsNow, opsNow
<1>5. /\ RootsRight /\ OpsRight
      /\ \A r \in Roots : rootsNow[r] # NoRow => RootFollows(rootsNow[r], roots'[r])
  BY <1>1, <1>2, <1>3, <1>4, RepairRight
<1>6. WaitersGo
  <2> SUFFICES ASSUME NEW permit \in waiters
               PROVE  \/ roots'[RootOf(permit.op)].terminal
                      \/ roots'[RootOf(permit.op)].ambiguous
    BY DEF WaitersGo
  <2> DEFINE r == RootOf(permit.op)
  <2>1. r \in Roots /\ Admitted(r) /\ ~InitialPhase(roots[r])
    BY FlightRows DEF Current
  <2>2. RootFollows(roots[r], roots'[r])
    BY <1>5, <2>1 DEF RootsRight, RootRight
  <2>3. CASE roots[r].terminal \/ roots[r].ambiguous
    BY <2>2, <2>3 DEF RootFollows
  <2>4. CASE InFlight(r)
    <3>1. rootsNow[r] # NoRow /\ rootsNow[r].ambiguous
      BY <1>2, <2>1, <2>4
    <3>2. RootFollows(rootsNow[r], roots'[r])
      BY <1>5, <2>1, <3>1
    <3> QED BY <3>1, <3>2 DEF RootFollows
  <2> QED BY <2>1, <2>3, <2>4, LeftTheQueue
<1> QED BY <1>1, <1>5, <1>6 DEF Quiet

-----------------------------------------------------------------------------
(* The invariant is inductive, and every step keeps an ambiguous root closed. *)

LEMMA UnwatchedIsFenced ==
    ASSUME FenceInv, UNCHANGED <<ledgers, egress, waiters, phone>>
    PROVE  Fenced' /\ AmbiguousStays /\ Closed
  BY UnwatchedStep DEF Closed, NoneStarts

LEMMA MovingStepsAreQuiet == ASSUME FenceInv, MovingStep PROVE Quiet
<1>1. ASSUME NEW j \in Jobs, ObserveCancelled(j) \/ MarkTimedOut(j) PROVE Quiet
  BY <1>1, CancellationFenced, TimeoutFenced
<1>2. ASSUME NEW permit \in waiters, WaiterLost(permit) \/ ExpireServerWorkflowChild(permit) PROVE Quiet
  BY <1>2, LossFenced, ExpiryFenced
<1> QED BY <1>1, <1>2, CompletionFenced, ResultFenced, FinishFenced, CancelQueuedFenced,
           ReconcileFenced, RestartFenced DEF MovingStep

LEMMA EveryStepIsFenced ==
    ASSUME FenceInv, Next PROVE Fenced' /\ AmbiguousStays /\ Closed
<1> DEFINE Good == Fenced' /\ AmbiguousStays /\ Closed
<1>1. ASSUME NEW r \in Roots, ObserveAdmission(r) PROVE Good
  <2>1. Closed
    BY <1>1 DEF ObserveAdmission, Closed, NoneStarts
  <2> QED BY <1>1, <2>1, AdmissionFenced
<1>2. ASSUME NEW j \in Jobs, AdmitJob(j) PROVE Good
  BY <1>1, <1>2 DEF AdmitJob, Roots
<1>3. ASSUME NEW w \in Workflows, AdmitWorkflow(w) PROVE Good
  BY <1>1, <1>3 DEF AdmitWorkflow, Roots
<1>4. ASSUME NEW w \in Workflows,
             \/ RunWorkflow(w) \/ MarkRunning(w) \/ MarkCompleted(w) \/ CloseWorkflowRow(w)
             \/ \E last \in BOOLEAN : AttemptFails(w, last)
      PROVE  Good
  <2>1. UNCHANGED <<ledgers, egress, waiters, phone>>
    BY <1>4 DEF RunWorkflow, MarkRunning, MarkCompleted, CloseWorkflowRow, AttemptFails
  <2> QED BY <2>1, UnwatchedIsFenced
<1>5. ASSUME NEW j \in Jobs, NEW how \in {"cancelling", "expiring"}, EndJobRow(j, how) PROVE Good
  BY <1>5, UnwatchedIsFenced DEF EndJobRow
<1>6. ASSUME NEW o \in JobOps, PrepareEgress(o) PROVE Good
  BY <1>6, PrepareFenced
<1>7. ASSUME NEW call \in egress, NEW sent \in BOOLEAN, WireDispatch(call, sent) PROVE Good
  BY <1>7, WireFenced
<1>8. ASSUME NEW frame \in phone, NEW status \in {"succeeded", "failed"}, PhoneFinishes(frame, status)
      PROVE  Good
  BY <1>8, PhoneFenced
<1>9. ASSUME MovingStep PROVE Good
  BY <1>9, MovingStepsAreQuiet, QuietIsFenced
<1> HIDE DEF Good
<1>10. Good
  BY <1>2, <1>3, <1>4, <1>5, <1>6, <1>7, <1>8, <1>9 DEF Next, MovingStep
<1> QED BY <1>10 DEF Good

LEMMA FenceStep == FenceInv /\ [Next]_vars => FenceInv'
<1> SUFFICES ASSUME FenceInv, [Next]_vars PROVE FenceInv'
  OBVIOUS
<1>1. ArbiterInv'
  BY InvariantStep DEF FenceInv
<1>2. CASE UNCHANGED vars
  BY <1>1, <1>2, UnwatchedIsFenced DEF vars, ledgers, FenceInv
<1>3. CASE Next
  BY <1>1, <1>3, EveryStepIsFenced DEF FenceInv
<1> QED BY <1>2, <1>3

LEMMA FenceInitially == Init => FenceInv
<1> SUFFICES ASSUME Init PROVE FenceInv
  OBVIOUS
<1>1. ArbiterInv
  BY InvariantInitially
<1>2. (\A r \in Roots : ~Admitted(r)) /\ (\A o \in Ops : ~Registered(o)) /\ JobOps \subseteq Ops
  BY DEF Init, Admitted, Registered, JobOps, Ops, Roots
<1>3. egress = {} /\ waiters = {} /\ phone = {}
  BY DEF Init
<1>4. WellFormed
  BY <1>2 DEF WellFormed
<1>5. HandlesCurrent /\ OneSend /\ JobsHeld /\ FrameIsAccountedFor
  BY <1>3 DEF HandlesCurrent, OneSend, JobsHeld, FrameIsAccountedFor
<1>6. OutcomeIsThePhones
  BY <1>2 DEF OutcomeIsThePhones
<1> QED BY <1>1, <1>4, <1>5, <1>6 DEF FenceInv, Fenced

\* The strengthened invariant of the fence: rows agree with their timestamps, permits
\* are current and used once, and what the phone was sent is held and accounted for.
THEOREM FenceInvariant == Spec => []FenceInv
  BY FenceInitially, FenceStep, PTL DEF Spec

\* A job is sent to the phone once, through repeated dispatches, failed sends, replays
\* of the queue and restarts of the server: every one of them meets the operation's row.
THEOREM SentOnceAlways == Spec => []SentOnce
<1>1. FenceInv => SentOnce
  BY DEF FenceInv, Fenced, OneSend, SentOnce
<1> QED BY <1>1, FenceInvariant, PTL

\* The handle of a frame stays the handle of its operation and of its root, however
\* many siblings are sent and whatever is blocked, repaired or restarted meanwhile.
THEOREM HandleStaysCurrentAlways == Spec => []HandleStaysCurrent
<1>1. FenceInv => HandleStaysCurrent
  BY DEF FenceInv, Fenced, HandlesCurrent, Current, HandleStaysCurrent
<1> QED BY <1>1, FenceInvariant, PTL

\* While the phone works on a standalone job, the device is that job's: only the
\* job's cancellation takes it away, no timeout, disconnect or restart does.
THEOREM JobFrameHoldsDeviceAlways == Spec => []JobFrameHoldsDevice
<1>1. ASSUME FenceInv PROVE JobFrameHoldsDevice
  <2> SUFFICES ASSUME NEW frame \in phone, frame.status = "executing", frame.op \in Jobs,
                      roots[frame.op].state # Cancelled
               PROVE  frame.op \in ActiveRoots
    BY DEF JobFrameHoldsDevice
  <2> DEFINE j == frame.op
  <2>1. RootOf(j) = j
    BY NameAssumption DEF RootOf, Roots
  <2>2. j \in Roots /\ Admitted(j) /\ ~InitialPhase(roots[j])
    BY <1>1, <2>1, FlightRows DEF Current
  <2>3. WellFormedRoot(roots[j]) /\ ~roots[j].terminal
    BY <1>1, <2>2 DEF FenceInv, Fenced, WellFormed, JobsHeld, Held
  <2>4. roots[j].state \in RootStatuses /\ roots[j].state # RootInitial
    BY <2>2, <2>3, RootColumns DEF WellFormedRoot, InitialPhase
  <2>5. RootStates[roots[j].state].terminal = FALSE /\ RootStates[roots[j].state].initial = FALSE
    <3>1. ~RootStates[roots[j].state].terminal
      BY <2>3 DEF WellFormedRoot
    <3>2. RootStates[roots[j].state].initial # TRUE
      BY <2>4, InitialFlags
    <3> QED BY <2>4, <3>1, <3>2, FlagTypes
  <2> QED BY <2>2, <2>4, <2>5, ActiveSelects DEF ActiveRoots, RootMatches, RootFlags
<1> QED BY <1>1, FenceInvariant, PTL

\* No sent frame is forgotten: a waiter stands for it, or its operation or root has
\* ended, or its root is marked ambiguous for an operator to see.
THEOREM FrameIsAccountedForAlways == Spec => []FrameIsAccountedFor
<1>1. FenceInv => FrameIsAccountedFor
  BY DEF FenceInv, Fenced
<1> QED BY <1>1, FenceInvariant, PTL

\* A job's recorded outcome, and a child's completion, is what the phone reported.
THEOREM OutcomeIsThePhonesAlways == Spec => []OutcomeIsThePhones
<1>1. FenceInv => OutcomeIsThePhones
  BY DEF FenceInv, Fenced
<1> QED BY <1>1, FenceInvariant, PTL

\* An ambiguous root fails closed: until its job is cancelled or its workflow's end is
\* copied to it no step changes it, and none prepares a send for it.
THEOREM AmbiguousFailsClosedAlways == Spec => AmbiguousFailsClosed
<1> DEFINE Step == \A r \in Roots : Admitted(r) /\ roots[r].ambiguous =>
                      /\ \/ roots'[r] = roots[r]
                         \/ r \in Jobs /\ roots'[r].state = Cancelled
                         \/ r \in Workflows /\ workflowRows'[r] \in Ends /\ roots'[r].state = workflowRows'[r]
                      /\ \A call \in egress' \ egress : call.wire = "pending" => RootOf(call.op) # r
<1>1. ASSUME FenceInv, Next PROVE Step
  BY <1>1, EveryStepIsFenced DEF AmbiguousStays, AmbiguousRight, Closed, NoneStarts
<1>2. FenceInv /\ [Next]_vars => [Step]_vars
  BY <1>1
<1> QED BY <1>2, FenceInvariant, PTL DEF Spec, AmbiguousFailsClosed

-----------------------------------------------------------------------------
(* The device is a lane.  Its line, its slot and its outcomes are read off a table   *)
(* of roots, before or after a step.                                                *)

\* The phase of a root, its status and its end agree.
LEMMA PhaseOfRoot ==
    ASSUME NEW row, WellFormedRoot(row)
    PROVE  /\ InitialPhase(row) <=> row.state = RootInitial
           /\ IsActive(row) <=> ~InitialPhase(row) /\ ~row.terminal
           /\ IsEnded(row) <=> row.terminal
           /\ RootStates[row.state].terminal <=> row.terminal
<1>1. /\ row \in RootRow /\ row.state \in RootStatuses /\ row.terminal \in BOOLEAN
      /\ RootStates[row.state].terminal \in BOOLEAN /\ RootStates[row.state].initial \in BOOLEAN
      /\ row.terminal <=> RootStates[row.state].terminal
  BY RootColumns, FlagTypes DEF WellFormedRoot
<1>2. row.state = RootInitial => ~row.terminal
  BY <1>1, InitialFlags DEF RootFlags
<1>3. InitialPhase(row) <=> row.state = RootInitial
  BY <1>2 DEF WellFormedRoot, InitialPhase
<1>4. RootStates[row.state].initial <=> row.state = RootInitial
  BY <1>1, InitialFlags DEF RootFlags
<1> QED BY <1>1, <1>2, <1>3, <1>4 DEF IsActive, IsEnded, RootFlags

LineIn(T) == {r \in Roots : T[r] # NoRow /\ T[r].state = RootInitial}
OrderIn(T) == {p \in LineIn(T) \X LineIn(T) : T[p[1]].fifo < T[p[2]].fifo}
ActiveIn(T) == {r \in Roots : T[r] # NoRow /\ RootFlags(T[r].state, FALSE, FALSE)}
SlotIn(T) == IF ActiveIn(T) = {} THEN NULL ELSE CHOOSE r \in ActiveIn(T) : TRUE
OutcomeIn(row) ==
    IF row = NoRow \/ ~RootStates[row.state].terminal THEN "open"
    ELSE IF RootStates[row.state].administrative \/ row.generation = 0 THEN "recovered"
    ELSE "reported"

LaneIsRead ==
    /\ QueuedRoots = LineIn(roots) /\ Before = OrderIn(roots)
    /\ ActiveRoots = ActiveIn(roots) /\ Holder = SlotIn(roots)
    /\ \A r \in Roots : OutcomeOf(r) = OutcomeIn(roots[r])

LEMMA LaneRead == TypeOK => LaneIsRead
<1> SUFFICES ASSUME TypeOK PROVE LaneIsRead
  OBVIOUS
<1>1. \A r \in Roots : Admitted(r) => roots[r].state \in RootStatuses
  BY RowsAreRows
<1>2. \A r \in Roots : RootMatches(r, [initial |-> TRUE]) <=> roots[r] # NoRow /\ roots[r].state = RootInitial
  BY <1>1, RootSelects, InitialFlags DEF RootMatches, Admitted, RootFlags
<1>3. QueuedRoots = LineIn(roots)
  BY <1>2 DEF QueuedRoots, LineIn
<1>4. Before = OrderIn(roots)
  BY <1>3 DEF Before, OrderIn
<1>5. ActiveRoots = ActiveIn(roots)
  BY ActiveSelects DEF ActiveRoots, ActiveIn, RootMatches, Admitted
<1>6. Holder = SlotIn(roots)
  BY <1>5 DEF Holder, SlotIn
<1>7. \A r \in Roots : OutcomeOf(r) = OutcomeIn(roots[r])
  BY DEF OutcomeOf, OutcomeIn, Admitted
<1> QED BY <1>3, <1>4, <1>5, <1>6, <1>7 DEF LaneIsRead

LEMMA LaneReadAfter == TypeOK' => LaneIsRead'
  BY LaneRead, PTL

\* One root at most is active, and it is in the slot.
LEMMA SlotHolds ==
    ASSUME NEW T, \A r, s \in ActiveIn(T) : r = s
    PROVE  /\ \A r \in ActiveIn(T) : SlotIn(T) = r
           /\ ActiveIn(T) = {} => SlotIn(T) = NULL
           /\ SlotIn(T) \in Roots => SlotIn(T) \in ActiveIn(T)
<1>1. NULL \notin Roots
  BY NameAssumption
<1> QED BY <1>1 DEF SlotIn

\* The rows behind the lane: who waits has no number, who runs is alone.
LEMMA LaneRows ==
    ASSUME FenceInv
    PROVE  /\ \A r \in Roots : roots[r] # NoRow => WellFormedRoot(roots[r])
           /\ \A r \in Roots : r \in LineIn(roots) <=> roots[r] # NoRow /\ InitialPhase(roots[r])
           /\ \A r \in Roots : r \in ActiveIn(roots) <=> roots[r] # NoRow /\ IsActive(roots[r])
           /\ \A r, s \in ActiveIn(roots) : r = s
<1>1. TypeOK /\ OneActiveRoot /\ LaneIsRead
  BY LaneRead DEF FenceInv, ArbiterInv
<1>2. \A r \in Roots : roots[r] # NoRow => WellFormedRoot(roots[r])
  BY DEF FenceInv, Fenced, WellFormed, Admitted
<1>3. \A r \in Roots : r \in LineIn(roots) <=> roots[r] # NoRow /\ InitialPhase(roots[r])
  BY <1>2, PhaseOfRoot DEF LineIn
<1>4. \A r \in Roots : r \in ActiveIn(roots) <=> roots[r] # NoRow /\ IsActive(roots[r])
  BY <1>2 DEF ActiveIn, IsActive, WellFormedRoot
<1>5. \A r, s \in ActiveIn(roots) : r = s
  BY <1>1 DEF LaneIsRead, OneActiveRoot
<1> QED BY <1>2, <1>3, <1>4, <1>5

LEMMA LaneRowsAfter ==
    FenceInv' => /\ \A r \in Roots : roots'[r] # NoRow => WellFormedRoot(roots'[r])
                 /\ \A r, s \in ActiveIn(roots') : r = s
<1> DEFINE Rows == /\ \A r \in Roots : roots[r] # NoRow => WellFormedRoot(roots[r])
                   /\ \A r, s \in ActiveIn(roots) : r = s
<1>1. FenceInv => Rows
  BY LaneRows
<1>2. FenceInv' => Rows'
  BY <1>1, PTL
<1> QED BY <1>2

\* A step that admits nobody and lets nobody into the slot only repairs the lane.
LEMMA LaneRepairs ==
    ASSUME FenceInv, FenceInv', RootsMove, RootsRight PROVE Lane!Next
<1> DEFINE gone == LineIn(roots) \ LineIn(roots')
           ended == ActiveIn(roots) \ ActiveIn(roots')
           how == IF \E r \in ended : OutcomeIn(roots'[r]) = "reported" THEN "reported" ELSE "recovered"
<1>1. /\ LaneIsRead /\ LaneIsRead' /\ NULL \notin Roots
  BY LaneRead, LaneReadAfter, NameAssumption DEF FenceInv, ArbiterInv
<1>2. ASSUME NEW r \in Roots
      PROVE  /\ roots'[r] # NoRow <=> roots[r] # NoRow
             /\ roots[r] # NoRow => WellFormedRoot(roots[r]) /\ WellFormedRoot(roots'[r])
             /\ \/ roots'[r] = roots[r]
                \/ /\ roots[r] # NoRow /\ ~roots[r].terminal /\ roots'[r].terminal
                   /\ InitialPhase(roots[r]) => roots'[r].generation = 0
                \/ roots[r] # NoRow /\ IsActive(roots[r]) /\ IsActive(roots'[r])
  <2>1. roots'[r] # NoRow <=> roots[r] # NoRow
    BY NoRowIsNoRecord DEF RootsMove, RootChange, IsEnded, IsActive
  <2>2. roots[r] # NoRow => WellFormedRoot(roots[r]) /\ WellFormedRoot(roots'[r])
    BY <2>1, LaneRows, LaneRowsAfter
  <2>3. roots[r] # NoRow => (roots[r].terminal => roots'[r] = roots[r])
    BY DEF RootsRight, RootRight, RootFollows, Admitted
  <2>4. CASE roots[r] \in RootRow /\ IsEnded(roots'[r]) /\ roots'[r] # roots[r]
                /\ (roots[r].state = RootInitial => roots'[r].generation = roots[r].generation)
    <3>1. roots[r] # NoRow /\ roots'[r].terminal
      BY <2>2, <2>4, NoRowIsNoRecord, PhaseOfRoot
    <3>2. InitialPhase(roots[r]) => roots'[r].generation = 0
      BY <2>2, <2>4, <3>1 DEF WellFormedRoot
    <3> QED BY <2>1, <2>2, <2>3, <2>4, <3>1, <3>2
  <2>5. CASE IsActive(roots[r]) /\ IsActive(roots'[r])
    BY <2>1, <2>2, <2>5, NoRowIsNoRecord DEF IsActive
  <2> QED BY <2>1, <2>2, <2>4, <2>5 DEF RootsMove, RootChange
<1>3. ASSUME NEW r \in Roots
      PROVE  /\ r \in LineIn(roots') => r \in LineIn(roots) /\ roots'[r] = roots[r]
             /\ r \in ActiveIn(roots') => r \in ActiveIn(roots)
             /\ r \in gone => OutcomeIn(roots'[r]) = "recovered"
             /\ r \in ended => OutcomeIn(roots'[r]) \in {"reported", "recovered"}
             /\ r \notin gone /\ r \notin ended => OutcomeIn(roots'[r]) = OutcomeIn(roots[r])
  <2>1. /\ r \in LineIn(roots) <=> roots[r] # NoRow /\ InitialPhase(roots[r])
        /\ r \in LineIn(roots') <=> roots'[r] # NoRow /\ InitialPhase(roots'[r])
        /\ r \in ActiveIn(roots) <=> roots[r] # NoRow /\ IsActive(roots[r])
        /\ r \in ActiveIn(roots') <=> roots'[r] # NoRow /\ IsActive(roots'[r])
    <3>1. roots'[r] # NoRow => WellFormedRoot(roots'[r])
      BY <1>2
    <3>2. r \in LineIn(roots') <=> roots'[r] # NoRow /\ InitialPhase(roots'[r])
      BY <3>1, PhaseOfRoot DEF LineIn
    <3>3. r \in ActiveIn(roots') <=> roots'[r] # NoRow /\ IsActive(roots'[r])
      BY <3>1 DEF ActiveIn, IsActive, WellFormedRoot
    <3> QED BY <3>2, <3>3, LaneRows
  <2>2. CASE roots'[r] = roots[r]
    BY <2>1, <2>2
  <2>3. CASE /\ roots[r] # NoRow /\ ~roots[r].terminal /\ roots'[r].terminal
             /\ InitialPhase(roots[r]) => roots'[r].generation = 0
    <3>1. ~InitialPhase(roots'[r]) /\ ~IsActive(roots'[r]) /\ RootStates[roots'[r].state].terminal
      <4>1. WellFormedRoot(roots'[r])
        BY <1>2, <2>3
      <4> QED BY <2>3, <4>1, PhaseOfRoot DEF InitialPhase
    <3>2. InitialPhase(roots[r]) \/ IsActive(roots[r])
      BY <1>2, <2>3, PhaseOfRoot
    <3>3. OutcomeIn(roots'[r]) \in {"reported", "recovered"}
      BY <1>2, <2>3, <3>1 DEF OutcomeIn
    <3>4. InitialPhase(roots[r]) => OutcomeIn(roots'[r]) = "recovered"
      BY <1>2, <2>3, <3>1 DEF OutcomeIn
    <3> QED BY <2>1, <2>3, <3>1, <3>2, <3>3, <3>4
  <2>4. CASE roots[r] # NoRow /\ IsActive(roots[r]) /\ IsActive(roots'[r])
    <3>1. ~InitialPhase(roots[r]) /\ ~InitialPhase(roots'[r])
      BY <1>2, <2>4, PhaseOfRoot
    <3>2. OutcomeIn(roots[r]) = "open" /\ OutcomeIn(roots'[r]) = "open"
      BY <2>4 DEF OutcomeIn, IsActive, RootFlags
    <3> QED BY <1>2, <2>1, <2>4, <3>1, <3>2
  <2> QED BY <1>2, <2>2, <2>3, <2>4
<1>4. gone \subseteq LineIn(roots) /\ LineIn(roots') = LineIn(roots) \ gone
  BY <1>3 DEF LineIn
<1>5. OrderIn(roots') = {p \in OrderIn(roots) : p[1] \notin gone /\ p[2] \notin gone}
  <2>1. \A r \in LineIn(roots') : r \in Roots /\ roots'[r].fifo = roots[r].fifo
    BY <1>3 DEF LineIn
  <2> QED BY <1>4, <2>1 DEF OrderIn
<1>6. /\ \A r, s \in ActiveIn(roots) : r = s
      /\ \A r, s \in ActiveIn(roots') : r = s
      /\ ActiveIn(roots') \subseteq ActiveIn(roots) /\ ActiveIn(roots) \subseteq Roots
  BY <1>3, LaneRows, LaneRowsAfter DEF ActiveIn
<1>7. /\ ended \subseteq {SlotIn(roots)}
      /\ SlotIn(roots') = IF ended = {} THEN SlotIn(roots) ELSE NULL
  <2>1. CASE ended = {}
    <3>1. ActiveIn(roots') = ActiveIn(roots)
      BY <1>6, <2>1
    <3> QED BY <2>1, <3>1 DEF SlotIn
  <2>2. CASE ended # {}
    <3>1. PICK r \in ActiveIn(roots) : r \notin ActiveIn(roots')
      BY <2>2
    <3>2. ActiveIn(roots') = {} /\ SlotIn(roots) = r /\ ended = {r}
      BY <1>6, <3>1, SlotHolds
    <3> QED BY <3>2 DEF SlotIn
  <2> QED BY <2>1, <2>2
<1>8. ASSUME NEW r \in Roots
      PROVE  OutcomeIn(roots'[r]) = IF r \in gone THEN "recovered"
                                    ELSE IF r \in ended THEN how ELSE OutcomeIn(roots[r])
  <2>1. r \in ended => OutcomeIn(roots'[r]) = how
    BY <1>3, <1>6
  <2>2. r \in gone => r \notin ended
    BY <1>4, LaneRows, PhaseOfRoot
  <2> QED BY <1>3, <2>1, <2>2
<1>9. how \in {"reported", "recovered"} /\ gone \in SUBSET Roots /\ ended \in SUBSET Roots
  BY <1>6 DEF LineIn
<1> HIDE DEF gone, ended, how
<1>10. gone \subseteq [n \in {Device} |-> QueuedRoots][Device]
       /\ ended \subseteq {[n \in {Device} |-> Holder][Device]}
  BY <1>1, <1>4, <1>7 DEF LaneIsRead
<1>11. [n \in {Device} |-> QueuedRoots]' = [[n \in {Device} |-> QueuedRoots] EXCEPT ![Device] = @ \ gone]
  BY <1>1, <1>4 DEF LaneIsRead
<1>12. [n \in {Device} |-> Before]' = [[n \in {Device} |-> Before] EXCEPT ![Device] =
          {p \in @ : p[1] \notin gone /\ p[2] \notin gone}]
  BY <1>1, <1>5 DEF LaneIsRead
<1>13. [n \in {Device} |-> Holder]' = [[n \in {Device} |-> Holder] EXCEPT ![Device] =
          IF ended = {} THEN @ ELSE NULL]
  BY <1>1, <1>7 DEF LaneIsRead
<1>14. [n \in {Device} |-> [r \in Roots |-> OutcomeOf(r)]]' =
          [[n \in {Device} |-> [r \in Roots |-> OutcomeOf(r)]] EXCEPT ![Device] = [k \in Roots |->
             IF k \in gone THEN "recovered" ELSE IF k \in ended THEN how ELSE @[k]]]
  <2>1. \A r \in Roots : OutcomeOf(r)' = IF r \in gone THEN "recovered"
                                        ELSE IF r \in ended THEN how ELSE OutcomeOf(r)
    <3> TAKE r \in Roots
    <3> QED BY <1>1, <1>8 DEF LaneIsRead
  <2> QED BY <2>1
<1>15. Lane!Repair(Device, gone, ended, how)
  BY <1>10, <1>11, <1>12, <1>13, <1>14 DEF Lane!Repair, Lane!Leave
<1> QED BY <1>9, <1>15 DEF Lane!Next

\* The steps, by what they do to the line: a root joins it, a root goes from its front,
\* or past an empty one, to the free slot, or nobody joins and nobody enters.
Submitted(r) == ~Admitted(r) /\ roots' = [roots EXCEPT ![r] = NewRoot]
Entered(r, row) ==
    /\ roots' = [roots EXCEPT ![r] = row]
    /\ WellFormedRoot(row) /\ ~InitialPhase(row) /\ ~row.terminal
    /\ ActiveRoots \subseteq {r}
    /\ \A q \in QueuedRoots : row.fifo <= roots[q].fifo
    /\ IF Admitted(r) THEN InitialPhase(roots[r]) /\ row.fifo = roots[r].fifo
       ELSE row.fifo = NewRoot.fifo

LEMMA AdmissionIsASubmission ==
    ASSUME FenceInv, NEW r \in Roots,
           roots' = [roots EXCEPT ![r] = IF Admitted(r) THEN roots[r] ELSE NewRoot]
    PROVE  roots' = roots \/ Submitted(r)
<1>1. CASE Admitted(r)
  BY <1>1 DEF FenceInv, ArbiterInv, TypeOK
<1>2. CASE ~Admitted(r)
  BY <1>2 DEF Submitted
<1> QED BY <1>1, <1>2

LEMMA PreparationEnters ==
    ASSUME FenceInv, NEW o \in JobOps, PrepareEgress(o)
    PROVE  \/ roots' = roots
           \/ RootsMove /\ RootsRight
           \/ Submitted(RootOf(o)) \/ \E row : Entered(RootOf(o), row)
<1> DEFINE r == RootOf(o)
           row == IF Admitted(r) THEN roots[r] ELSE NewRoot
           owner == OwningRoot(row)
<1>1. r \in Roots /\ TypeOK
  BY RootOfIsRoot DEF JobOps, Ops, Roots, FenceInv, ArbiterInv
<1>2. \/ roots' = [roots EXCEPT ![r] = row]
      \/ MaySend(o, r, row) /\ roots' = [roots EXCEPT ![r] = owner]
  BY DEF PrepareEgress
<1>3. CASE roots' = [roots EXCEPT ![r] = row]
  BY <1>1, <1>3, AdmissionIsASubmission
<1>4. CASE MaySend(o, r, row) /\ roots' = [roots EXCEPT ![r] = owner]
  <2>1. WellFormedRoot(row)
    BY <1>1, AdmittedRowRight
  <2>2. /\ ActiveRoots \subseteq {r} /\ ~row.terminal /\ ~row.ambiguous
        /\ InitialPhase(row) => /\ \A q \in QueuedRoots : row.fifo <= roots[q].fifo
                                /\ R!TransitionTarget(row.state, ToDispatching, Unmarked) # NULL
    BY <1>4 DEF MaySend
  <2>3. RootFollows(row, owner) /\ ~InitialPhase(owner) /\ ~owner.terminal
    BY <2>1, <2>2, OwningRootFollows
  <2>4. /\ WellFormedRoot(owner) /\ owner.fifo = row.fifo
        /\ RootRight(r, owner) /\ AmbiguousRight(r, owner)
    BY <1>4, <2>3, OwnerRight DEF RootFollows
  <2>5. CASE InitialPhase(row)
    <3>1. /\ \A q \in QueuedRoots : owner.fifo <= roots[q].fifo
          /\ IF Admitted(r) THEN InitialPhase(roots[r]) /\ owner.fifo = roots[r].fifo
             ELSE owner.fifo = NewRoot.fifo
      BY <2>2, <2>4, <2>5
    <3> HIDE DEF owner
    <3>2. Entered(r, owner)
      BY <1>4, <2>2, <2>3, <2>4, <3>1 DEF Entered
    <3> QED BY <3>2
  <2>6. CASE ~InitialPhase(row)
    <3>1. Admitted(r) /\ row = roots[r]
      BY <2>6, NewRootIsWellFormed
    <3>2. IsActive(row) /\ IsActive(owner)
      BY <2>1, <2>2, <2>3, <2>4, <2>6, PhaseOfRoot
    <3>3. owner \in RootRow /\ RootChange(roots[r], owner)
      BY <3>1, <3>2 DEF RootChange, IsActive
    <3> HIDE DEF owner, row
    <3>4. RootsMove /\ RootsRight
      BY <1>1, <1>4, <2>4, <3>3, RootWritten, RootRightlyWritten
    <3> QED BY <3>4
  <2> QED BY <2>5, <2>6
<1> QED BY <1>2, <1>3, <1>4

LEMMA StepsOfTheLine ==
    ASSUME FenceInv, [Next]_vars
    PROVE  \/ roots' = roots
           \/ RootsMove /\ RootsRight
           \/ \E r \in Roots : Submitted(r) \/ \E row : Entered(r, row)
<1>1. CASE UNCHANGED vars
  BY <1>1 DEF vars
<1>2. CASE MovingStep
  BY <1>2, MovingStepsMove, MovingStepsAreQuiet DEF Moved, Quiet, FenceInv
<1>3. ASSUME NEW r \in Roots, ObserveAdmission(r) PROVE roots' = roots \/ Submitted(r)
  BY <1>3, AdmissionIsASubmission DEF ObserveAdmission
<1>4. CASE \/ \E j \in Jobs : AdmitJob(j)
           \/ \E w \in Workflows : AdmitWorkflow(w)
  BY <1>3, <1>4 DEF AdmitJob, AdmitWorkflow, Roots
<1>5. CASE \E o \in JobOps : PrepareEgress(o)
  <2>1. \A o \in JobOps : RootOf(o) \in Roots
    BY RootOfIsRoot DEF JobOps, Ops, Roots
  <2> QED BY <1>5, <2>1, PreparationEnters
<1>6. CASE \/ \E w \in Workflows : \/ RunWorkflow(w) \/ MarkRunning(w) \/ MarkCompleted(w)
                                   \/ CloseWorkflowRow(w) \/ \E last \in BOOLEAN : AttemptFails(w, last)
           \/ \E j \in Jobs, how \in {"cancelling", "expiring"} : EndJobRow(j, how)
           \/ \E call \in egress, sent \in BOOLEAN : WireDispatch(call, sent)
           \/ \E frame \in phone, status \in {"succeeded", "failed"} : PhoneFinishes(frame, status)
  BY <1>6 DEF RunWorkflow, MarkRunning, MarkCompleted, CloseWorkflowRow, AttemptFails, EndJobRow,
              WireDispatch, PhoneFinishes, ledgers
<1> QED BY <1>1, <1>2, <1>4, <1>5, <1>6 DEF Next, MovingStep

-----------------------------------------------------------------------------
(* The numbers of the line. *)

AdmittedIn(T) == {r \in Roots : T[r] # NoRow}
NumbersIn(T) ==
    /\ \A r \in AdmittedIn(T) : T[r].fifo \in Nat /\ T[r].fifo <= Cardinality(AdmittedIn(T))
    /\ \A r, s \in AdmittedIn(T) : T[r].fifo = T[s].fifo => r = s

\* fifo_seq numbers the roots in the order of their admission.
Numbered == NumbersIn(roots)

LEMMA NumbersKept ==
    ASSUME NEW T, NEW U, NumbersIn(T), AdmittedIn(U) = AdmittedIn(T),
           \A r \in AdmittedIn(T) : U[r].fifo = T[r].fifo
    PROVE  NumbersIn(U)
  BY DEF NumbersIn

LEMMA NumbersGrow ==
    ASSUME NEW T, NEW U, NumbersIn(T), NEW r \in Roots, r \notin AdmittedIn(T),
           AdmittedIn(U) = AdmittedIn(T) \cup {r},
           U[r].fifo = 1 + Cardinality(AdmittedIn(T)),
           \A q \in AdmittedIn(T) : U[q].fifo = T[q].fifo
    PROVE  NumbersIn(U) /\ \A q \in AdmittedIn(T) : T[q].fifo < U[r].fifo
<1> DEFINE count == Cardinality(AdmittedIn(T))
<1>1. IsFiniteSet(AdmittedIn(T))
  BY NameAssumption, FS_Subset DEF Ops, AdmittedIn
<1>2. count \in Nat /\ Cardinality(AdmittedIn(U)) = count + 1
  BY <1>1, FS_CardinalityType, FS_AddElement
<1> HIDE DEF count
<1>3. U[r].fifo = 1 + count
  BY DEF count
<1>4. \A q \in AdmittedIn(T) : T[q].fifo \in Nat /\ T[q].fifo <= count
  BY DEF NumbersIn, count
<1>5. \A q \in AdmittedIn(U) : U[q].fifo \in Nat /\ U[q].fifo <= count + 1
  BY <1>2, <1>3, <1>4
<1>6. \A q, s \in AdmittedIn(U) : U[q].fifo = U[s].fifo => q = s
  BY <1>2, <1>3, <1>4 DEF NumbersIn
<1> QED BY <1>2, <1>3, <1>4, <1>5, <1>6 DEF NumbersIn

\* What a root placed in the ledger does to its numbers.
LEMMA PlacedNumber ==
    ASSUME FenceInv, Numbered, NEW r \in Roots, NEW row \in RootRow,
           roots' = [roots EXCEPT ![r] = row],
           row.fifo = IF Admitted(r) THEN roots[r].fifo ELSE NewRoot.fifo
    PROVE  /\ Numbered'
           /\ ~Admitted(r) => \A q \in AdmittedIn(roots) : roots[q].fifo < row.fifo
<1>1. \A q \in Roots : roots'[q] = IF q = r THEN row ELSE roots[q]
  BY DEF FenceInv, ArbiterInv, TypeOK
<1>2. row # NoRow
  BY NoRowIsNoRecord
<1>3. CASE Admitted(r)
  <2>1. AdmittedIn(roots') = AdmittedIn(roots) /\ \A q \in AdmittedIn(roots) : roots'[q].fifo = roots[q].fifo
    BY <1>1, <1>2, <1>3 DEF AdmittedIn, Admitted
  <2> QED BY <1>3, <2>1, NumbersKept DEF Numbered
<1>4. CASE ~Admitted(r)
  <2>1. /\ AdmittedIn(roots') = AdmittedIn(roots) \cup {r} /\ r \notin AdmittedIn(roots)
        /\ \A q \in AdmittedIn(roots) : roots'[q].fifo = roots[q].fifo
    BY <1>1, <1>2, <1>4 DEF AdmittedIn, Admitted
  <2>2. roots'[r].fifo = 1 + Cardinality(AdmittedIn(roots))
    BY <1>1, <1>4 DEF NewRoot, AdmittedIn, Admitted
  <2>3. NumbersIn(roots') /\ \A q \in AdmittedIn(roots) : roots[q].fifo < roots'[r].fifo
    BY <2>1, <2>2, NumbersGrow DEF Numbered
  <2> QED BY <1>1, <2>3 DEF Numbered
<1> QED BY <1>3, <1>4

LEMMA NumbersStep == ASSUME FenceInv, Numbered, [Next]_vars PROVE Numbered'
<1>1. CASE roots' = roots
  BY <1>1 DEF Numbered
<1>2. CASE RootsMove /\ RootsRight
  <2>1. \A r \in Roots : /\ roots'[r] # NoRow <=> roots[r] # NoRow
                         /\ roots[r] # NoRow => roots'[r].fifo = roots[r].fifo
    BY <1>2, NoRowIsNoRecord
       DEF RootsMove, RootChange, IsEnded, IsActive, RootsRight, RootRight, RootFollows, Admitted
  <2> QED BY <2>1, NumbersKept DEF Numbered, AdmittedIn
<1>3. ASSUME NEW r \in Roots, Submitted(r) PROVE Numbered'
  BY <1>3, NewRootIsTyped, PlacedNumber DEF Submitted
<1>4. ASSUME NEW r \in Roots, NEW row, Entered(r, row) PROVE Numbered'
  BY <1>4, PlacedNumber DEF Entered, WellFormedRoot
<1> QED BY <1>1, <1>2, <1>3, <1>4, StepsOfTheLine

-----------------------------------------------------------------------------
(* Every step is one of the lane's. *)

\* A table with one row written, as the lane reads it.
LEMMA OneRowRead ==
    ASSUME FenceInv, NEW r \in Roots, NEW row, WellFormedRoot(row), roots' = [roots EXCEPT ![r] = row]
    PROVE  /\ LineIn(roots') \ {r} = LineIn(roots) \ {r}
           /\ ActiveIn(roots') \ {r} = ActiveIn(roots) \ {r}
           /\ r \in LineIn(roots') <=> InitialPhase(row)
           /\ r \in ActiveIn(roots') <=> IsActive(row)
           /\ \A q \in Roots \ {r} : roots'[q] = roots[q]
           /\ roots'[r] = row /\ row # NoRow
<1>1. \A q \in Roots : roots'[q] = IF q = r THEN row ELSE roots[q]
  BY DEF FenceInv, ArbiterInv, TypeOK
<1>2. row # NoRow /\ row \in RootRow
  BY NoRowIsNoRecord DEF WellFormedRoot
<1>3. LineIn(roots') \ {r} = LineIn(roots) \ {r} /\ ActiveIn(roots') \ {r} = ActiveIn(roots) \ {r}
  BY <1>1 DEF LineIn, ActiveIn
<1>4. r \in LineIn(roots') <=> InitialPhase(row)
  BY <1>1, <1>2, PhaseOfRoot DEF LineIn
<1>5. r \in ActiveIn(roots') <=> IsActive(row)
  BY <1>1, <1>2 DEF ActiveIn, IsActive
<1> QED BY <1>1, <1>2, <1>3, <1>4, <1>5

\* A live root has no outcome, and neither has one that is not there.
LEMMA LiveIsOpen ==
    ASSUME NEW row, row = NoRow \/ (WellFormedRoot(row) /\ ~row.terminal)
    PROVE  OutcomeIn(row) = "open"
  BY PhaseOfRoot DEF OutcomeIn

LEMMA OutcomesStay ==
    ASSUME LaneIsRead, LaneIsRead', \A r \in Roots : OutcomeIn(roots'[r]) = OutcomeIn(roots[r])
    PROVE  [n \in {Device} |-> [r \in Roots |-> OutcomeOf(r)]]'
              = [n \in {Device} |-> [r \in Roots |-> OutcomeOf(r)]]
<1>1. \A r \in Roots : OutcomeOf(r)' = OutcomeOf(r)
  <2> TAKE r \in Roots
  <2> QED BY DEF LaneIsRead
<1> QED BY <1>1

LEMMA LaneSubmits ==
    ASSUME FenceInv, FenceInv', Numbered, NEW r \in Roots, Submitted(r) PROVE Lane!Submit(Device, r)
<1>1. LaneIsRead /\ LaneIsRead'
  BY LaneRead, LaneReadAfter DEF FenceInv, ArbiterInv
<1>2. roots[r] = NoRow /\ roots' = [roots EXCEPT ![r] = NewRoot]
  BY DEF Submitted, Admitted
<1>3. WellFormedRoot(NewRoot) /\ InitialPhase(NewRoot) /\ ~NewRoot.terminal /\ ~IsActive(NewRoot)
      /\ NewRoot \in RootRow
  BY NewRootIsWellFormed, PhaseOfRoot DEF WellFormedRoot
<1>4. /\ LineIn(roots') \ {r} = LineIn(roots) \ {r} /\ ActiveIn(roots') \ {r} = ActiveIn(roots) \ {r}
      /\ r \in LineIn(roots') /\ r \notin ActiveIn(roots')
      /\ \A q \in Roots \ {r} : roots'[q] = roots[q]
      /\ roots'[r] = NewRoot
  BY <1>2, <1>3, OneRowRead
<1>5. r \notin LineIn(roots) /\ r \notin ActiveIn(roots)
  BY <1>2 DEF LineIn, ActiveIn
<1>6. LineIn(roots') = LineIn(roots) \cup {r} /\ ActiveIn(roots') = ActiveIn(roots)
  BY <1>4, <1>5
<1>7. \A q \in LineIn(roots) : /\ q \in Roots \ {r} /\ roots[q].fifo \in Nat
                               /\ roots[q].fifo < NewRoot.fifo
  <2>1. \A q \in AdmittedIn(roots) : roots[q].fifo < NewRoot.fifo
    BY <1>2, <1>3, PlacedNumber DEF Admitted
  <2> QED BY <1>5, <2>1 DEF LineIn, AdmittedIn, Numbered, NumbersIn
<1>8. OrderIn(roots') = OrderIn(roots) \cup (LineIn(roots) \X {r})
  <2>0. NewRoot.fifo \in Nat
    BY <1>3 DEF RootRow
  <2> HIDE DEF NewRoot
  <2>1. \A q \in LineIn(roots) : roots'[q].fifo = roots[q].fifo
    BY <1>4, <1>7
  <2>2. \A q \in LineIn(roots) : ~(roots'[r].fifo < roots'[q].fifo) /\ roots'[q].fifo < roots'[r].fifo
    BY <1>4, <1>7, <2>0, <2>1
  <2>3. ~(roots'[r].fifo < roots'[r].fifo)
    BY <1>4, <2>0
  <2> QED BY <1>6, <2>1, <2>2, <2>3 DEF OrderIn
<1>9. SlotIn(roots') = SlotIn(roots) /\ SlotIn(roots) # r
  <2>1. SlotIn(roots) \in Roots => SlotIn(roots) \in ActiveIn(roots)
    BY LaneRows, SlotHolds
  <2> QED BY <1>5, <1>6, <2>1 DEF SlotIn
<1>10. \A q \in Roots : OutcomeIn(roots'[q]) = OutcomeIn(roots[q])
  <2>1. OutcomeIn(NewRoot) = "open" /\ OutcomeIn(NoRow) = "open"
    BY <1>3, LiveIsOpen
  <2> QED BY <1>2, <1>4, <2>1
<1>11. OutcomeOf(r) = "open"
  BY <1>1, <1>2, LiveIsOpen DEF LaneIsRead
<1>12. [n \in {Device} |-> QueuedRoots]' = [[n \in {Device} |-> QueuedRoots] EXCEPT ![Device] = @ \cup {r}]
  BY <1>1, <1>6 DEF LaneIsRead
<1>13. [n \in {Device} |-> Before]' = [[n \in {Device} |-> Before] EXCEPT ![Device] =
          @ \cup ([n \in {Device} |-> QueuedRoots][Device] \X {r})]
  BY <1>1, <1>8 DEF LaneIsRead
<1>14. [n \in {Device} |-> Holder]' = [n \in {Device} |-> Holder]
  BY <1>1, <1>9 DEF LaneIsRead
<1>15. [n \in {Device} |-> [q \in Roots |-> OutcomeOf(q)]]' = [n \in {Device} |-> [q \in Roots |-> OutcomeOf(q)]]
  BY <1>1, <1>10, OutcomesStay
<1>16. /\ r \notin [n \in {Device} |-> QueuedRoots][Device]
       /\ [n \in {Device} |-> Holder][Device] # r
       /\ [n \in {Device} |-> [q \in Roots |-> OutcomeOf(q)]][Device][r] = "open"
  BY <1>1, <1>5, <1>9, <1>11 DEF LaneIsRead
<1> QED BY <1>12, <1>13, <1>14, <1>15, <1>16 DEF Lane!Submit, Lane!Join, Lane!Open

\* The root that enters: the front of the line, or past an empty line.
LEMMA LaneDispatches ==
    ASSUME FenceInv, FenceInv', Numbered, NEW r \in Roots, NEW row, Entered(r, row) PROVE Lane!Next
<1>1. LaneIsRead /\ LaneIsRead'
  BY LaneRead, LaneReadAfter DEF FenceInv, ArbiterInv
<1>2. /\ roots' = [roots EXCEPT ![r] = row]
      /\ WellFormedRoot(row) /\ ~InitialPhase(row) /\ ~row.terminal /\ IsActive(row)
      /\ ActiveIn(roots) \subseteq {r}
      /\ \A q \in LineIn(roots) : row.fifo <= roots[q].fifo
      /\ row \in RootRow /\ row.fifo \in Nat
  BY <1>1, PhaseOfRoot, RootColumns DEF Entered, LaneIsRead, WellFormedRoot
<1>3. /\ LineIn(roots') \ {r} = LineIn(roots) \ {r} /\ ActiveIn(roots') \ {r} = ActiveIn(roots) \ {r}
      /\ r \notin LineIn(roots') /\ r \in ActiveIn(roots')
      /\ \A q \in Roots \ {r} : roots'[q] = roots[q]
      /\ roots'[r] = row
  BY <1>2, OneRowRead
<1>4. roots[r] = NoRow \/ (WellFormedRoot(roots[r]) /\ InitialPhase(roots[r]) /\ ~roots[r].terminal)
  <2>1. CASE Admitted(r)
    BY <2>1, LaneRows DEF Entered, Admitted, InitialPhase
  <2>2. CASE ~Admitted(r)
    BY <2>2 DEF Admitted
  <2> QED BY <2>1, <2>2
<1>5. r \notin ActiveIn(roots) /\ ActiveIn(roots) = {}
  BY <1>2, <1>4, LaneRows, PhaseOfRoot
<1>6. SlotIn(roots) = NULL
  BY <1>5 DEF SlotIn
<1>7. SlotIn(roots') = r
  BY <1>3, LaneRowsAfter, SlotHolds
<1>8. \A q \in Roots : OutcomeIn(roots'[q]) = OutcomeIn(roots[q])
  <2>1. OutcomeIn(row) = "open" /\ OutcomeIn(roots[r]) = "open"
    BY <1>2, <1>4, LiveIsOpen
  <2> QED BY <1>3, <2>1
<1>9. [n \in {Device} |-> [q \in Roots |-> OutcomeOf(q)]]' = [n \in {Device} |-> [q \in Roots |-> OutcomeOf(q)]]
  BY <1>1, <1>8, OutcomesStay
<1>10. [n \in {Device} |-> Holder]' = [[n \in {Device} |-> Holder] EXCEPT ![Device] = r]
  BY <1>1, <1>7 DEF LaneIsRead
<1>11. [n \in {Device} |-> Holder][Device] = NULL
  BY <1>1, <1>6 DEF LaneIsRead
<1>12. CASE Admitted(r)
  <2>1. r \in LineIn(roots) /\ row.fifo = roots[r].fifo
    BY <1>12, LaneRows DEF Entered, Admitted
  <2>2. LineIn(roots') = LineIn(roots) \ {r}
    BY <1>3
  <2>3. OrderIn(roots') = {p \in OrderIn(roots) : p[1] \notin {r} /\ p[2] \notin {r}}
    <3>1. \A q \in LineIn(roots') : roots'[q].fifo = roots[q].fifo
      BY <1>3, <2>2 DEF LineIn
    <3> QED BY <2>2, <3>1 DEF OrderIn
  <2>4. \A q \in LineIn(roots) \ {r} : <<r, q>> \in OrderIn(roots)
    <3> SUFFICES ASSUME NEW q \in LineIn(roots), q # r PROVE roots[r].fifo < roots[q].fifo
      BY <2>1 DEF OrderIn
    <3>1. q \in AdmittedIn(roots) /\ r \in AdmittedIn(roots)
      BY <2>1 DEF LineIn, AdmittedIn
    <3>2. roots[q].fifo \in Nat /\ roots[r].fifo \in Nat /\ roots[q].fifo # roots[r].fifo
      BY <3>1 DEF Numbered, NumbersIn
    <3> QED BY <1>2, <2>1, <3>2
  <2>5. [n \in {Device} |-> QueuedRoots]' = [[n \in {Device} |-> QueuedRoots] EXCEPT ![Device] = @ \ {r}]
    BY <1>1, <2>2 DEF LaneIsRead
  <2>6. [n \in {Device} |-> Before]' = [[n \in {Device} |-> Before] EXCEPT ![Device] =
           {p \in @ : p[1] \notin {r} /\ p[2] \notin {r}}]
    BY <1>1, <2>3 DEF LaneIsRead
  <2>7. /\ r \in [n \in {Device} |-> QueuedRoots][Device]
        /\ \A l \in [n \in {Device} |-> QueuedRoots][Device] \ {r} :
              <<r, l>> \in [n \in {Device} |-> Before][Device]
    BY <1>1, <2>1, <2>4 DEF LaneIsRead
  <2>8. Lane!Dispatch(Device, r)
    BY <1>9, <1>10, <1>11, <2>5, <2>6, <2>7 DEF Lane!Dispatch, Lane!Front, Lane!Leave
  <2> QED BY <2>8 DEF Lane!Next
<1>13. CASE ~Admitted(r)
  <2>1. \A q \in AdmittedIn(roots) : roots[q].fifo \in Nat /\ roots[q].fifo < row.fifo
    BY <1>2, <1>13, PlacedNumber DEF Entered, Numbered, NumbersIn
  <2>2. LineIn(roots) = {}
    BY <1>2, <2>1 DEF LineIn, AdmittedIn
  <2>3. LineIn(roots') = {}
    BY <1>3, <2>2
  <2>4. OrderIn(roots) = {} /\ OrderIn(roots') = {}
    BY <2>2, <2>3 DEF OrderIn
  <2>5. [n \in {Device} |-> QueuedRoots]' = [n \in {Device} |-> QueuedRoots]
    BY <1>1, <2>2, <2>3 DEF LaneIsRead
  <2>6. [n \in {Device} |-> Before]' = [n \in {Device} |-> Before]
    BY <1>1, <2>4 DEF LaneIsRead
  <2>7. /\ [n \in {Device} |-> QueuedRoots][Device] = {}
        /\ [n \in {Device} |-> [q \in Roots |-> OutcomeOf(q)]][Device][r] = "open"
    BY <1>1, <1>4, <2>2, LiveIsOpen DEF LaneIsRead
  <2>8. Lane!SubmitToFreeSlot(Device, r)
    BY <1>9, <1>10, <1>11, <2>5, <2>6, <2>7 DEF Lane!SubmitToFreeSlot, Lane!Open
  <2> QED BY <2>8 DEF Lane!Next
<1> QED BY <1>12, <1>13

LEMMA LaneStep ==
    ASSUME FenceInv, FenceInv', Numbered, [Next]_vars
    PROVE  UNCHANGED roots \/ Lane!Next
<1>1. ASSUME NEW r \in Roots, Submitted(r) PROVE Lane!Next
  BY <1>1, LaneSubmits DEF Lane!Next
<1> QED BY <1>1, StepsOfTheLine, LaneRepairs, LaneDispatches

LEMMA LaneInit == ASSUME Init PROVE Lane!Init /\ Numbered
<1>1. \A r \in Roots : roots[r] = NoRow
  BY DEF Init
<1>2. LaneIsRead
  BY FenceInitially, LaneRead DEF FenceInv, ArbiterInv
<1>3. LineIn(roots) = {} /\ ActiveIn(roots) = {} /\ AdmittedIn(roots) = {}
  BY <1>1 DEF LineIn, ActiveIn, AdmittedIn
<1>4. OrderIn(roots) = {} /\ SlotIn(roots) = NULL
  BY <1>3 DEF OrderIn, SlotIn
<1>5. \A r \in Roots : OutcomeOf(r) = "open"
  BY <1>1, <1>2, LiveIsOpen DEF LaneIsRead
<1>6. QueuedRoots = {} /\ Before = {} /\ Holder = NULL
  BY <1>2, <1>3, <1>4 DEF LaneIsRead
<1>7. Numbered
  BY <1>3 DEF Numbered, NumbersIn
<1> QED BY <1>5, <1>6, <1>7 DEF Lane!Init

\* The arbiter keeps the promises of the lane: a root joins the line once and behind
\* all others, enters the free slot from the front of it, and ends once.  Timers,
\* cancellations and the operator's and the restart's repairs only end and give up.
THEOREM ArbiterImplementsLane == Spec => LaneSpec
<1>1. Init => Lane!Init /\ Numbered
  BY LaneInit
<1>2. FenceInv /\ Numbered /\ [Next]_vars => Numbered'
  BY NumbersStep
<1>3. FenceInv /\ FenceInv' /\ Numbered /\ [Next]_vars => [UNCHANGED roots \/ Lane!Next]_(Lane!laneVars)
  BY LaneStep
<1> QED BY <1>1, <1>2, <1>3, FenceInvariant, PTL DEF Spec, LaneSpec

\* An operation of the lane gives an outcome only to who waits or is in the slot.
LEMMA LaneKeepsOutcome ==
    ASSUME Lane!Next, NEW r \in Roots, r \notin QueuedRoots, r # Holder
    PROVE  OutcomeOf(r)' = OutcomeOf(r)
<1> DEFINE D == {Device}
<1>1. SUFFICES [n \in D |-> [q \in Roots |-> OutcomeOf(q)]]'[Device][r]
               = [n \in D |-> [q \in Roots |-> OutcomeOf(q)]][Device][r]
  OBVIOUS
<1>2. /\ [n \in D |-> QueuedRoots][Device] = QueuedRoots
      /\ [n \in D |-> Holder][Device] = Holder
  OBVIOUS
<1>3. ASSUME NEW n \in D, NEW how, Lane!Finish(n, how)
      PROVE [m \in D |-> [q \in Roots |-> OutcomeOf(q)]]'[Device][r]
               = [m \in D |-> [q \in Roots |-> OutcomeOf(q)]][Device][r]
  BY <1>2, <1>3 DEF Lane!Finish
<1>4. ASSUME NEW n \in D, NEW how, NEW gone, NEW ended, Lane!Repair(n, gone, ended, how)
      PROVE [m \in D |-> [q \in Roots |-> OutcomeOf(q)]]'[Device][r]
               = [m \in D |-> [q \in Roots |-> OutcomeOf(q)]][Device][r]
  BY <1>2, <1>4 DEF Lane!Repair
<1>5. ASSUME NEW n \in D, NEW k \in Roots, Lane!GiveUp(n, k)
      PROVE [m \in D |-> [q \in Roots |-> OutcomeOf(q)]]'[Device][r]
               = [m \in D |-> [q \in Roots |-> OutcomeOf(q)]][Device][r]
  BY <1>2, <1>5 DEF Lane!GiveUp
<1>6. ASSUME NEW n \in D, NEW k \in Roots,
             Lane!Submit(n, k) \/ Lane!SubmitToFreeSlot(n, k) \/ Lane!Dispatch(n, k)
      PROVE [m \in D |-> [q \in Roots |-> OutcomeOf(q)]]'[Device][r]
               = [m \in D |-> [q \in Roots |-> OutcomeOf(q)]][Device][r]
  BY <1>6 DEF Lane!Submit, Lane!SubmitToFreeSlot, Lane!Dispatch
<1> QED BY <1>3, <1>4, <1>5, <1>6 DEF Lane!Next

\* The answer a root ended with stands: once its row is terminal, whatever answers,
\* timers, cancellations and repairs come late leave its outcome alone.
THEOREM RootEndsOnce == Spec => OutcomeIsFinal
<1>1. ASSUME FenceInv, FenceInv', Numbered, [Next]_vars,
             NEW r \in Roots, OutcomeOf(r) # "open"
      PROVE  OutcomeOf(r)' = OutcomeOf(r)
  <2>1. LaneIsRead /\ LaneIsRead'
    BY <1>1, LaneRead, LaneReadAfter DEF FenceInv, ArbiterInv
  <2>2. CASE UNCHANGED roots
    BY <2>1, <2>2 DEF LaneIsRead
  <2>3. CASE Lane!Next
    <3>1. OutcomeIn(roots[r]) # "open"
      BY <1>1, <2>1 DEF LaneIsRead
    <3>2. r \notin LineIn(roots) /\ r \notin ActiveIn(roots)
      BY <1>1, <3>1, LaneRows, PhaseOfRoot, LiveIsOpen DEF InitialPhase
    <3>3. SlotIn(roots) # r
      BY <1>1, <3>2, LaneRows, SlotHolds
    <3> QED BY <2>1, <2>3, <3>2, <3>3, LaneKeepsOutcome DEF LaneIsRead
  <2> QED BY <1>1, <2>2, <2>3, LaneStep
<1>2. FenceInv /\ FenceInv' /\ Numbered /\ [Next]_vars
        => [\A r \in Roots : OutcomeOf(r) # "open" => OutcomeOf(r)' = OutcomeOf(r)]_roots
  BY <1>1
<1>3. Init => Numbered
  BY LaneInit
<1>4. FenceInv /\ Numbered /\ [Next]_vars => Numbered'
  BY NumbersStep
<1> QED BY <1>2, <1>3, <1>4, FenceInvariant, PTL DEF Spec, OutcomeIsFinal
=============================================================================
