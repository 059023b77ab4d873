------------------------- MODULE DeviceArbiterProofs -------------------------
(***************************************************************************)
(* Proofs about DeviceArbiter, for every set of jobs, workflows and         *)
(* children, and every pair of lifecycles that meets                        *)
(* DeviceLifecycleAssumption.                                               *)
(*                                                                         *)
(* Every step is reduced to what it does to a row of either ledger          *)
(* (RootChange, OpChange); only the prepare transaction makes a root active, *)
(* and it has looked at all the others.                                     *)
(***************************************************************************)
EXTENDS DeviceArbiter, FiniteSetTheorems, TLAPS

-----------------------------------------------------------------------------
(* What the lifecycles offer. *)

\* A row that exists is never the absent row.
LEMMA NoRowIsNoRecord == NoRow \notin RootRow /\ NoRow \notin OpRow
  BY DEF NoRow, RootRow, OpRow

RootFlags(s, initial, terminal) ==
    /\ s \in RootStatuses
    /\ RootStates[s].initial = initial
    /\ RootStates[s].terminal = terminal
OpFlags(s, initial, terminal) ==
    /\ s \in OpStatuses
    /\ OpStates[s].initial = initial
    /\ OpStates[s].terminal = terminal

LEMMA LifecycleTypes ==
    /\ RootStates \in [RootStatuses -> R!StateFlags] /\ RootTransitions \subseteq R!TransitionRow
    /\ OpStates \in [OpStatuses -> O!StateFlags] /\ OpTransitions \subseteq O!TransitionRow
    /\ NULL \notin RootStatuses /\ NULL \notin OpStatuses
  BY DeviceLifecycleAssumption DEF R!LifecycleAssumption, O!LifecycleAssumption

\* What a selector of one flag says.
LEMMA RootSelects ==
    ASSUME NEW s, NEW b \in BOOLEAN
    PROVE  /\ R!StateMatches(s, [initial |-> b]) <=> s \in RootStatuses /\ RootStates[s].initial = b
           /\ R!StateMatches(s, [terminal |-> b]) <=> s \in RootStatuses /\ RootStates[s].terminal = b
  BY DEF R!StateMatches, R!Satisfies

LEMMA OpSelects ==
    ASSUME NEW s, NEW b \in BOOLEAN
    PROVE  /\ O!StateMatches(s, [initial |-> b]) <=> s \in OpStatuses /\ OpStates[s].initial = b
           /\ O!StateMatches(s, [terminal |-> b]) <=> s \in OpStatuses /\ OpStates[s].terminal = b
  BY DEF O!StateMatches, O!Satisfies

\* The selector of the active roots.
LEMMA ActiveSelects ==
    ASSUME NEW s
    PROVE  R!StateMatches(s, [initial |-> FALSE, terminal |-> FALSE]) <=> RootFlags(s, FALSE, FALSE)
<1> DEFINE selector == [initial |-> FALSE, terminal |-> FALSE]
<1>1. /\ DOMAIN selector = {"initial", "terminal"}
      /\ selector["initial"] = FALSE /\ selector["terminal"] = FALSE
  OBVIOUS
<1> HIDE DEF selector
<1>2. R!Satisfies(RootStates[s], selector)
        <=> RootStates[s].initial = FALSE /\ RootStates[s].terminal = FALSE
  BY <1>1 DEF R!Satisfies
<1>3. R!StateMatches(s, selector) <=> RootFlags(s, FALSE, FALSE)
  BY <1>2 DEF R!StateMatches, RootFlags
<1> QED BY <1>3 DEF selector

\* A selected target: reached from a live status, never the initial one.
LEMMA RootTarget ==
    ASSUME NEW from, NEW target, NEW edge, R!TransitionTarget(from, target, edge) # NULL
    PROVE  LET to == R!TransitionTarget(from, target, edge) IN
           /\ from \in RootStatuses /\ RootStates[from].terminal = FALSE
           /\ to \in RootStatuses /\ RootStates[to].initial = FALSE
           /\ R!Satisfies(RootStates[to], target)
<1> DEFINE matching == R!MatchingTransitions(from, target, edge)
<1>1. matching # {}
  BY DEF R!TransitionTarget
<1>2. PICK t \in matching : R!TransitionTarget(from, target, edge) = t.to_status
  BY <1>1 DEF R!TransitionTarget
<1>3. /\ t \in RootTransitions /\ t.from_status = from
      /\ R!Satisfies(RootStates[t.to_status], target)
  BY DEF R!MatchingTransitions
<1>4. /\ R!StateMatches(t.to_status, [initial |-> FALSE])
      /\ R!StateMatches(t.from_status, [terminal |-> FALSE])
  BY <1>3, DeviceLifecycleAssumption
<1> QED BY <1>2, <1>3, <1>4, RootSelects

LEMMA OpTarget ==
    ASSUME NEW from, NEW target, NEW edge, O!TransitionTarget(from, target, edge) # NULL
    PROVE  O!TransitionTarget(from, target, edge) \in OpStatuses
<1> DEFINE matching == O!MatchingTransitions(from, target, edge)
<1>1. matching # {}
  BY DEF O!TransitionTarget
<1>2. PICK t \in matching : O!TransitionTarget(from, target, edge) = t.to_status
  BY <1>1 DEF O!TransitionTarget
<1>3. t \in OpTransitions
  BY DEF O!MatchingTransitions
<1>4. t.to_status \in OpStatuses
  BY <1>3, LifecycleTypes DEF O!TransitionRow
<1> QED BY <1>2, <1>4

LEMMA InitialFlags ==
    /\ RootFlags(RootInitial, TRUE, FALSE)
    /\ \A s \in RootStatuses : RootStates[s].initial = TRUE <=> s = RootInitial
    /\ OpInitial \in OpStatuses
<1>1. PICK s \in RootStatuses : \A t \in RootStatuses : R!StateMatches(t, [initial |-> TRUE]) <=> t = s
  BY DeviceLifecycleAssumption
<1>2. RootInitial = s
  BY <1>1 DEF RootInitial
<1>3. PICK q \in OpStatuses : \A t \in OpStatuses : O!StateMatches(t, [initial |-> TRUE]) <=> t = q
  BY DeviceLifecycleAssumption
<1>4. OpInitial = q
  BY <1>3 DEF OpInitial
<1>5. R!StateMatches(RootInitial, [terminal |-> FALSE])
  BY DeviceLifecycleAssumption
<1> QED BY <1>1, <1>2, <1>3, <1>4, <1>5, RootSelects DEF RootFlags

\* A terminal status of the roots is not the initial one, and the operations have it.
LEMMA TerminalFlags ==
    ASSUME NEW s \in RootStatuses, RootStates[s].terminal = TRUE
    PROVE  RootFlags(s, FALSE, TRUE) /\ s \in OpStatuses
<1>1. s # RootInitial
  BY InitialFlags DEF RootFlags
<1>2. RootStates[s].initial = FALSE
  BY <1>1, InitialFlags, LifecycleTypes DEF R!StateFlags
<1>3. s \in OpStatuses
  BY RootSelects, DeviceLifecycleAssumption
<1> QED BY <1>2, <1>3 DEF RootFlags

LEMMA EndFlags == \A s \in Ends : s \in RootStatuses /\ RootStates[s].terminal = TRUE
<1>1. R!StateMatches(Completed, ToOutcome(TRUE)) /\ R!StateMatches(Failed, ToOutcome(FALSE))
  BY DeviceLifecycleAssumption
<1>2. R!StateMatches(Cancelled, [terminal |-> TRUE, administrative |-> TRUE])
  BY DeviceLifecycleAssumption
<1> QED BY <1>1, <1>2 DEF Ends, R!StateMatches, R!Satisfies, ToOutcome

-----------------------------------------------------------------------------
(* What a step may do to a row. *)

IsActive(row) == row \in RootRow /\ RootFlags(row.state, FALSE, FALSE)
IsEnded(row) == row \in RootRow /\ RootFlags(row.state, FALSE, TRUE)

\* A root row is moved while it is active, or ended, out of the queue without a
\* number; only admission and the prepare transaction do anything else.
RootChange(before, after) ==
    \/ after = before
    \/ /\ before \in RootRow /\ IsEnded(after)
       /\ before.state = RootInitial => after.generation = before.generation
    \/ IsActive(before) /\ IsActive(after)

RootsMove == /\ roots' \in [Roots -> RootRow \cup {NoRow}]
             /\ \A r \in Roots : RootChange(roots[r], roots'[r])

\* An operation is written as a row and never removed.
OpsMove == /\ operations' \in [Ops -> OpRow \cup {NoRow}]
           /\ \A o \in Ops : Registered(o) => operations'[o] # NoRow

LEMMA NewRootIsTyped == NewRoot \in RootRow /\ NewRoot.state = RootInitial
                        /\ ~NewRoot.dispatching /\ ~NewRoot.dispatched
<1>1. IsFiniteSet({r \in Roots : Admitted(r)})
  BY NameAssumption, FS_Subset DEF Ops
<1>2. Cardinality({r \in Roots : Admitted(r)}) \in Nat
  BY <1>1, FS_CardinalityType
<1>3. 1 + Cardinality({r \in Roots : Admitted(r)}) \in Nat
  BY <1>2
<1> QED BY <1>3, InitialFlags DEF NewRoot, RootRow, RootFlags

LEMMA MovedRootIsTyped ==
    ASSUME NEW row \in RootRow, NEW s \in RootStatuses, NEW mark \in BOOLEAN, NEW increment \in Nat
    PROVE  MovedRoot(row, s, mark, increment) \in RootRow /\ MovedRoot(row, s, mark, increment).state = s
<1>1. RootStates[s].dispatchable \in BOOLEAN
  BY LifecycleTypes DEF R!StateFlags
<1>2. /\ row.generation \in Nat /\ row.fifo \in Nat /\ row.terminal \in BOOLEAN
      /\ row.ambiguous \in BOOLEAN /\ row.claimed \in BOOLEAN /\ row.dispatching \in BOOLEAN
      /\ row.dispatched \in BOOLEAN
  BY DEF RootRow
<1>3. row.generation + increment \in Nat
  BY <1>2
<1> QED BY <1>1, <1>2, <1>3 DEF MovedRoot, RootRow

LEMMA EndedRootIsTyped ==
    ASSUME NEW row \in RootRow, NEW s \in RootStatuses
    PROVE  /\ EndedRoot(row, s) \in RootRow /\ EndedRoot(row, s).state = s
           /\ EndedRoot(row, s).generation = row.generation
  BY DEF EndedRoot, RootRow

LEMMA EndedRootEnds ==
    ASSUME NEW row \in RootRow, NEW s \in RootStatuses, RootStates[s].terminal = TRUE
    PROVE  IsEnded(EndedRoot(row, s))
  BY EndedRootIsTyped, TerminalFlags DEF IsEnded

\* Only an active root has a way to an ambiguous status.
LEMMA BlockedRootMoves ==
    ASSUME NEW row \in RootRow
    PROVE  BlockedRoot(row) \in RootRow /\ RootChange(row, BlockedRoot(row))
<1> DEFINE target == R!TransitionTarget(row.state, ToAmbiguous, Automatic)
<1>1. CASE target = NULL
  BY <1>1 DEF BlockedRoot, RootChange
<1>2. CASE target # NULL
  <2>1. /\ row.state \in RootStatuses /\ RootStates[row.state].terminal = FALSE
        /\ target \in RootStatuses /\ RootStates[target].initial = FALSE
        /\ R!Satisfies(RootStates[target], ToAmbiguous)
    BY <1>2, RootTarget
  <2>2. RootStates[target].terminal = FALSE
    BY <2>1 DEF R!Satisfies, ToAmbiguous
  <2>3. row.state # RootInitial
    BY <1>2, DeviceLifecycleAssumption
  <2>4. RootStates[row.state].initial = FALSE
    BY <2>1, <2>3, InitialFlags, LifecycleTypes DEF R!StateFlags
  <2>5. BlockedRoot(row) = [row EXCEPT !.state = target, !.ambiguous = TRUE]
    BY <1>2 DEF BlockedRoot
  <2>6. BlockedRoot(row) \in RootRow /\ BlockedRoot(row).state = target
    BY <2>1, <2>5 DEF RootRow
  <2> QED BY <2>1, <2>2, <2>4, <2>6 DEF RootChange, IsActive, RootFlags
<1> QED BY <1>1, <1>2

LEMMA NewOperationIsTyped ==
    ASSUME NEW generation \in Nat PROVE NewOperation(generation) \in OpRow
  BY InitialFlags DEF NewOperation, OpRow

LEMMA MovedOperationIsTyped ==
    ASSUME NEW row \in OpRow, NEW s \in OpStatuses PROVE MovedOperation(row, s) \in OpRow
<1>1. OpStates[s].dispatchable \in BOOLEAN /\ OpStates[s].terminal \in BOOLEAN
  BY LifecycleTypes DEF O!StateFlags
<1> QED BY <1>1 DEF MovedOperation, OpRow

LEMMA BlockedOperationIsTyped ==
    ASSUME NEW row \in OpRow PROVE BlockedOperation(row) \in OpRow
  BY OpTarget, MovedOperationIsTyped DEF BlockedOperation

LEMMA UpsertedOperationIsTyped ==
    ASSUME TypeOK, NEW o \in Ops, NEW rootRow \in RootRow PROVE UpsertedOperation(o, rootRow) \in OpRow
<1>1. rootRow.generation \in Nat
  BY DEF RootRow
<1>2. Registered(o) => operations[o] \in OpRow
  BY DEF TypeOK, Registered
<1> QED BY <1>1, <1>2, NewOperationIsTyped DEF UpsertedOperation, OpRow

-----------------------------------------------------------------------------
(* The invariant, and what follows from the kinds of change alone. *)

\* Whatever is in flight has its operation and its root in the ledgers.
Grounded ==
    /\ \A r \in Roots : Admitted(r) => Registered(r)
    /\ \A call \in egress : Registered(call.op) /\ Admitted(RootOf(call.op))
    /\ \A permit \in waiters : Registered(permit.op) /\ Admitted(RootOf(permit.op))
    /\ \A frame \in phone : Registered(frame.op) /\ Admitted(RootOf(frame.op))

\* A root whose status is still the initial one has no dispatch timestamp: the
\* arbiter's phases, read from the timestamps, agree with its lifecycle.
PhaseAgrees ==
    \A r \in Roots : Admitted(r) /\ roots[r].state = RootInitial =>
        ~roots[r].dispatching /\ ~roots[r].dispatched

ArbiterInv == TypeOK /\ Grounded /\ PhaseAgrees /\ OneActiveRoot

LEMMA RootOfIsRoot == \A o \in Ops : RootOf(o) \in Roots
  BY NameAssumption DEF RootOf, Roots, Ops

LEMMA ActiveIsActive ==
    ASSUME TypeOK, NEW r \in Roots PROVE r \in ActiveRoots <=> IsActive(roots[r])
<1>1. Admitted(r) <=> roots[r] \in RootRow
  BY NoRowIsNoRecord DEF TypeOK, Admitted
<1>2. R!StateMatches(roots[r].state, [initial |-> FALSE, terminal |-> FALSE])
        <=> RootFlags(roots[r].state, FALSE, FALSE)
  BY ActiveSelects
<1> QED BY <1>1, <1>2 DEF ActiveRoots, RootMatches, IsActive

LEMMA ActiveIsActiveNext ==
    ASSUME RootsMove, NEW r \in Roots PROVE r \in ActiveRoots' <=> IsActive(roots'[r])
<1>1. Admitted(r)' <=> roots'[r] \in RootRow
  BY NoRowIsNoRecord DEF RootsMove, Admitted
<1>2. R!StateMatches(roots'[r].state, [initial |-> FALSE, terminal |-> FALSE])
        <=> RootFlags(roots'[r].state, FALSE, FALSE)
  BY ActiveSelects
<1>3. r \in ActiveRoots' <=> Admitted(r)' /\ R!StateMatches(roots'[r].state, [initial |-> FALSE, terminal |-> FALSE])
  BY DEF ActiveRoots, RootMatches, Admitted
<1> QED BY <1>1, <1>2, <1>3 DEF IsActive

LEMMA MovesKeepTheSlot ==
    ASSUME TypeOK, RootsMove PROVE ActiveRoots' \subseteq ActiveRoots
<1> SUFFICES ASSUME NEW r \in Roots, IsActive(roots'[r]) PROVE IsActive(roots[r])
  BY ActiveIsActive, ActiveIsActiveNext DEF ActiveRoots
<1>1. ~IsEnded(roots'[r])
  BY DEF IsActive, IsEnded, RootFlags
<1> QED BY <1>1 DEF RootsMove, RootChange

LEMMA MovesKeepThePhase ==
    ASSUME TypeOK, PhaseAgrees, RootsMove PROVE PhaseAgrees'
<1> SUFFICES ASSUME NEW r \in Roots, roots'[r] # NoRow, roots'[r].state = RootInitial
             PROVE  ~roots'[r].dispatching /\ ~roots'[r].dispatched
  BY DEF PhaseAgrees, Admitted
<1>1. ~IsEnded(roots'[r]) /\ ~IsActive(roots'[r])
  BY InitialFlags DEF IsEnded, IsActive, RootFlags
<1>2. CASE roots'[r] = roots[r]
  BY <1>2 DEF PhaseAgrees, Admitted
<1> QED BY <1>1, <1>2 DEF RootsMove, RootChange

LEMMA RootWritten ==
    ASSUME TypeOK, NEW r \in Roots, NEW row \in RootRow, RootChange(roots[r], row),
           roots' = [roots EXCEPT ![r] = row]
    PROVE  RootsMove
<1>1. \A s \in Roots : roots'[s] = IF s = r THEN row ELSE roots[s]
  BY DEF TypeOK
<1>2. roots' \in [Roots -> RootRow \cup {NoRow}]
  BY DEF TypeOK
<1> QED BY <1>1, <1>2 DEF RootsMove, RootChange

LEMMA OpWritten ==
    ASSUME TypeOK, NEW o \in Ops, NEW row \in OpRow, operations' = [operations EXCEPT ![o] = row]
    PROVE  OpsMove /\ operations'[o] = row
<1>1. \A q \in Ops : operations'[q] = IF q = o THEN row ELSE operations[q]
  BY DEF TypeOK
<1>2. operations' \in [Ops -> OpRow \cup {NoRow}]
  BY DEF TypeOK
<1> QED BY <1>1, <1>2, NoRowIsNoRecord DEF OpsMove, Registered

LEMMA NothingMoves == ASSUME TypeOK, UNCHANGED ledgers PROVE RootsMove /\ OpsMove
  BY DEF ledgers, RootsMove, OpsMove, RootChange, TypeOK, Registered

LEMMA RootsStill == ASSUME TypeOK, roots' = roots PROVE RootsMove
  BY DEF RootsMove, RootChange, TypeOK
LEMMA OpsStill == ASSUME TypeOK, operations' = operations PROVE OpsMove
  BY DEF OpsMove, TypeOK, Registered

\* An admitted root is a row, and so is a registered operation.
LEMMA RowsAreRows ==
    ASSUME TypeOK
    PROVE  /\ \A r \in Roots : Admitted(r) => roots[r] \in RootRow /\ roots[r].state \in RootStatuses
           /\ \A o \in Ops : Registered(o) => operations[o] \in OpRow
  BY DEF TypeOK, Admitted, Registered, RootRow

-----------------------------------------------------------------------------
(* The steps. *)

\* A move out of dispatch, to a live status, of a root whose send was prepared.
LEMMA DispatchMoves ==
    ASSUME ArbiterInv, NEW r \in Roots, Admitted(r), roots[r].dispatching,
           NEW selector, NEW edge,
           R!TransitionTarget(roots[r].state, selector, edge) # NULL,
           RootStates[R!TransitionTarget(roots[r].state, selector, edge)].terminal = FALSE
    PROVE  LET after == MovedRoot(roots[r], R!TransitionTarget(roots[r].state, selector, edge), FALSE, 0)
           IN  after \in RootRow /\ RootChange(roots[r], after)
<1> DEFINE target == R!TransitionTarget(roots[r].state, selector, edge)
           after == MovedRoot(roots[r], target, FALSE, 0)
<1>1. /\ roots[r].state \in RootStatuses /\ RootStates[roots[r].state].terminal = FALSE
      /\ target \in RootStatuses /\ RootStates[target].initial = FALSE
  BY RootTarget
<1>2. roots[r] \in RootRow
  BY RowsAreRows DEF ArbiterInv
<1>3. roots[r].state # RootInitial
  BY DEF ArbiterInv, PhaseAgrees
<1>4. RootStates[roots[r].state].initial = FALSE
  BY <1>1, <1>3, InitialFlags, LifecycleTypes DEF R!StateFlags
<1>5. after \in RootRow /\ after.state = target
  BY <1>1, <1>2, MovedRootIsTyped, ZenonT(30)
<1> QED BY <1>1, <1>2, <1>4, <1>5, ZenonT(30) DEF RootChange, IsActive, RootFlags

LEMMA CompletionMoves ==
    ASSUME ArbiterInv, NEW call \in egress, CompleteEgress(call) PROVE RootsMove /\ OpsMove
<1> DEFINE r == RootOf(call.op)
           row == roots[r]
           operation == operations[call.op]
           rootTarget == R!TransitionTarget(row.state, ToDispatched, Automatic)
           opTarget == O!TransitionTarget(operation.state, ToDispatched, Automatic)
<1>1. call.op \in Ops /\ r \in Roots
  BY RootOfIsRoot DEF ArbiterInv, TypeOK, Call, JobOps, Ops, Roots
<1>2. row \in RootRow /\ operation \in OpRow /\ TypeOK
  BY <1>1, RowsAreRows DEF ArbiterInv, Grounded
<1>3. CASE UNCHANGED <<roots, operations>>
  BY <1>2, <1>3, NothingMoves DEF ledgers
<1>4. CASE /\ roots' = [roots EXCEPT ![r] = BlockedRoot(row)]
           /\ operations' = [operations EXCEPT ![call.op] = BlockedOperation(operation)]
  <2>1. BlockedRoot(row) \in RootRow /\ RootChange(row, BlockedRoot(row))
    BY <1>2, BlockedRootMoves
  <2>2. BlockedOperation(operation) \in OpRow
    BY <1>2, BlockedOperationIsTyped
  <2> QED BY <1>1, <1>2, <1>4, <2>1, <2>2, RootWritten, OpWritten
<1>5. CASE /\ StillOwner(call, row, operation)
           /\ Dispatched(row) \/ rootTarget # NULL
           /\ roots' = [roots EXCEPT ![r] =
                 IF Dispatched(row) THEN row ELSE MovedRoot(row, rootTarget, FALSE, 0)]
           /\ operations' = [operations EXCEPT ![call.op] =
                 IF opTarget = NULL THEN operation ELSE MovedOperation(operation, opTarget)]
  <2> DEFINE after == IF Dispatched(row) THEN row ELSE MovedRoot(row, rootTarget, FALSE, 0)
             opAfter == IF opTarget = NULL THEN operation ELSE MovedOperation(operation, opTarget)
  <2>1. after \in RootRow /\ RootChange(row, after)
    <3>1. CASE Dispatched(row)
      BY <1>2, <3>1 DEF RootChange
    <3>2. CASE ~Dispatched(row)
      <4>1. rootTarget # NULL /\ row.dispatching /\ Admitted(r)
        BY <1>1, <1>2, <1>5, <3>2, NoRowIsNoRecord DEF StillOwner, Dispatching, Dispatched, Admitted
      <4>2. R!Satisfies(RootStates[rootTarget], ToDispatched)
        BY <4>1, RootTarget
      <4>3. RootStates[rootTarget].terminal = FALSE
        BY <4>2 DEF R!Satisfies, ToDispatched
      <4>4. MovedRoot(row, rootTarget, FALSE, 0) \in RootRow
            /\ RootChange(row, MovedRoot(row, rootTarget, FALSE, 0))
        BY <1>1, <4>1, <4>3, DispatchMoves
      <4>5. after = MovedRoot(row, rootTarget, FALSE, 0)
        BY <3>2
      <4> HIDE DEF after
      <4> QED BY <4>4, <4>5
    <3> QED BY <3>1, <3>2
  <2>2. opAfter \in OpRow
    BY <1>2, OpTarget, MovedOperationIsTyped
  <2> HIDE DEF after, opAfter
  <2>3. roots' = [roots EXCEPT ![r] = after] /\ operations' = [operations EXCEPT ![call.op] = opAfter]
    BY <1>5 DEF after, opAfter
  <2> QED BY <1>1, <1>2, <2>1, <2>2, <2>3, RootWritten, OpWritten
<1> QED BY <1>3, <1>4, <1>5 DEF CompleteEgress

\* An outcome is a terminal status of the roots, and one of the operations too.
LEMMA OutcomeEnds ==
    ASSUME NEW from, NEW b \in BOOLEAN, NEW edge, R!TransitionTarget(from, ToOutcome(b), edge) # NULL
    PROVE  LET target == R!TransitionTarget(from, ToOutcome(b), edge) IN
           target \in RootStatuses /\ RootStates[target].terminal = TRUE /\ target \in OpStatuses
<1> DEFINE target == R!TransitionTarget(from, ToOutcome(b), edge)
<1>1. target \in RootStatuses /\ R!Satisfies(RootStates[target], ToOutcome(b))
  BY RootTarget
<1>2. RootStates[target].terminal = TRUE
  BY <1>1 DEF R!Satisfies, ToOutcome
<1> QED BY <1>1, <1>2, TerminalFlags

LEMMA ResultMoves ==
    ASSUME ArbiterInv, NEW frame \in phone, AcceptJobResult(frame) PROVE RootsMove /\ OpsMove
<1> DEFINE o == frame.op
           r == RootOf(o)
           success == frame.status = "succeeded"
           target == R!TransitionTarget(roots[r].state, ToOutcome(success), Reported)
           after == IF o \in Children THEN ChildResultRoot(roots[r]) ELSE EndedRoot(roots[r], target)
<1>1. o \in Ops /\ r \in Roots
  BY RootOfIsRoot DEF ArbiterInv, TypeOK, Frame, JobOps, Ops, Roots
<1>2. /\ roots[r] \in RootRow /\ operations[o] \in OpRow /\ TypeOK
      /\ Admitted(r) /\ Registered(o)
  BY <1>1, RowsAreRows DEF ArbiterInv, Grounded
<1>3. /\ target # NULL
      /\ o \in Children => ~ChildResultFails(roots[r])
      /\ roots' = [roots EXCEPT ![r] = after]
      /\ operations' = [operations EXCEPT ![o] = MovedOperation(operations[o], target)]
  BY DEF AcceptJobResult
<1>4. target \in RootStatuses /\ RootStates[target].terminal = TRUE /\ target \in OpStatuses
  BY <1>3, OutcomeEnds
<1>5. after \in RootRow /\ RootChange(roots[r], after)
  <2>1. CASE o \notin Children
    BY <1>2, <1>4, <2>1, EndedRootEnds, EndedRootIsTyped DEF RootChange
  <2>2. CASE o \in Children /\ ~Dispatching(roots[r])
    BY <1>2, <2>2 DEF ChildResultRoot, RootChange
  <2>3. CASE o \in Children /\ Dispatching(roots[r])
    <3> DEFINE next == R!TransitionTarget(roots[r].state, ToAnyLive, Automatic)
    <3>1. next # NULL
      BY <1>3, <2>3 DEF ChildResultFails, R!HasTarget
    <3>2. R!Satisfies(RootStates[next], ToAnyLive)
      BY <3>1, RootTarget
    <3>3. RootStates[next].terminal = FALSE
      BY <3>2 DEF R!Satisfies, ToAnyLive
    <3>4. after = MovedRoot(roots[r], next, FALSE, 0)
      BY <2>3 DEF ChildResultRoot
    <3>5. roots[r].dispatching
      BY <2>3 DEF Dispatching
    <3> HIDE DEF next
    <3>6. MovedRoot(roots[r], next, FALSE, 0) \in RootRow
          /\ RootChange(roots[r], MovedRoot(roots[r], next, FALSE, 0))
      BY <1>1, <1>2, <3>1, <3>3, <3>5, DispatchMoves DEF next
    <3> QED BY <3>4, <3>6
  <2> QED BY <2>1, <2>2, <2>3
<1>6. MovedOperation(operations[o], target) \in OpRow
  BY <1>2, <1>4, MovedOperationIsTyped
<1> HIDE DEF after, target
<1> QED BY <1>1, <1>2, <1>3, <1>5, <1>6, RootWritten, OpWritten

LEMMA CancellationMoves ==
    ASSUME ArbiterInv, NEW j \in Jobs, ObserveCancelled(j) PROVE RootsMove /\ OpsMove
<1>1. TypeOK /\ j \in Roots /\ j \in Ops
  BY DEF ArbiterInv, Roots, Ops
<1>2. CASE UNCHANGED ledgers
  BY <1>1, <1>2, NothingMoves
<1>3. CASE /\ Admitted(j)
           /\ roots' = [roots EXCEPT ![j] = EndedRoot(roots[j], Cancelled)]
           /\ operations' = [operations EXCEPT ![j] = MovedOperation(operations[j], Cancelled)]
  <2>1. roots[j] \in RootRow /\ operations[j] \in OpRow
    BY <1>1, <1>3, RowsAreRows DEF ArbiterInv, Grounded
  <2>2. Cancelled \in RootStatuses /\ RootStates[Cancelled].terminal = TRUE
    BY EndFlags DEF Ends
  <2>3. EndedRoot(roots[j], Cancelled) \in RootRow /\ RootChange(roots[j], EndedRoot(roots[j], Cancelled))
    BY <2>1, <2>2, EndedRootEnds, EndedRootIsTyped DEF RootChange, IsEnded
  <2>4. MovedOperation(operations[j], Cancelled) \in OpRow
    BY <2>1, <2>2, TerminalFlags, MovedOperationIsTyped
  <2> QED BY <1>1, <1>3, <2>3, <2>4, RootWritten, OpWritten
<1> QED BY <1>2, <1>3 DEF ObserveCancelled

LEMMA AmbiguityMoves ==
    ASSUME ArbiterInv, NEW o \in Ops, NEW generation, MarkedAmbiguous(o, generation),
           Admitted(RootOf(o)) => Registered(o)
    PROVE  RootsMove /\ OpsMove
<1> DEFINE r == RootOf(o)
<1>1. TypeOK /\ r \in Roots
  BY RootOfIsRoot DEF ArbiterInv
<1>2. CASE UNCHANGED ledgers
  BY <1>1, <1>2, NothingMoves
<1>3. CASE /\ Admitted(r)
           /\ roots' = [roots EXCEPT ![r] = BlockedRoot(roots[r])]
           /\ operations' = [operations EXCEPT ![o] = BlockedOperation(operations[o])]
  <2>1. roots[r] \in RootRow /\ operations[o] \in OpRow
    BY <1>1, <1>3, RowsAreRows
  <2>2. BlockedRoot(roots[r]) \in RootRow /\ RootChange(roots[r], BlockedRoot(roots[r]))
    BY <2>1, BlockedRootMoves
  <2>3. BlockedOperation(operations[o]) \in OpRow
    BY <2>1, BlockedOperationIsTyped
  <2> QED BY <1>1, <1>3, <2>2, <2>3, RootWritten, OpWritten
<1> QED BY <1>2, <1>3 DEF MarkedAmbiguous

LEMMA ExpiryMoves ==
    ASSUME ArbiterInv, NEW permit \in waiters, ExpireServerWorkflowChild(permit)
    PROVE  RootsMove /\ OpsMove
<1> DEFINE o == permit.op
           target == O!TransitionTarget(operations[o].state, ToOutcome(FALSE), Automatic)
<1>1. TypeOK /\ o \in Ops /\ Registered(o)
  BY DEF ArbiterInv, TypeOK, Permit, JobOps, Ops, Roots, Grounded
<1>2. MovedOperation(operations[o], target) \in OpRow
  BY <1>1, RowsAreRows, OpTarget, MovedOperationIsTyped DEF ExpireServerWorkflowChild
<1>3. operations' = [operations EXCEPT ![o] = MovedOperation(operations[o], target)]
  BY DEF ExpireServerWorkflowChild
<1>4. roots' = roots
  BY DEF ExpireServerWorkflowChild
<1> HIDE DEF target
<1> QED BY <1>1, <1>2, <1>3, <1>4, OpWritten, RootsStill

LEMMA FinishMoves ==
    ASSUME ArbiterInv, NEW w \in Workflows, NEW successful \in BOOLEAN,
           FinishServerWorkflowRoot(w, successful)
    PROVE  RootsMove /\ OpsMove
<1> DEFINE target == R!TransitionTarget(roots[w].state, ToOutcome(successful), Automatic)
           opTarget == O!TransitionTarget(operations[w].state, ToOutcome(successful), Automatic)
           ends == Admitted(w) /\ ~roots[w].terminal /\ ~roots[w].ambiguous /\ target # NULL
           opAfter == [MovedOperation(operations[w], opTarget) EXCEPT !.generation = roots[w].generation]
<1>1. TypeOK /\ w \in Roots /\ w \in Ops
  BY DEF ArbiterInv, Roots, Ops
<1>2. /\ roots' = IF ends THEN [roots EXCEPT ![w] = EndedRoot(roots[w], target)] ELSE roots
      /\ operations' = IF ~ends \/ opTarget = NULL THEN operations
                       ELSE [operations EXCEPT ![w] = opAfter]
  BY DEF FinishServerWorkflowRoot
<1>3. ends => roots[w] \in RootRow /\ operations[w] \in OpRow
  BY <1>1, RowsAreRows DEF ArbiterInv, Grounded
<1>4. RootsMove
  <2>1. CASE ~ends
    BY <1>1, <1>2, <2>1, RootsStill
  <2>2. CASE ends
    <3>1. target \in RootStatuses /\ RootStates[target].terminal = TRUE
      BY <2>2, OutcomeEnds
    <3>2. /\ EndedRoot(roots[w], target) \in RootRow
          /\ RootChange(roots[w], EndedRoot(roots[w], target))
      BY <1>3, <2>2, <3>1, EndedRootEnds, EndedRootIsTyped DEF RootChange, IsEnded
    <3>3. roots' = [roots EXCEPT ![w] = EndedRoot(roots[w], target)]
      BY <1>2, <2>2
    <3> HIDE DEF target
    <3> QED BY <1>1, <3>2, <3>3, RootWritten
  <2> QED BY <2>1, <2>2
<1>5. OpsMove
  <2>1. CASE ~ends \/ opTarget = NULL
    BY <1>1, <1>2, <2>1, OpsStill
  <2>2. CASE ends /\ opTarget # NULL
    <3>1. MovedOperation(operations[w], opTarget) \in OpRow /\ roots[w].generation \in Nat
      BY <1>3, <2>2, OpTarget, MovedOperationIsTyped DEF RootRow
    <3>2. opAfter \in OpRow
      BY <3>1 DEF OpRow
    <3>3. operations' = [operations EXCEPT ![w] = opAfter]
      BY <1>2, <2>2
    <3> HIDE DEF opAfter
    <3> QED BY <1>1, <3>2, <3>3, OpWritten
  <2> QED BY <2>1, <2>2
<1> QED BY <1>4, <1>5

LEMMA CancelQueuedMoves ==
    ASSUME ArbiterInv, NEW w \in Workflows, CancelQueuedPersistedWorkflow(w)
    PROVE  RootsMove /\ OpsMove
<1> DEFINE target == R!TransitionTarget(roots[w].state, ToEnded, Manual)
           To(o) == O!TransitionTarget(operations[o].state, ToEnded, Manual)
           Cancels(o) == /\ Registered(o) /\ RootOf(o) = w
                         /\ O!StateMatches(operations[o].state, [initial |-> TRUE])
                         /\ To(o) # NULL
           After(o) == IF Cancels(o)
                       THEN [operations[o] EXCEPT !.state = To(o),
                                !.generation = roots[w].generation, !.terminal = TRUE]
                       ELSE operations[o]
<1>1. TypeOK /\ w \in Roots
  BY DEF ArbiterInv, Roots
<1>2. CASE UNCHANGED ledgers
  BY <1>1, <1>2, NothingMoves
<1>3. CASE /\ Admitted(w) /\ target # NULL
           /\ roots' = [roots EXCEPT ![w] = EndedRoot(roots[w], target)]
           /\ operations' = [o \in Ops |-> After(o)]
  <2>1. roots[w] \in RootRow /\ roots[w].generation \in Nat
    BY <1>1, <1>3, RowsAreRows DEF RootRow
  <2>2. target \in RootStatuses /\ R!Satisfies(RootStates[target], ToEnded)
    BY <1>3, RootTarget
  <2>3. RootStates[target].terminal = TRUE
    BY <2>2 DEF R!Satisfies, ToEnded
  <2>4. /\ EndedRoot(roots[w], target) \in RootRow
        /\ RootChange(roots[w], EndedRoot(roots[w], target))
    BY <2>1, <2>2, <2>3, EndedRootEnds, EndedRootIsTyped DEF RootChange, IsEnded
  <2>5. RootsMove
    BY <1>1, <1>3, <2>4, RootWritten
  <2>6. ASSUME NEW o \in Ops
        PROVE  After(o) \in OpRow \cup {NoRow} /\ (Registered(o) => After(o) # NoRow)
    <3>1. CASE Cancels(o)
      <4>1. operations[o] \in OpRow /\ To(o) \in OpStatuses
        BY <1>1, <3>1, RowsAreRows, OpTarget
      <4>2. [operations[o] EXCEPT !.state = To(o), !.generation = roots[w].generation,
                                  !.terminal = TRUE] \in OpRow
        BY <2>1, <4>1 DEF OpRow
      <4> QED BY <3>1, <4>2, NoRowIsNoRecord
    <3>2. CASE ~Cancels(o)
      BY <1>1, <3>2 DEF TypeOK, Registered
    <3> QED BY <3>1, <3>2
  <2> HIDE DEF After
  <2>7. OpsMove
    BY <1>3, <2>6 DEF OpsMove
  <2> QED BY <2>5, <2>7
<1> QED BY <1>2, <1>3 DEF CancelQueuedPersistedWorkflow, ledgers

\* The repairs end roots they find, whatever was done to them just before.
LEMMA RepairMoves ==
    ASSUME ArbiterInv,
           NEW rootsNow \in [Roots -> RootRow \cup {NoRow}],
           NEW opsNow \in [Ops -> OpRow \cup {NoRow}],
           \A r \in Roots : RootChange(roots[r], rootsNow[r]),
           \A o \in Ops : Registered(o) => opsNow[o] # NoRow,
           NEW settled, NEW unstarted, Repaired(rootsNow, opsNow, settled, unstarted)
    PROVE  /\ RootsMove /\ OpsMove
           /\ workflowRows' \in [Workflows -> {"queued", "running"} \cup Ends]
<1> DEFINE ended == {w \in Workflows : TerminalEvidence(w, rootsNow[w], opsNow, settled)}
           failed == {w \in Workflows : NeverStarted(w, rootsNow[w], opsNow, unstarted)}
           RootAfter(r) == CASE r \in ended -> EndedRoot(rootsNow[r], workflowRows[r])
                             [] r \in failed -> EndedRoot(rootsNow[r], Failed)
                             [] OTHER -> rootsNow[r]
           OpAfter(o) == CASE RootOf(o) \in ended ->
                                RepairedOperation(opsNow[o], {rootsNow[RootOf(o)].generation},
                                                  workflowRows[RootOf(o)], FALSE)
                           [] RootOf(o) \in failed -> RepairedOperation(opsNow[o], Nat, Failed, TRUE)
                           [] OTHER -> opsNow[o]
<1>1. /\ roots' = [r \in Roots |-> RootAfter(r)]
      /\ operations' = [o \in Ops |-> OpAfter(o)]
      /\ workflowRows' = [w \in Workflows |-> IF w \in failed THEN Failed ELSE workflowRows[w]]
  BY DEF Repaired
<1>2. ASSUME NEW r \in Roots, NEW s \in Ends, rootsNow[r] # NoRow
      PROVE  LET after == EndedRoot(rootsNow[r], s) IN
             after \in RootRow \cup {NoRow} /\ RootChange(roots[r], after)
  <2>1. rootsNow[r] \in RootRow /\ roots[r] \in RootRow
    BY <1>2, NoRowIsNoRecord DEF ArbiterInv, TypeOK, RootChange, IsEnded, IsActive
  <2>2. roots[r].state = RootInitial => rootsNow[r].generation = roots[r].generation
    BY InitialFlags DEF RootChange, IsActive, RootFlags
  <2> QED BY <2>1, <2>2, EndFlags, EndedRootEnds, EndedRootIsTyped DEF RootChange, IsEnded
<1>3. \A w \in ended : w \in Roots /\ rootsNow[w] # NoRow /\ workflowRows[w] \in Ends
  BY DEF TerminalEvidence, Roots
<1>4. \A w \in failed : w \in Roots /\ w \notin ended /\ rootsNow[w] # NoRow /\ Failed \in Ends
  BY DEF NeverStarted, TerminalEvidence, Roots, Ends
<1> HIDE DEF ended, failed
<1>5. ASSUME NEW r \in Roots
      PROVE  RootAfter(r) \in RootRow \cup {NoRow} /\ RootChange(roots[r], RootAfter(r))
  <2>1. CASE r \in ended
    <3>1. RootAfter(r) = EndedRoot(rootsNow[r], workflowRows[r])
      BY <1>4, <2>1
    <3>2. rootsNow[r] # NoRow /\ workflowRows[r] \in Ends
      BY <1>3, <2>1
    <3> QED BY <1>2, <3>1, <3>2
  <2>2. CASE r \notin ended /\ r \in failed
    <3>1. RootAfter(r) = EndedRoot(rootsNow[r], Failed)
      BY <2>2
    <3>2. rootsNow[r] # NoRow /\ Failed \in Ends
      BY <1>4, <2>2
    <3> QED BY <1>2, <3>1, <3>2
  <2>3. CASE r \notin ended /\ r \notin failed
    BY <2>3
  <2> QED BY <2>1, <2>2, <2>3
<1>6. ASSUME NEW row \in OpRow \cup {NoRow}, NEW generation, NEW s \in Ends, NEW stamps \in BOOLEAN
      PROVE  LET after == RepairedOperation(row, generation, s, stamps) IN
             after \in OpRow \cup {NoRow} /\ (row # NoRow => after # NoRow)
  <2>1. s \in OpStatuses
    BY EndFlags, TerminalFlags
  <2>2. CASE row \in OpRow
    <3>1. [row EXCEPT !.state = s, !.terminal = @ \/ stamps] \in OpRow
      BY <2>1, <2>2 DEF OpRow
    <3> QED BY <2>2, <3>1, NoRowIsNoRecord DEF RepairedOperation
  <2>3. CASE row = NoRow
    BY <2>3 DEF RepairedOperation
  <2> QED BY <2>2, <2>3
<1>7. ASSUME NEW o \in Ops
      PROVE  OpAfter(o) \in OpRow \cup {NoRow} /\ (Registered(o) => OpAfter(o) # NoRow)
  <2>1. CASE RootOf(o) \in ended
    <3>1. OpAfter(o) = RepairedOperation(opsNow[o], {rootsNow[RootOf(o)].generation},
                                         workflowRows[RootOf(o)], FALSE)
      BY <1>4, <2>1
    <3>2. workflowRows[RootOf(o)] \in Ends
      BY <1>3, <2>1
    <3>3. opsNow[o] \in OpRow \cup {NoRow} /\ (Registered(o) => opsNow[o] # NoRow)
      OBVIOUS
    <3> DEFINE generation == {rootsNow[RootOf(o)].generation}
               status == workflowRows[RootOf(o)]
    <3> HIDE DEF OpAfter, generation, status
    <3>4. /\ RepairedOperation(opsNow[o], generation, status, FALSE) \in OpRow \cup {NoRow}
          /\ opsNow[o] # NoRow => RepairedOperation(opsNow[o], generation, status, FALSE) # NoRow
      BY <1>6, <3>2, <3>3 DEF status
    <3> QED BY <3>1, <3>3, <3>4 DEF generation, status
  <2>2. CASE RootOf(o) \notin ended /\ RootOf(o) \in failed
    <3>1. OpAfter(o) = RepairedOperation(opsNow[o], Nat, Failed, TRUE) /\ Failed \in Ends
      BY <1>4, <2>2
    <3>2. opsNow[o] \in OpRow \cup {NoRow} /\ (Registered(o) => opsNow[o] # NoRow)
      OBVIOUS
    <3> HIDE DEF OpAfter
    <3> QED BY <1>6, <3>1, <3>2, ZenonT(30)
  <2>3. CASE RootOf(o) \notin ended /\ RootOf(o) \notin failed
    BY <2>3
  <2> QED BY <2>1, <2>2, <2>3
<1>8. \A w \in Workflows : workflowRows[w] \in {"queued", "running"} \cup Ends
  BY DEF ArbiterInv, TypeOK
<1>9. workflowRows' \in [Workflows -> {"queued", "running"} \cup Ends]
  BY <1>1, <1>4, <1>8
<1> HIDE DEF RootAfter, OpAfter
<1>10. RootsMove
  BY <1>1, <1>5 DEF RootsMove
<1>11. OpsMove
  BY <1>1, <1>7 DEF OpsMove
<1> QED BY <1>9, <1>10, <1>11

LEMMA RestartMoves ==
    ASSUME ArbiterInv, NEW settled, NEW unstarted, Restart(settled, unstarted)
    PROVE  /\ RootsMove /\ OpsMove
           /\ workflowRows' \in [Workflows -> {"queued", "running"} \cup Ends]
<1> DEFINE rootsNow == [r \in Roots |-> IF InFlight(r) THEN BlockedRoot(roots[r]) ELSE roots[r]]
           opsNow == [o \in Ops |-> ReconciledOperation(o)]
<1>1. TypeOK
  BY DEF ArbiterInv
<1>2. ASSUME NEW r \in Roots
      PROVE  /\ rootsNow[r] \in RootRow \cup {NoRow}
             /\ RootChange(roots[r], rootsNow[r])
  <2>1. CASE InFlight(r)
    <3>1. roots[r] \in RootRow
      BY <1>1, <2>1, RowsAreRows DEF InFlight, RootMatches
    <3> QED BY <2>1, <3>1, BlockedRootMoves, NoRowIsNoRecord
  <2>2. CASE ~InFlight(r)
    BY <1>1, <2>2 DEF TypeOK, RootChange
  <2> QED BY <2>1, <2>2
<1>3. ASSUME NEW o \in Ops
      PROVE  /\ ReconciledOperation(o) \in OpRow \cup {NoRow}
             /\ Registered(o) => ReconciledOperation(o) # NoRow
  <2> DEFINE target == O!TransitionTarget(operations[o].state, ToAmbiguous, Automatic)
  <2>1. CASE Registered(o) /\ target # NULL
    <3>1. operations[o] \in OpRow /\ target \in OpStatuses
      BY <1>1, <2>1, RowsAreRows, OpTarget
    <3>2. [operations[o] EXCEPT !.state = target] \in OpRow
      BY <3>1 DEF OpRow
    <3> QED BY <2>1, <3>1, <3>2, NoRowIsNoRecord DEF ReconciledOperation
  <2>2. CASE ~(Registered(o) /\ target # NULL)
    BY <1>1, <2>2 DEF TypeOK, ReconciledOperation, Registered
  <2> QED BY <2>1, <2>2
<1>4. Repaired(rootsNow, opsNow, settled, unstarted)
  BY DEF Restart
<1>5. rootsNow \in [Roots -> RootRow \cup {NoRow}] /\ opsNow \in [Ops -> OpRow \cup {NoRow}]
  BY <1>2, <1>3
<1>6. \A o \in Ops : Registered(o) => opsNow[o] # NoRow
  BY <1>3
<1> HIDE DEF rootsNow, opsNow
<1> QED BY <1>2, <1>4, <1>5, <1>6, RepairMoves

-----------------------------------------------------------------------------
(* Admission and the prepare transaction write one root; the others stay. *)

\* What a step leaves of the ledgers' part of the invariant.
LedgersKept ==
    /\ roots' \in [Roots -> RootRow \cup {NoRow}]
    /\ OpsMove
    /\ \A r \in Roots : Admitted(r) => roots'[r] # NoRow
    /\ \A r \in Roots : roots'[r] # NoRow => operations'[r] # NoRow
    /\ PhaseAgrees' /\ OneActiveRoot'

LEMMA MovesKeepTheLedgers ==
    ASSUME ArbiterInv, RootsMove, OpsMove PROVE LedgersKept
<1>1. TypeOK /\ PhaseAgrees /\ OneActiveRoot
  BY DEF ArbiterInv
<1>2. \A r \in Roots : roots'[r] # NoRow <=> Admitted(r)
  BY <1>1, NoRowIsNoRecord DEF RootsMove, RootChange, IsEnded, IsActive, Admitted
<1>3. \A r \in Roots : roots'[r] # NoRow => operations'[r] # NoRow
  BY <1>2 DEF ArbiterInv, Grounded, OpsMove, Ops
<1>4. PhaseAgrees'
  BY <1>1, MovesKeepThePhase
<1>5. OneActiveRoot'
  BY <1>1, MovesKeepTheSlot DEF OneActiveRoot
<1> QED BY <1>2, <1>3, <1>4, <1>5 DEF LedgersKept, RootsMove

\* One root is written, active only if no other one is.
LEMMA PlacedRootKeepsTheSlot ==
    ASSUME ArbiterInv, OpsMove, NEW r \in Roots, NEW row \in RootRow,
           roots' = [roots EXCEPT ![r] = row], operations'[r] # NoRow,
           row.state = RootInitial => ~row.dispatching /\ ~row.dispatched,
           IsActive(row) => ActiveRoots \subseteq {r}
    PROVE  LedgersKept
<1>1. TypeOK /\ PhaseAgrees /\ OneActiveRoot
  BY DEF ArbiterInv
<1>2. \A s \in Roots : roots'[s] = IF s = r THEN row ELSE roots[s]
  BY <1>1 DEF TypeOK
<1>3. roots' \in [Roots -> RootRow \cup {NoRow}]
  BY <1>1 DEF TypeOK
<1>4. \A s \in Roots : Admitted(s) => roots'[s] # NoRow
  BY <1>2, NoRowIsNoRecord DEF Admitted
<1>5. \A s \in Roots : roots'[s] # NoRow => operations'[s] # NoRow
  <2> SUFFICES ASSUME NEW s \in Roots, s # r, roots'[s] # NoRow PROVE operations'[s] # NoRow
    OBVIOUS
  <2>1. Registered(s)
    BY <1>2 DEF ArbiterInv, Grounded, Admitted
  <2> QED BY <2>1 DEF OpsMove, Ops
<1>6. PhaseAgrees'
  BY <1>1, <1>2 DEF PhaseAgrees, Admitted
<1>7. ASSUME NEW s \in Roots, s # r PROVE s \in ActiveRoots' => s \in ActiveRoots
  BY <1>2, <1>7 DEF ActiveRoots, RootMatches, Admitted
<1>8. r \in ActiveRoots' => IsActive(row)
  BY <1>2, ActiveSelects DEF ActiveRoots, RootMatches, IsActive
<1>9. OneActiveRoot'
  <2> SUFFICES ASSUME NEW p \in ActiveRoots', NEW q \in ActiveRoots' PROVE p = q
    BY DEF OneActiveRoot
  <2>1. p \in Roots /\ q \in Roots
    BY DEF ActiveRoots
  <2> QED BY <1>1, <1>7, <1>8, <2>1 DEF OneActiveRoot
<1> QED BY <1>3, <1>4, <1>5, <1>6, <1>9 DEF LedgersKept

\* The row admission leaves: the root as it was, or a new one.
LEMMA AdmittedRow ==
    ASSUME ArbiterInv, NEW r \in Roots
    PROVE  LET row == IF Admitted(r) THEN roots[r] ELSE NewRoot IN
           /\ row \in RootRow
           /\ row.state = RootInitial => ~row.dispatching /\ ~row.dispatched
           /\ IsActive(row) => ActiveRoots \subseteq {r}
<1>1. CASE Admitted(r)
  <2>1. roots[r] \in RootRow /\ TypeOK
    BY <1>1, RowsAreRows DEF ArbiterInv
  <2>2. IsActive(roots[r]) => r \in ActiveRoots
    BY <2>1, ActiveIsActive
  <2> QED BY <1>1, <2>1, <2>2 DEF ArbiterInv, PhaseAgrees, OneActiveRoot
<1>2. CASE ~Admitted(r)
  BY <1>2, NewRootIsTyped, InitialFlags DEF IsActive, RootFlags
<1> QED BY <1>1, <1>2

LEMMA AdmissionKeepsTheLedgers ==
    ASSUME ArbiterInv, NEW r \in Roots, ObserveAdmission(r) PROVE LedgersKept
<1> DEFINE row == IF Admitted(r) THEN roots[r] ELSE NewRoot
           operation == UpsertedOperation(r, row)
<1>1. /\ row \in RootRow
      /\ row.state = RootInitial => ~row.dispatching /\ ~row.dispatched
      /\ IsActive(row) => ActiveRoots \subseteq {r}
  BY AdmittedRow
<1>2. roots' = [roots EXCEPT ![r] = row] /\ operations' = [operations EXCEPT ![r] = operation]
  BY DEF ObserveAdmission
<1>3. TypeOK /\ r \in Ops
  BY DEF ArbiterInv, Ops
<1> HIDE DEF row
<1>4. operation \in OpRow
  BY <1>1, <1>3, UpsertedOperationIsTyped
<1> HIDE DEF operation
<1>5. OpsMove /\ operations'[r] = operation
  BY <1>2, <1>3, <1>4, OpWritten
<1>6. operations'[r] # NoRow
  BY <1>4, <1>5, NoRowIsNoRecord
<1> QED BY <1>1, <1>2, <1>5, <1>6, PlacedRootKeepsTheSlot

\* The root a permit is given for: out of the initial status whatever it was.
LEMMA OwningRootIsPlaced ==
    ASSUME NEW row \in RootRow, row.state = RootInitial => ~row.dispatching /\ ~row.dispatched,
           InitialPhase(row) => R!TransitionTarget(row.state, ToDispatching, Unmarked) # NULL
    PROVE  /\ OwningRoot(row) \in RootRow
           /\ OwningRoot(row).state = RootInitial =>
                 ~OwningRoot(row).dispatching /\ ~OwningRoot(row).dispatched
<1> DEFINE target == R!TransitionTarget(row.state, ToDispatching, Unmarked)
<1>1. ASSUME target # NULL, NEW increment \in {0, 1}
      PROVE  LET moved == MovedRoot(row, target, FALSE, increment) IN
             moved \in RootRow /\ moved.state # RootInitial
  <2>1. target \in RootStatuses /\ RootStates[target].initial = FALSE
    BY <1>1, RootTarget
  <2>2. target # RootInitial
    BY <2>1, InitialFlags DEF RootFlags
  <2>3. increment \in Nat
    OBVIOUS
  <2> QED BY <2>1, <2>2, <2>3, MovedRootIsTyped
<1>2. CASE target # NULL /\ OwningRoot(row) = MovedRoot(row, target, FALSE, 1)
  BY <1>1, <1>2
<1>3. CASE target # NULL /\ OwningRoot(row) = MovedRoot(row, target, FALSE, 0)
  BY <1>1, <1>3
<1>4. CASE OwningRoot(row) = row
  BY <1>4
<1> QED BY <1>2, <1>3, <1>4 DEF OwningRoot

LEMMA PrepareKeepsTheLedgers ==
    ASSUME ArbiterInv, NEW o \in JobOps, PrepareEgress(o)
    PROVE  /\ LedgersKept
           /\ operations'[o] # NoRow /\ roots'[RootOf(o)] # NoRow
           /\ egress' \subseteq Call
           /\ \A call \in egress' : call \in egress \/ call.op = o
<1> DEFINE r == RootOf(o)
           row == IF Admitted(r) THEN roots[r] ELSE NewRoot
           operation == UpsertedOperation(o, row)
           owner == OwningRoot(row)
           target == O!TransitionTarget(operation.state, ToDispatching, Automatic)
           sending == [MovedOperation(operation, target) EXCEPT !.generation = owner.generation]
<1>1. TypeOK /\ o \in Ops /\ r \in Roots /\ egress \subseteq Call
  BY RootOfIsRoot DEF ArbiterInv, TypeOK, JobOps, Ops, Roots
<1>2. /\ row \in RootRow
      /\ row.state = RootInitial => ~row.dispatching /\ ~row.dispatched
      /\ IsActive(row) => ActiveRoots \subseteq {r}
  BY <1>1, AdmittedRow
<1>3. operation \in OpRow
  BY <1>1, <1>2, UpsertedOperationIsTyped
<1>4. \/ /\ roots' = [roots EXCEPT ![r] = row]
         /\ operations' = [operations EXCEPT ![o] = operation]
         /\ egress' = egress
      \/ /\ MaySend(o, r, row)
         /\ roots' = [roots EXCEPT ![r] = owner]
         /\ \/ /\ operations' = [operations EXCEPT ![o] = operation]
               /\ egress' = egress
            \/ /\ target # NULL
               /\ operations' = [operations EXCEPT ![o] = sending]
               /\ egress' = egress \cup
                     {[op |-> o, generation |-> owner.generation, wire |-> "pending"]}
  BY DEF PrepareEgress
<1>5. ASSUME MaySend(o, r, row)
      PROVE  /\ owner \in RootRow /\ owner.generation \in Nat
             /\ owner.state = RootInitial => ~owner.dispatching /\ ~owner.dispatched
             /\ ActiveRoots \subseteq {r}
  <2>1. InitialPhase(row) => R!TransitionTarget(row.state, ToDispatching, Unmarked) # NULL
    BY <1>5 DEF MaySend
  <2>2. ActiveRoots \subseteq {r}
    BY <1>5 DEF MaySend
  <2>3. /\ owner \in RootRow
        /\ owner.state = RootInitial => ~owner.dispatching /\ ~owner.dispatched
    BY <1>2, <2>1, OwningRootIsPlaced
  <2> QED BY <2>2, <2>3 DEF RootRow
<1>6. ASSUME MaySend(o, r, row), target # NULL PROVE sending \in OpRow
  <2>1. MovedOperation(operation, target) \in OpRow
    BY <1>3, <1>6, OpTarget, MovedOperationIsTyped
  <2> QED BY <1>5, <1>6, <2>1 DEF OpRow
<1> HIDE DEF row, operation, owner, sending, target
<1>7. OpsMove /\ operations'[o] # NoRow
  BY <1>1, <1>3, <1>4, <1>6, OpWritten, NoRowIsNoRecord
<1>8. operations'[r] # NoRow
  <2>1. CASE o \in Children
    <3>1. Admitted(r)
      BY <2>1 DEF PrepareEgress
    <3> QED BY <1>1, <1>7, <3>1 DEF ArbiterInv, Grounded, OpsMove, Ops
  <2>2. CASE o \notin Children
    BY <1>7, <2>2 DEF RootOf
  <2> QED BY <2>1, <2>2
<1>9. LedgersKept /\ roots'[r] # NoRow
  <2>1. CASE roots' = [roots EXCEPT ![r] = row]
    <3>1. LedgersKept
      BY <1>1, <1>2, <1>7, <1>8, <2>1, PlacedRootKeepsTheSlot
    <3> QED BY <1>1, <1>2, <2>1, <3>1, NoRowIsNoRecord DEF TypeOK
  <2>2. CASE MaySend(o, r, row) /\ roots' = [roots EXCEPT ![r] = owner]
    <3>1. LedgersKept
      BY <1>1, <1>5, <1>7, <1>8, <2>2, PlacedRootKeepsTheSlot
    <3> QED BY <1>1, <1>5, <2>2, <3>1, NoRowIsNoRecord DEF TypeOK
  <2> QED BY <1>4, <2>1, <2>2
<1>10. egress' \subseteq Call /\ \A call \in egress' : call \in egress \/ call.op = o
  <2>1. CASE egress' = egress
    BY <1>1, <2>1
  <2>2. CASE /\ MaySend(o, r, row)
             /\ egress' = egress \cup
                   {[op |-> o, generation |-> owner.generation, wire |-> "pending"]}
    BY <1>1, <1>5, <2>2 DEF Call
  <2> QED BY <1>4, <2>1, <2>2
<1> QED BY <1>7, <1>9, <1>10

-----------------------------------------------------------------------------
(* The invariant is inductive. *)

\* An operation in flight is in the ledgers after the step.
Standing(o) == operations'[o] # NoRow /\ roots'[RootOf(o)] # NoRow
QueuesKept ==
    /\ egress' \subseteq Call /\ \A call \in egress' : Standing(call.op)
    /\ waiters' \subseteq Permit /\ \A permit \in waiters' : Standing(permit.op)
    /\ phone' \subseteq Frame /\ \A frame \in phone' : Standing(frame.op)
RecordsKept ==
    /\ jobRows' \in [Jobs -> {"open", "cancelling", "cancelled", "expiring", "expired"}]
    /\ workflowRows' \in [Workflows -> {"queued", "running"} \cup Ends]
    /\ executor' \in [Workflows -> {"idle", "loaded", "admitted", "stepping", "completing", "failing"}]

LEMMA KeptIsInvariant ==
    ASSUME LedgersKept, QueuesKept, RecordsKept PROVE ArbiterInv'
<1>1. TypeOK'
  BY DEF TypeOK, LedgersKept, OpsMove, QueuesKept, RecordsKept
<1>2. Grounded'
  BY DEF Grounded, LedgersKept, QueuesKept, Standing, Admitted, Registered
<1> QED BY <1>1, <1>2 DEF ArbiterInv, LedgersKept

\* What was in flight keeps standing.
LEMMA FlightsStand ==
    ASSUME ArbiterInv, LedgersKept
    PROVE  /\ \A call \in egress : Standing(call.op)
           /\ \A permit \in waiters : Standing(permit.op)
           /\ \A frame \in phone : Standing(frame.op)
<1>1. ASSUME NEW o \in JobOps, Registered(o), Admitted(RootOf(o)) PROVE Standing(o)
  <2>1. o \in Ops /\ RootOf(o) \in Roots
    BY RootOfIsRoot DEF JobOps, Ops, Roots
  <2> QED BY <1>1, <2>1 DEF LedgersKept, OpsMove, Standing
<1> QED BY <1>1 DEF ArbiterInv, TypeOK, Grounded, Call, Permit, Frame

LEMMA FewerFlights ==
    ASSUME ArbiterInv, LedgersKept, egress' \subseteq egress, waiters' \subseteq waiters,
           phone' \subseteq phone
    PROVE  QueuesKept
  BY FlightsStand DEF QueuesKept, ArbiterInv, TypeOK

LEMMA SameRecords == ASSUME ArbiterInv, UNCHANGED records PROVE RecordsKept
  BY DEF ArbiterInv, TypeOK, RecordsKept, records

LEMMA SameLedgers == ASSUME ArbiterInv, UNCHANGED ledgers PROVE LedgersKept
  BY NothingMoves, MovesKeepTheLedgers DEF ArbiterInv

\* The executor and the dispatcher write their own records.
LEMMA RecordSteps ==
    ASSUME ArbiterInv,
           \/ \E w \in Workflows : \/ RunWorkflow(w) \/ MarkRunning(w) \/ MarkCompleted(w)
                                   \/ CloseWorkflowRow(w) \/ \E last \in BOOLEAN : AttemptFails(w, last)
           \/ \E j \in Jobs, how \in {"cancelling", "expiring"} : EndJobRow(j, how)
    PROVE  ArbiterInv'
<1>1. UNCHANGED <<ledgers, egress, waiters, phone>>
  BY DEF RunWorkflow, MarkRunning, MarkCompleted, CloseWorkflowRow, AttemptFails, EndJobRow
<1>2. LedgersKept
  BY <1>1, SameLedgers
<1>3. QueuesKept
  BY <1>1, <1>2, FewerFlights
<1>4. TypeOK
  BY DEF ArbiterInv
<1>5. RecordsKept
  <2>1. ASSUME NEW w \in Workflows, RunWorkflow(w) PROVE RecordsKept
    BY <1>4, <2>1 DEF RunWorkflow, RecordsKept, TypeOK
  <2>2. ASSUME NEW w \in Workflows, MarkRunning(w) PROVE RecordsKept
    BY <1>4, <2>2 DEF MarkRunning, RecordsKept, TypeOK
  <2>3. ASSUME NEW w \in Workflows, MarkCompleted(w) PROVE RecordsKept
    BY <1>4, <2>3 DEF MarkCompleted, RecordsKept, TypeOK, Ends
  <2>4. ASSUME NEW w \in Workflows, CloseWorkflowRow(w) PROVE RecordsKept
    BY <1>4, <2>4 DEF CloseWorkflowRow, RecordsKept, TypeOK, Ends
  <2>5. ASSUME NEW w \in Workflows, NEW last \in BOOLEAN, AttemptFails(w, last) PROVE RecordsKept
    BY <1>4, <2>5 DEF AttemptFails, RecordsKept, TypeOK, Ends
  <2>6. ASSUME NEW j \in Jobs, NEW how \in {"cancelling", "expiring"}, EndJobRow(j, how)
        PROVE  RecordsKept
    BY <1>4, <2>6 DEF EndJobRow, RecordsKept, TypeOK
  <2> QED BY <2>1, <2>2, <2>3, <2>4, <2>5, <2>6
<1> QED BY <1>2, <1>3, <1>5, KeptIsInvariant

LEMMA AdmissionSteps ==
    ASSUME ArbiterInv,
           \/ \E j \in Jobs : AdmitJob(j)
           \/ \E w \in Workflows : AdmitWorkflow(w)
    PROVE  ArbiterInv'
<1>1. ASSUME NEW j \in Jobs, AdmitJob(j) PROVE ArbiterInv'
  <2>1. LedgersKept
    BY <1>1, AdmissionKeepsTheLedgers DEF AdmitJob, Roots
  <2>2. QueuesKept
    BY <1>1, <2>1, FewerFlights DEF AdmitJob, ObserveAdmission
  <2>3. RecordsKept
    BY <1>1, SameRecords DEF AdmitJob
  <2> QED BY <2>1, <2>2, <2>3, KeptIsInvariant
<1>2. ASSUME NEW w \in Workflows, AdmitWorkflow(w) PROVE ArbiterInv'
  <2>1. LedgersKept
    BY <1>2, AdmissionKeepsTheLedgers DEF AdmitWorkflow, Roots
  <2>2. QueuesKept
    BY <1>2, <2>1, FewerFlights DEF AdmitWorkflow, ObserveAdmission
  <2>3. RecordsKept
    BY <1>2 DEF AdmitWorkflow, RecordsKept, ArbiterInv, TypeOK
  <2> QED BY <2>1, <2>2, <2>3, KeptIsInvariant
<1> QED BY <1>1, <1>2

LEMMA PrepareSteps ==
    ASSUME ArbiterInv, NEW o \in JobOps, PrepareEgress(o) PROVE ArbiterInv'
<1>1. /\ LedgersKept /\ Standing(o) /\ egress' \subseteq Call
      /\ \A call \in egress' : call \in egress \/ call.op = o
  BY PrepareKeepsTheLedgers DEF Standing
<1>2. UNCHANGED <<waiters, phone, records>>
  BY DEF PrepareEgress
<1>3. QueuesKept
  BY <1>1, <1>2, FlightsStand DEF QueuesKept, ArbiterInv, TypeOK
<1> QED BY <1>1, <1>2, <1>3, SameRecords, KeptIsInvariant

LEMMA WireSteps ==
    ASSUME ArbiterInv, NEW call \in egress, NEW sent \in BOOLEAN, WireDispatch(call, sent)
    PROVE  ArbiterInv'
<1>1. LedgersKept /\ RecordsKept
  BY SameLedgers, SameRecords DEF WireDispatch
<1>2. call \in Call /\ Standing(call.op)
  BY <1>1, FlightsStand DEF ArbiterInv, TypeOK
<1>3. QueuesKept
  <2>1. PermitOf(call) \in Permit /\ PermitOf(call).op = call.op
    BY <1>2 DEF PermitOf, Permit, Call
  <2> DEFINE after == [call EXCEPT !.wire = IF sent THEN "sent" ELSE "failed"]
             frame == [op |-> call.op, generation |-> call.generation, status |-> "executing"]
  <2>2. after \in Call /\ after.op = call.op
    BY <1>2 DEF Call
  <2>3. frame \in Frame /\ frame.op = call.op
    BY <1>2 DEF Frame, Call
  <2> HIDE DEF after, frame
  <2>4. /\ waiters' = waiters \cup {PermitOf(call)}
        /\ egress' = (egress \ {call}) \cup {after}
        /\ phone' = IF sent THEN phone \cup {frame} ELSE phone
    BY DEF WireDispatch, after, frame
  <2>5. /\ \A c \in egress' : c \in Call /\ Standing(c.op)
        /\ \A p \in waiters' : p \in Permit /\ Standing(p.op)
        /\ \A f \in phone' : f \in Frame /\ Standing(f.op)
    BY <1>1, <1>2, <2>1, <2>2, <2>3, <2>4, FlightsStand DEF ArbiterInv, TypeOK
  <2> QED BY <2>5 DEF QueuesKept
<1> QED BY <1>1, <1>3, KeptIsInvariant

LEMMA PhoneSteps ==
    ASSUME ArbiterInv, NEW frame \in phone, NEW status \in {"succeeded", "failed"},
           PhoneFinishes(frame, status)
    PROVE  ArbiterInv'
<1>1. LedgersKept /\ RecordsKept
  BY SameLedgers, SameRecords DEF PhoneFinishes
<1>2. frame \in Frame /\ Standing(frame.op)
  BY <1>1, FlightsStand DEF ArbiterInv, TypeOK
<1> DEFINE after == [frame EXCEPT !.status = status]
<1>3. after \in Frame /\ after.op = frame.op
  BY <1>2 DEF Frame
<1> HIDE DEF after
<1>4. phone' = (phone \ {frame}) \cup {after} /\ UNCHANGED <<egress, waiters>>
  BY DEF PhoneFinishes, after
<1>5. \A f \in phone' : f \in Frame /\ Standing(f.op)
  BY <1>1, <1>2, <1>3, <1>4, FlightsStand DEF ArbiterInv, TypeOK
<1>6. QueuesKept
  BY <1>1, <1>4, <1>5, FlightsStand DEF QueuesKept, ArbiterInv, TypeOK
<1> QED BY <1>1, <1>6, KeptIsInvariant

\* The other steps move roots and operations and start nothing.
MovingStep ==
    \/ \E call \in egress : CompleteEgress(call)
    \/ \E frame \in phone : AcceptJobResult(frame)
    \/ \E j \in Jobs : ObserveCancelled(j) \/ MarkTimedOut(j)
    \/ \E permit \in waiters : WaiterLost(permit) \/ ExpireServerWorkflowChild(permit)
    \/ \E w \in Workflows, successful \in BOOLEAN : FinishServerWorkflowRoot(w, successful)
    \/ \E w \in Workflows : CancelQueuedPersistedWorkflow(w)
    \/ \E settled \in SUBSET Children : ReconcileTerminalWorkflowRoots(settled)
    \/ \E settled \in SUBSET Children : \E unstarted \in SUBSET settled :
          Restart(settled, unstarted)
Moved == /\ RootsMove /\ OpsMove /\ RecordsKept
         /\ egress' \subseteq egress /\ waiters' \subseteq waiters /\ phone' \subseteq phone

LEMMA MovingStepsMove == ASSUME ArbiterInv, MovingStep PROVE Moved
<1>t. TypeOK
  BY DEF ArbiterInv
<1> USE DEF Moved
<1>1. ASSUME NEW call \in egress, CompleteEgress(call) PROVE Moved
  BY <1>1, CompletionMoves, SameRecords DEF CompleteEgress
<1>2. ASSUME NEW frame \in phone, AcceptJobResult(frame) PROVE Moved
  BY <1>2, ResultMoves, SameRecords DEF AcceptJobResult
<1>3. ASSUME NEW j \in Jobs, ObserveCancelled(j) PROVE Moved
  <2>1. RecordsKept
    BY <1>t, <1>3 DEF ObserveCancelled, RecordsKept, TypeOK
  <2> QED BY <1>3, <2>1, CancellationMoves DEF ObserveCancelled
<1>4. ASSUME NEW j \in Jobs, MarkTimedOut(j) PROVE Moved
  <2>1. RecordsKept
    BY <1>t, <1>4 DEF MarkTimedOut, RecordsKept, TypeOK
  <2>2. j \in Ops /\ (Admitted(RootOf(j)) => Registered(j))
    BY NameAssumption DEF ArbiterInv, Grounded, Ops, Roots, RootOf
  <2> QED BY <1>4, <2>1, <2>2, AmbiguityMoves DEF MarkTimedOut
<1>5. ASSUME NEW permit \in waiters, WaiterLost(permit) PROVE Moved
  <2>1. permit.op \in Ops /\ Registered(permit.op)
    BY <1>t DEF ArbiterInv, Grounded, TypeOK, Permit, JobOps, Ops, Roots
  <2> QED BY <1>5, <2>1, AmbiguityMoves, SameRecords DEF WaiterLost
<1>6. ASSUME NEW permit \in waiters, ExpireServerWorkflowChild(permit) PROVE Moved
  BY <1>6, ExpiryMoves, SameRecords DEF ExpireServerWorkflowChild
<1>7. ASSUME NEW w \in Workflows, NEW successful \in BOOLEAN, FinishServerWorkflowRoot(w, successful)
      PROVE  Moved
  <2>1. RecordsKept
    BY <1>t, <1>7 DEF FinishServerWorkflowRoot, RecordsKept, TypeOK
  <2> QED BY <1>7, <2>1, FinishMoves DEF FinishServerWorkflowRoot
<1>8. ASSUME NEW w \in Workflows, CancelQueuedPersistedWorkflow(w) PROVE Moved
  <2>1. RecordsKept
    BY <1>t, <1>8 DEF CancelQueuedPersistedWorkflow, RecordsKept, TypeOK, Ends
  <2> QED BY <1>8, <2>1, CancelQueuedMoves DEF CancelQueuedPersistedWorkflow
<1>9. ASSUME NEW settled, ReconcileTerminalWorkflowRoots(settled) PROVE Moved
  <2>1. \A r \in Roots : RootChange(roots[r], roots[r])
    BY DEF RootChange
  <2>2. \A o \in Ops : Registered(o) => operations[o] # NoRow
    BY DEF Registered
  <2>3. Repaired(roots, operations, settled, {}) /\ UNCHANGED <<egress, waiters, phone, jobRows, executor>>
    BY <1>9 DEF ReconcileTerminalWorkflowRoots
  <2>4. /\ RootsMove /\ OpsMove
        /\ workflowRows' \in [Workflows -> {"queued", "running"} \cup Ends]
    BY <1>t, <2>1, <2>2, <2>3, RepairMoves DEF TypeOK
  <2> QED BY <1>t, <2>3, <2>4 DEF RecordsKept, TypeOK
<1>10. ASSUME NEW settled, NEW unstarted, Restart(settled, unstarted) PROVE Moved
  <2>1. /\ RootsMove /\ OpsMove
        /\ workflowRows' \in [Workflows -> {"queued", "running"} \cup Ends]
    BY <1>10, RestartMoves
  <2>2. RecordsKept
    BY <1>t, <1>10, <2>1 DEF Restart, RecordsKept, TypeOK
  <2> QED BY <1>10, <2>1, <2>2 DEF Restart
<1> HIDE DEF Moved
<1> QED BY <1>1, <1>2, <1>3, <1>4, <1>5, <1>6, <1>7, <1>8, <1>9, <1>10 DEF MovingStep

LEMMA MovingSteps == ASSUME ArbiterInv, MovingStep PROVE ArbiterInv'
<1>1. Moved
  BY MovingStepsMove
<1> QED BY <1>1, MovesKeepTheLedgers, FewerFlights, KeptIsInvariant DEF Moved

LEMMA InvariantInitially == Init => ArbiterInv
<1> SUFFICES ASSUME Init PROVE ArbiterInv
  OBVIOUS
<1>1. TypeOK
  BY DEF Init, TypeOK
<1>2. \A r \in Roots : ~Admitted(r)
  BY DEF Init, Admitted
<1> QED BY <1>1, <1>2 DEF ArbiterInv, Grounded, PhaseAgrees, OneActiveRoot, ActiveRoots, RootMatches, Init

LEMMA InvariantStep == ArbiterInv /\ [Next]_vars => ArbiterInv'
<1> SUFFICES ASSUME ArbiterInv, [Next]_vars PROVE ArbiterInv'
  OBVIOUS
<1>1. CASE UNCHANGED vars
  <2>1. LedgersKept /\ RecordsKept
    BY <1>1, SameLedgers, SameRecords DEF vars, ledgers, records
  <2>2. QueuesKept
    BY <1>1, <2>1, FewerFlights DEF vars
  <2> QED BY <2>1, <2>2, KeptIsInvariant
<1>2. CASE Next
  BY <1>2, RecordSteps, AdmissionSteps, PrepareSteps, WireSteps, PhoneSteps, MovingSteps DEF Next, MovingStep
<1> QED BY <1>1, <1>2

\* The strengthened invariant of the arbiter: the ledgers' types, their agreement
\* with what is in flight, the phases, and one active root.
THEOREM ArbiterInvariant == Spec => []ArbiterInv
  BY InvariantInitially, InvariantStep, PTL DEF Spec

\* Every row of the ledgers, every call, waiter and frame stays well formed; no
\* update of the arbiter writes a NULL status.
THEOREM ArbiterTypeCorrect == Spec => []TypeOK
<1>1. ArbiterInv => TypeOK
  BY DEF ArbiterInv
<1> QED BY <1>1, ArbiterInvariant, PTL

\* At most one root holds the device, for any number of jobs, workflows and
\* children and any configured lifecycles, without the dropped unique index.
THEOREM OneActiveRootAlways == Spec => []OneActiveRoot
<1>1. ArbiterInv => OneActiveRoot
  BY DEF ArbiterInv
<1> QED BY <1>1, ArbiterInvariant, PTL
==============================================================================
