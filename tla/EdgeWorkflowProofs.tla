------------------------- MODULE EdgeWorkflowProofs -------------------------
(***************************************************************************)
(* Proofs about EdgeWorkflow, for every set of workflows and pumps, every   *)
(* bound, and every workflow lifecycle that meets EdgeAssumption,           *)
(* EndAssumption and VerdictAssumption.                                     *)
(***************************************************************************)
EXTENDS EdgeWorkflow, TLAPS

-----------------------------------------------------------------------------
(* What the lifecycle offers. *)

LEMMA LifecycleTypes ==
    /\ StateDefinitions \in [Statuses -> W!StateFlags]
    /\ Transitions \subseteq W!TransitionRow
    /\ NULL \notin Statuses
  BY EdgeAssumption DEF W!LifecycleAssumption

LEMMA TransitionStatuses ==
    \A t \in Transitions : t.from_status \in Statuses /\ t.to_status \in Statuses
  BY LifecycleTypes DEF W!TransitionRow

LEMMA MatchesState ==
    ASSUME NEW w, NEW flag, NEW selector, flag \in DOMAIN selector, InState(w, selector)
    PROVE  rows[w].status \in Statuses /\ StateDefinitions[rows[w].status][flag] = selector[flag]
  BY DEF InState, W!StateMatches, W!Satisfies

LEMMA TerminalRow ==
    ASSUME NEW w
    PROVE  Terminal(w) <=> rows[w].status \in Statuses /\ Ended(rows[w].status)
<1> DEFINE selector == [terminal |-> TRUE]
<1>1. DOMAIN selector = {"terminal"} /\ selector["terminal"] = TRUE
  OBVIOUS
<1>2. Terminal(w) <=> rows[w].status \in Statuses /\ W!StateMatches(rows[w].status, selector)
  BY DEF Terminal, InState
<1> HIDE DEF selector
<1>3. W!StateMatches(rows[w].status, selector)
        <=> rows[w].status \in Statuses /\ StateDefinitions[rows[w].status]["terminal"] = TRUE
  BY <1>1 DEF W!StateMatches, W!Satisfies
<1>4. rows[w].status \in Statuses => Ended(rows[w].status) \in BOOLEAN
  BY LifecycleTypes DEF Ended, W!StateFlags
<1> QED BY <1>2, <1>3, <1>4 DEF Ended

LEMMA QueuedRow ==
    ASSUME NEW w, Queued(w)
    PROVE  rows[w].status \in Statuses /\ ~Ended(rows[w].status)
<1> DEFINE selector == [initial |-> TRUE]
<1>1. "initial" \in DOMAIN selector /\ selector["initial"] = TRUE
  OBVIOUS
<1>2. InState(w, selector)
  BY DEF Queued
<1> HIDE DEF selector
<1>3. rows[w].status \in Statuses /\ StateDefinitions[rows[w].status]["initial"] = TRUE
  BY <1>1, <1>2, MatchesState
<1> QED BY <1>3, EdgeAssumption

\* A move follows a transition out of the row's status to a status of the target kind.
LEMMA MoveFollowsTransition ==
    ASSUME NEW w, NEW target, NEW edge, Moves(w, target, edge)
    PROVE  \E t \in Transitions :
              /\ t.from_status = rows[w].status
              /\ t.to_status = W!TransitionTarget(rows[w].status, target, edge)
              /\ W!Satisfies(StateDefinitions[t.to_status], target)
<1> DEFINE matching == W!MatchingTransitions(rows[w].status, target, edge)
           t == CHOOSE t \in matching : TRUE
<1>1. matching # {} /\ W!TransitionTarget(rows[w].status, target, edge) = t.to_status
  BY DEF Moves, W!HasTarget, W!TransitionTarget
<1>2. t \in matching
  BY <1>1
<1> QED BY <1>1, <1>2 DEF W!MatchingTransitions

LEMMA RunningTarget ==
    ASSUME NEW s \in Statuses, W!Satisfies(StateDefinitions[s], ToRunning)
    PROVE  ~Ended(s)
<1>1. "terminal" \in DOMAIN ToRunning /\ ToRunning["terminal"] = FALSE
  BY DEF ToRunning
<1> QED BY <1>1 DEF W!Satisfies, Ended

LEMMA FailedTarget ==
    ASSUME NEW s \in Statuses, W!Satisfies(StateDefinitions[s], ToFailed)
    PROVE  Ended(s) /\ s = "failed"
<1>1. /\ {"terminal", "retryable", "administrative"} \subseteq DOMAIN ToFailed
      /\ ToFailed["terminal"] = TRUE /\ ToFailed["retryable"] = TRUE
      /\ ToFailed["administrative"] = FALSE
  BY DEF ToFailed
<1>2. /\ StateDefinitions[s]["terminal"] = TRUE /\ StateDefinitions[s]["retryable"] = TRUE
      /\ StateDefinitions[s]["administrative"] = FALSE
  BY <1>1 DEF W!Satisfies
<1> QED BY <1>2, EndAssumption DEF Ended

LEMMA CancelledTarget ==
    ASSUME NEW s \in Statuses, W!Satisfies(StateDefinitions[s], ToCancelled)
    PROVE  Ended(s) /\ s = "cancelled"
<1>1. /\ {"terminal", "administrative"} \subseteq DOMAIN ToCancelled
      /\ ToCancelled["terminal"] = TRUE /\ ToCancelled["administrative"] = TRUE
  BY DEF ToCancelled
<1>2. StateDefinitions[s]["terminal"] = TRUE /\ StateDefinitions[s]["administrative"] = TRUE
  BY <1>1 DEF W!Satisfies
<1> QED BY <1>2, EndAssumption DEF Ended

LEMMA EndsOfRoots == \A s \in Statuses : Ended(s) => s \in RootEnds
  BY EndAssumption DEF RootEnds

-----------------------------------------------------------------------------
(* What a step may do to a workflow's row. *)

\* The server moves a row along a transition: to a status that has not ended, to the
\* failed one, or from an open row to the cancelled one.
ServerMove(w, row) ==
    \E t \in Transitions :
        /\ t.from_status = rows[w].status
        /\ row = [rows[w] EXCEPT !.status = t.to_status]
        /\ Ended(t.to_status) => \/ t.to_status = "failed"
                                 \/ t.to_status = "cancelled" /\ ~Ended(t.from_status)
MayMove(w, target, edge) ==
    \/ target = ToRunning \/ target = ToFailed
    \/ target = ToCancelled /\ Queued(w)

LEMMA MovedRows ==
    ASSUME rows \in [Workflows -> Row], NEW w \in Workflows, NEW target, NEW edge,
           MayMove(w, target, edge)
    PROVE  \/ /\ ~Moves(w, target, edge) /\ Moved(w, target, edge) = rows
           \/ /\ Moves(w, target, edge)
              /\ \E row : /\ ServerMove(w, row) /\ (target = ToFailed => row.status = "failed")
                          /\ Moved(w, target, edge) = [rows EXCEPT ![w] = row]
<1>1. CASE ~Moves(w, target, edge)
  BY <1>1 DEF Moved
<1>2. CASE Moves(w, target, edge)
  <2>1. PICK t \in Transitions :
              /\ t.from_status = rows[w].status
              /\ t.to_status = W!TransitionTarget(rows[w].status, target, edge)
              /\ W!Satisfies(StateDefinitions[t.to_status], target)
    BY <1>2, MoveFollowsTransition
  <2>2. t.from_status \in Statuses /\ t.to_status \in Statuses
    BY TransitionStatuses
  <2>3. /\ target = ToFailed => t.to_status = "failed"
        /\ Ended(t.to_status) => \/ t.to_status = "failed"
                                 \/ t.to_status = "cancelled" /\ ~Ended(t.from_status)
    BY <2>1, <2>2, RunningTarget, FailedTarget, CancelledTarget, QueuedRow DEF MayMove
  <2> DEFINE row == [rows[w] EXCEPT !.status = t.to_status]
  <2>4. Moved(w, target, edge) = [rows EXCEPT ![w] = row]
    BY <1>2, <2>1 DEF Moved
  <2>5. ServerMove(w, row) /\ row.status = t.to_status
    BY <2>1, <2>3 DEF ServerMove, Row
  <2> QED BY <1>2, <2>3, <2>4, <2>5
<1> QED BY <1>1, <1>2

\* The other steps on a row: its creation, and a status of the phone.
NewRow(row) ==
    \E s \in Statuses : /\ StateDefinitions[s].initial
                        /\ row = [status |-> s, acked |-> FALSE, stamp |-> 0]
Reported(h) == [status |-> h.report.status, acked |-> TRUE, stamp |-> h.report.id]

LEMMA CreatedRow ==
    ASSUME rows \in [Workflows -> Row], NEW w \in Workflows, Create(w)
    PROVE  \E row : NewRow(row) /\ rows' = [rows EXCEPT ![w] = row]
<1> DEFINE s == CHOOSE s \in Statuses : StateDefinitions[s].initial
<1>1. s \in Statuses /\ StateDefinitions[s].initial
  BY EdgeAssumption
<1>2. rows' = [rows EXCEPT ![w] = [status |-> s, acked |-> FALSE, stamp |-> 0]]
  BY DEF Create
<1> HIDE DEF s
<1> QED BY <1>1, <1>2 DEF NewRow

-----------------------------------------------------------------------------
(* Types. *)

Dispatchers == Workflows \cup Pumps
PhoneStates == Statuses \cup {"idle", "given", "stopped"}
InTransit == {"fetched", "ready", "sent", "unsent", "mark"}
Begun(w) == procs[w].phase \notin {"idle", "created"}

\* What the world and the phone keep, beside TypeOK.
WorldTyped ==
    /\ phone \in [Workflows -> PhoneStates] /\ frames \in [Workflows -> Nat]
    /\ reports \in [Workflows -> 0 .. MaxReports]
    /\ occupied \in BOOLEAN /\ online \in BOOLEAN /\ up \in BOOLEAN
    /\ drops \in Nat /\ crashes \in Nat

\* A task dispatches its own workflow; a dispatcher between its steps has a workflow
\* whose task has begun, and so have roots, handles and status handlers.
Started ==
    /\ \A w \in Workflows : procs[w].on = w
    /\ \A p \in Dispatchers : procs[p].phase \in InTransit =>
          procs[p].on \in Workflows /\ Begun(procs[p].on)
    /\ \A w \in Workflows : ~Begun(w) =>
          rows[w].status = NULL /\ roots[w] = "none" /\ w \notin pending
    /\ \A h \in handlers : Begun(h.report.workflow)
    /\ \A h \in handlers : h.phase = "observe" => Ended(h.report.status)

Typed == TypeOK /\ WorldTyped /\ Started

LEMMA ServerMoveRow ==
    ASSUME NEW w \in Workflows, rows[w] \in Row, NEW row, ServerMove(w, row)
    PROVE  /\ row \in Row /\ row.acked = rows[w].acked /\ row.stamp = rows[w].stamp
           /\ rows[w].status \in Statuses /\ row.status \in Statuses
<1>1. PICK t \in Transitions : /\ t.from_status = rows[w].status
                               /\ row = [rows[w] EXCEPT !.status = t.to_status]
  BY DEF ServerMove
<1>2. t.from_status \in Statuses /\ t.to_status \in Statuses
  BY TransitionStatuses
<1> QED BY <1>1, <1>2 DEF Row

LEMMA NewRowTyped == ASSUME NEW row, NewRow(row) PROVE row \in Row /\ row.status \in Statuses
<1>1. 0 \in 0 .. MaxReports
  BY EdgeAssumption
<1> QED BY <1>1 DEF NewRow, Row

LEMMA InitTyped == Init => Typed
<1> SUFFICES ASSUME Init PROVE Typed
  OBVIOUS
<1>1. NULL \notin Statuses /\ 0 \in 0 .. MaxReports
  BY LifecycleTypes, EdgeAssumption
<1>2. TypeOK
  BY <1>1 DEF Init, TypeOK, Row, RootStates, Proc, Phases
<1>3. WorldTyped
  BY <1>1 DEF Init, WorldTyped, PhoneStates
<1>4. Started
  BY DEF Init, Started, Begun, Dispatchers, InTransit
<1> QED BY <1>2, <1>3, <1>4 DEF Typed
\* A dispatcher's step moves its record, and its task stays begun.
ProcStep(p, proc) ==
    /\ procs' = [procs EXCEPT ![p] = proc]
    /\ proc \in Proc
    /\ p \in Workflows => /\ proc.on = p
                          /\ Begun(p) => proc.phase \notin {"idle", "created"}
    /\ proc.phase \in InTransit => proc.on \in Workflows /\ (Begun(proc.on) \/ proc.on = p)

LEMMA ProcTyped ==
    ASSUME Typed, NEW p \in Dispatchers, NEW proc, ProcStep(p, proc)
    PROVE  /\ procs' \in [Dispatchers -> Proc]
           /\ \A w \in Workflows : procs'[w].on = w /\ (Begun(w) => Begun(w)')
           /\ \A q \in Dispatchers : procs'[q].phase \in InTransit =>
                 procs'[q].on \in Workflows /\ Begun(procs[q].on)'
<1>1. procs \in [Dispatchers -> Proc]
  BY DEF Typed, TypeOK, Dispatchers
<1>2. procs' \in [Dispatchers -> Proc]
  BY <1>1 DEF ProcStep
<1>3. \A q \in Dispatchers : procs'[q] = IF q = p THEN proc ELSE procs[q]
  BY <1>1 DEF ProcStep
<1>4. Workflows \subseteq Dispatchers
  BY DEF Dispatchers
<1>5. \A w \in Workflows : procs'[w].on = w /\ (Begun(w) => Begun(w)')
  BY <1>3, <1>4 DEF Typed, Started, ProcStep, Begun
<1>6. ASSUME NEW q \in Dispatchers, procs'[q].phase \in InTransit
      PROVE  procs'[q].on \in Workflows /\ Begun(procs[q].on)'
  <2>1. CASE q = p
    <3>1. proc.phase \in InTransit /\ proc.on \in Workflows /\ (Begun(proc.on) \/ proc.on = p)
      BY <1>3, <1>6, <2>1 DEF ProcStep
    <3>2. CASE Begun(proc.on)
      BY <1>3, <1>5, <2>1, <3>1, <3>2
    <3>3. CASE proc.on = p
      BY <1>3, <2>1, <3>1, <3>3 DEF Begun, InTransit
    <3> QED BY <3>1, <3>2, <3>3
  <2>2. CASE q # p
    BY <1>3, <1>5, <1>6, <2>2 DEF Typed, Started
  <2> QED BY <2>1, <2>2
<1> QED BY <1>2, <1>5, <1>6

\* What the other parts of the invariant ask of such a step.
LEMMA DispatchTyped ==
    ASSUME Typed, NEW p \in Dispatchers, NEW proc, ProcStep(p, proc),
           rows' \in [Workflows -> Row], roots' \in [Workflows -> RootStates],
           lane' \in Seq(Workflows), pending' \subseteq Workflows, timers' \subseteq Workflows,
           \A w \in Workflows :
              /\ rows'[w] # rows[w] \/ roots'[w] # roots[w] => Begun(w)'
              /\ w \in pending' => w \in pending \/ Begun(w)',
           UNCHANGED <<handlers, sweep, releases, aged, reports, occupied, online, up,
                       drops, crashes>>,
           WorldTyped', \A w \in Workflows : frames'[w] > 0 <=> phone'[w] # "idle"
    PROVE  Typed'
<1>1. TypeOK'
  BY ProcTyped DEF Typed, TypeOK, Dispatchers
<1>2. Started'
  <2>1. \A w \in Workflows : ~Begun(w)' =>
           rows'[w].status = NULL /\ roots'[w] = "none" /\ w \notin pending'
    BY ProcTyped DEF Typed, Started
  <2>2. \A h \in handlers : h.report.workflow \in Workflows
    BY DEF Typed, TypeOK, Handler, Report
  <2>3. \A h \in handlers' : Begun(h.report.workflow)'
    BY <2>2, ProcTyped DEF Typed, Started
  <2> QED BY <2>1, <2>3, ProcTyped DEF Typed, Started
<1> QED BY <1>1, <1>2 DEF Typed

LEMMA ProcPhase ==
    ASSUME Typed, NEW p \in Dispatchers, NEW phase \in Phases, Goes(p, phase),
           p \in Workflows /\ Begun(p) => phase \notin {"idle", "created"},
           phase \in InTransit => procs[p].on \in Workflows /\ (Begun(procs[p].on) \/ procs[p].on = p)
    PROVE  ProcStep(p, [procs[p] EXCEPT !.phase = phase])
<1> DEFINE proc == [procs[p] EXCEPT !.phase = phase]
<1> SUFFICES ProcStep(p, proc)
  OBVIOUS
<1>1. procs[p] \in Proc /\ (p \in Workflows => procs[p].on = p)
  BY DEF Typed, TypeOK, Started, Dispatchers
<1>2. proc \in Proc /\ proc.on = procs[p].on /\ proc.phase = phase
  BY <1>1 DEF Proc
<1>3. procs' = [procs EXCEPT ![p] = proc]
  BY DEF Goes
<1> HIDE DEF proc
<1> QED BY <1>1, <1>2, <1>3 DEF ProcStep

LEMMA ProcDone ==
    ASSUME Typed, NEW w \in Workflows, NEW outcome \in Statuses \cup {NULL, "failed"},
           procs' = [procs EXCEPT ![w].phase = "done", ![w].outcome = outcome]
    PROVE  ProcStep(w, [procs[w] EXCEPT !.phase = "done", !.outcome = outcome])
<1> DEFINE proc == [procs[w] EXCEPT !.phase = "done", !.outcome = outcome]
<1> SUFFICES ProcStep(w, proc)
  OBVIOUS
<1>1. procs[w] \in Proc /\ procs[w].on = w /\ procs \in [Dispatchers -> Proc] /\ w \in Dispatchers
  BY DEF Typed, TypeOK, Started, Dispatchers
<1>2. proc \in Proc /\ proc.on = w /\ proc.phase = "done"
  BY <1>1 DEF Proc, Phases
<1>3. procs' = [procs EXCEPT ![w] = proc]
  BY <1>1
<1> HIDE DEF proc
<1> QED BY <1>2, <1>3 DEF ProcStep, InTransit

LEMMA TypedParts ==
    ASSUME Typed
    PROVE  /\ rows \in [Workflows -> Row] /\ roots \in [Workflows -> RootStates]
           /\ lane \in Seq(Workflows) /\ procs \in [Dispatchers -> Proc]
           /\ pending \subseteq Workflows /\ timers \subseteq Workflows
           /\ \A w \in Workflows : w \in Dispatchers /\ procs[w].on = w
  BY DEF Typed, TypeOK, Dispatchers, Started

LEMMA WorldStays ==
    ASSUME Typed, UNCHANGED world
    PROVE  /\ WorldTyped' /\ (\A w \in Workflows : frames'[w] > 0 <=> phone'[w] # "idle")
           /\ UNCHANGED <<reports, occupied, online, up, drops, crashes>>
  BY DEF Typed, TypeOK, WorldTyped, world

LEMMA FailsTyped ==
    ASSUME Typed, NEW w \in Workflows, Fails(w)
    PROVE  \E proc : ProcStep(w, proc)
  BY ProcDone DEF Fails

LEMMA TaskTyped ==
    ASSUME Typed, NEW w \in Workflows, Accept(w) \/ Create(w) \/ MarkFailed(w) \/ TaskEnds(w)
    PROVE  Typed'
<1> USE TypedParts, WorldStays
<1>1. CASE Accept(w)
  <2>1. UNCHANGED <<rows, roots, lane, pending, timers, handlers, sweep, releases, aged, world>>
    BY <1>1 DEF Accept, database
  <2>2. \E proc : ProcStep(w, proc)
    <3>1. CASE Goes(w, "created")
      <4>1. "created" \in Phases /\ "created" \notin InTransit /\ ~Begun(w)
        BY <1>1 DEF Accept, Phases, InTransit, Begun
      <4> QED BY <3>1, <4>1, ProcPhase
    <3>2. CASE Fails(w)
      BY <3>2, FailsTyped
    <3> QED BY <1>1, <3>1, <3>2 DEF Accept
  <2> QED BY <2>1, <2>2, DispatchTyped
<1>2. CASE Create(w)
  <2>1. UNCHANGED <<roots, lane, pending, timers, handlers, sweep, releases, aged, world>>
    BY <1>2 DEF Create
  <2>2. "fetched" \in Phases /\ "fetched" \in InTransit
    BY DEF Phases, InTransit
  <2>3. ProcStep(w, [procs[w] EXCEPT !.phase = "fetched"])
    BY <1>2, <2>2, ProcPhase DEF Create
  <2>4. Begun(w)'
    BY <1>2 DEF Create, Goes, Begun
  <2>5. PICK row : NewRow(row) /\ rows' = [rows EXCEPT ![w] = row]
    BY <1>2, CreatedRow
  <2>6. rows' \in [Workflows -> Row] /\ \A v \in Workflows : rows'[v] # rows[v] => v = w
    BY <2>5, NewRowTyped
  <2> QED BY <2>1, <2>3, <2>4, <2>6, DispatchTyped
<1>3. CASE MarkFailed(w)
  <2>1. UNCHANGED <<roots, lane, pending, timers, handlers, sweep, releases, aged, world>>
    BY <1>3 DEF MarkFailed
  <2>2. Begun(w) /\ \E proc : ProcStep(w, proc)
    BY <1>3, FailsTyped DEF MarkFailed, Begun
  <2>3. rows' \in [Workflows -> Row] /\ \A v \in Workflows : rows'[v] # rows[v] => v = w
    <3>1. rows' = Moved(w, ToFailed, Completing)
      BY <1>3 DEF MarkFailed
    <3> QED BY <3>1, MovedRows, ServerMoveRow DEF MayMove
  <2> QED BY <2>1, <2>2, <2>3, ProcTyped, DispatchTyped
<1>4. CASE TaskEnds(w)
  <2>1. UNCHANGED <<rows, roots, lane, pending, timers, handlers, sweep, releases, aged, world>>
    BY <1>4 DEF TaskEnds, database
  <2>2. \E proc : ProcStep(w, proc)
    <3>1. rows[w].status \in Statuses
      BY <1>4, TerminalRow DEF TaskEnds
    <3> QED BY <1>4, <3>1, ProcDone DEF TaskEnds
  <2> QED BY <2>1, <2>2, DispatchTyped
<1> QED BY <1>1, <1>2, <1>3, <1>4

LEMMA OnAWorkflow ==
    ASSUME Typed, NEW p \in Dispatchers, procs[p].phase \in InTransit
    PROVE  procs[p].on \in Workflows /\ Begun(procs[p].on) /\ (p \in Workflows => Begun(p))
  BY DEF Typed, Started, InTransit, Begun

LEMMA NextPhase ==
    ASSUME Typed, NEW p \in Dispatchers, procs[p].phase \in InTransit,
           \/ \E phase \in {"ready", "sent", "unsent", "mark", "waiting", "fail"} : Goes(p, phase)
           \/ p \in Pumps /\ Goes(p, "idle")
    PROVE  \E proc : ProcStep(p, proc)
<1>1. procs[p].on \in Workflows /\ Begun(procs[p].on)
  BY OnAWorkflow
<1>2. ASSUME NEW phase \in {"ready", "sent", "unsent", "mark", "waiting", "fail"}, Goes(p, phase)
      PROVE  \E proc : ProcStep(p, proc)
  <2>1. phase \in Phases /\ phase \notin {"idle", "created"}
    BY <1>2 DEF Phases
  <2> QED BY <1>1, <1>2, <2>1, ProcPhase
<1>3. CASE p \in Pumps /\ Goes(p, "idle")
  <2>1. p \notin Workflows
    BY <1>3, EdgeAssumption
  <2>2. "idle" \in Phases /\ "idle" \notin InTransit
    BY DEF Phases, InTransit
  <2> QED BY <1>3, <2>1, <2>2, ProcPhase
<1> QED BY <1>2, <1>3

LEMMA FetchTyped ==
    ASSUME Typed, NEW p \in Pumps, Fetch(p)
    PROVE  Typed'
<1>1. UNCHANGED <<rows, roots, lane, pending, timers, handlers, sweep, releases, aged, world>>
  BY DEF Fetch, database
<1>2. PICK w \in Workflows : /\ HeadOfQueue(w)
                             /\ procs' = [procs EXCEPT ![p].phase = "fetched", ![p].on = w]
  BY DEF Fetch
<1>3. Begun(w)
  BY <1>2 DEF HeadOfQueue, Typed, Started
<1> DEFINE proc == [procs[p] EXCEPT !.phase = "fetched", !.on = w]
<1>4. p \in Dispatchers /\ p \notin Workflows /\ procs[p] \in Proc /\ procs \in [Dispatchers -> Proc]
  BY TypedParts, EdgeAssumption DEF Dispatchers
<1>5. proc \in Proc /\ proc.on = w /\ proc.phase = "fetched"
  BY <1>4 DEF Proc, Phases
<1>6. procs' = [procs EXCEPT ![p] = proc]
  BY <1>2, <1>4
<1> HIDE DEF proc
<1>7. ProcStep(p, proc)
  BY <1>3, <1>4, <1>5, <1>6 DEF ProcStep
<1> QED BY <1>1, <1>4, <1>7, TypedParts, WorldStays, DispatchTyped

LEMMA QueuesStep ==
    ASSUME Typed, NEW p \in Dispatchers, procs[p].phase \in InTransit, Queues(p) \/ GivesUp(p)
    PROVE  \E proc : ProcStep(p, proc)
  BY NextPhase DEF Queues, GivesUp, Dispatchers

LEMMA PrepareTyped ==
    ASSUME Typed, NEW p \in Dispatchers, Prepare(p)
    PROVE  Typed'
<1> DEFINE w == procs[p].on
           admitted == [roots EXCEPT ![w] = IF @ = "none" THEN "queued" ELSE @]
<1>1. procs[p].phase \in InTransit
  BY DEF Prepare, InTransit
<1>2. w \in Workflows /\ Begun(w)
  BY <1>1, OnAWorkflow
<1>3. UNCHANGED <<rows, pending, timers, handlers, sweep, releases, aged, world>>
  BY DEF Prepare
<1>4. lane' \in Seq(Workflows)
  BY <1>2, TypedParts DEF Prepare, Lane
<1>5. \E proc : ProcStep(p, proc)
  BY <1>1, NextPhase, QueuesStep DEF Prepare
<1>6. /\ roots' \in [Workflows -> RootStates]
      /\ \A v \in Workflows : roots'[v] # roots[v] => v = w
  <2>1. \/ roots' = roots \/ roots' = admitted
        \/ roots' = [admitted EXCEPT ![w] = IF @ = "queued" THEN "dispatching" ELSE @]
    BY DEF Prepare
  <2>2. roots \in [Workflows -> RootStates] /\ "queued" \in RootStates /\ "dispatching" \in RootStates
    BY TypedParts DEF RootStates, Holding
  <2> HIDE DEF w
  <2> QED BY <1>2, <2>1, <2>2
<1>7. \A v \in Workflows : Begun(v) => Begun(v)'
  BY <1>5, ProcTyped
<1> HIDE DEF w
<1> QED BY <1>2, <1>3, <1>4, <1>5, <1>6, <1>7, TypedParts, WorldStays, DispatchTyped

LEMMA SendTyped ==
    ASSUME Typed, NEW p \in Dispatchers, Send(p)
    PROVE  Typed'
<1> DEFINE w == procs[p].on
<1>1. procs[p].phase \in InTransit
  BY DEF Send, InTransit
<1>2. w \in Workflows /\ Begun(w)
  BY <1>1, OnAWorkflow
<1>3. UNCHANGED <<rows, roots, lane, timers, handlers, sweep, releases, aged, reports, occupied,
                  online, up, drops, crashes>>
  BY DEF Send, database
<1>4. \E proc : ProcStep(p, proc)
  BY <1>1, NextPhase DEF Send
<1>5. pending' \subseteq pending \cup {w}
  BY DEF Send
<1>6. WorldTyped' /\ \A v \in Workflows : frames'[v] > 0 <=> phone'[v] # "idle"
  <2>1. CASE online
    <3>1. /\ frames' = [frames EXCEPT ![w] = @ + 1]
          /\ phone' = [phone EXCEPT ![w] = IF @ = "idle" THEN "given" ELSE @]
      BY <2>1 DEF Send
    <3> HIDE DEF w
    <3>2. frames \in [Workflows -> Nat] /\ phone \in [Workflows -> PhoneStates]
      BY DEF Typed, WorldTyped
    <3>3. frames' \in [Workflows -> Nat] /\ phone' \in [Workflows -> PhoneStates]
      BY <1>2, <3>1, <3>2 DEF PhoneStates
    <3>4. \A v \in Workflows : frames'[v] > 0 <=> phone'[v] # "idle"
      <4>1. \A v \in Workflows : frames[v] > 0 <=> phone[v] # "idle"
        BY DEF Typed, TypeOK
      <4> QED BY <1>2, <3>1, <3>2, <4>1
    <3> QED BY <1>3, <3>3, <3>4 DEF Typed, WorldTyped
  <2>2. CASE ~online
    BY <1>3, <2>2 DEF Send, Typed, TypeOK, WorldTyped
  <2> QED BY <2>1, <2>2
<1>7. \A v \in Workflows : Begun(v) => Begun(v)'
  BY <1>4, ProcTyped
<1> HIDE DEF w
<1> QED BY <1>2, <1>3, <1>4, <1>5, <1>6, <1>7, TypedParts, DispatchTyped

LEMMA RecordTyped ==
    ASSUME Typed, NEW p \in Dispatchers, RecordSent(p) \/ RecordUnsent(p)
    PROVE  Typed'
<1> DEFINE w == procs[p].on
<1>1. procs[p].phase \in InTransit
  BY DEF RecordSent, RecordUnsent, InTransit
<1>2. w \in Workflows /\ Begun(w)
  BY <1>1, OnAWorkflow
<1>3. UNCHANGED <<rows, lane, pending, timers, handlers, sweep, releases, aged, world>>
  BY DEF RecordSent, RecordUnsent
<1>4. \E proc : ProcStep(p, proc)
  BY <1>1, NextPhase, QueuesStep DEF RecordSent, RecordUnsent
<1>5. \E s \in RootStates : roots' = [roots EXCEPT ![w] = s]
  <2>1. roots[w] \in RootStates
    BY <1>2, TypedParts
  <2> QED BY <2>1 DEF RecordSent, RecordUnsent, RootStates, Holding
<1>6. \A v \in Workflows : Begun(v) => Begun(v)'
  BY <1>4, ProcTyped
<1> HIDE DEF w
<1>7. roots' \in [Workflows -> RootStates] /\ \A v \in Workflows : roots'[v] # roots[v] => v = w
  BY <1>5, TypedParts
<1> QED BY <1>2, <1>3, <1>4, <1>6, <1>7, TypedParts, WorldStays, DispatchTyped

LEMMA MarkRunningTyped ==
    ASSUME Typed, NEW p \in Dispatchers, MarkRunning(p)
    PROVE  Typed'
<1> DEFINE w == procs[p].on
<1>1. procs[p].phase \in InTransit
  BY DEF MarkRunning, InTransit
<1>2. w \in Workflows /\ Begun(w)
  BY <1>1, OnAWorkflow
<1>3. UNCHANGED <<roots, lane, pending, handlers, sweep, releases, aged, world>>
  BY DEF MarkRunning
<1>4. \E proc : ProcStep(p, proc)
  <2>1. CASE p \in Workflows
    BY <1>1, <2>1, FailsTyped, NextPhase DEF MarkRunning
  <2>2. CASE p \notin Workflows
    <3> DEFINE proc == [procs[p] EXCEPT !.phase = "idle", !.on = NULL]
    <3>1. procs[p] \in Proc /\ procs' = [procs EXCEPT ![p] = proc]
      BY <2>2, TypedParts DEF MarkRunning
    <3>2. proc \in Proc /\ proc.phase = "idle"
      BY <3>1 DEF Proc, Phases
    <3> HIDE DEF proc
    <3> QED BY <2>2, <3>1, <3>2 DEF ProcStep, InTransit
  <2> QED BY <2>1, <2>2
<1>5. rows' = Moved(w, ToRunning, Starting) /\ timers' \subseteq timers \cup {w}
  BY DEF MarkRunning
<1>6. \A v \in Workflows : Begun(v) => Begun(v)'
  BY <1>4, ProcTyped
<1> HIDE DEF w
<1>7. rows' \in [Workflows -> Row] /\ \A v \in Workflows : rows'[v] # rows[v] => v = w
  BY <1>2, <1>5, TypedParts, MovedRows, ServerMoveRow DEF MayMove
<1> QED BY <1>2, <1>3, <1>4, <1>5, <1>6, <1>7, TypedParts, WorldStays, DispatchTyped

-----------------------------------------------------------------------------
(* Steps that leave the dispatchers alone. *)

LEMMA ApartTyped ==
    ASSUME Typed, UNCHANGED <<procs, lane>>, WorldTyped',
           \A w \in Workflows : frames'[w] > 0 <=> phone'[w] # "idle",
           online' => up',
           rows' \in [Workflows -> Row], roots' \in [Workflows -> RootStates],
           pending' \subseteq pending, timers' \subseteq timers, aged' \subseteq Workflows,
           sweep' \in [Workflows -> Row \cup {NULL}],
           releases' \in [Workflows -> {"no", "release", "cancel"}],
           \A w \in Workflows : /\ rows'[w] # rows[w] => Begun(w)
                                /\ roots'[w] # roots[w] => Begun(w),
           handlers' \subseteq Handler,
           \A h \in handlers' : /\ Begun(h.report.workflow)
                                /\ h.phase = "observe" => Ended(h.report.status)
    PROVE  Typed'
<1>1. TypeOK'
  BY DEF Typed, TypeOK
<1>2. \A w \in Workflows \cup Dispatchers : Begun(w)' <=> Begun(w)
  BY DEF Begun
<1>3. \A h \in handlers' : Begun(h.report.workflow)'
  BY DEF Begun
<1>4. Started'
  BY <1>2, <1>3 DEF Typed, Started
<1> QED BY <1>1, <1>4 DEF Typed

LEMMA TypedRest ==
    ASSUME Typed
    PROVE  /\ aged \subseteq Workflows /\ handlers \subseteq Handler
           /\ sweep \in [Workflows -> Row \cup {NULL}]
           /\ releases \in [Workflows -> {"no", "release", "cancel"}]
           /\ online => up
           /\ \A h \in handlers : /\ Begun(h.report.workflow) /\ h.report.workflow \in Workflows
                                  /\ h.report \in Report /\ h.report.status \in Statuses
                                  /\ h.phase = "observe" => Ended(h.report.status)
  BY DEF Typed, TypeOK, Started, Handler, Report

\* Only the row of a workflow that has begun has a status a transition leaves.
LEMMA ServerMoveBegun ==
    ASSUME Typed, NEW w \in Workflows, NEW row, ServerMove(w, row)
    PROVE  Begun(w) /\ row \in Row
<1>1. rows[w] \in Row
  BY TypedParts
<1>2. rows[w].status \in Statuses /\ row \in Row
  BY <1>1, ServerMoveRow
<1> QED BY <1>2, LifecycleTypes DEF Typed, Started

LEMMA MovedTyped ==
    ASSUME Typed, NEW w \in Workflows, NEW target, NEW edge, MayMove(w, target, edge)
    PROVE  /\ Moved(w, target, edge) \in [Workflows -> Row]
           /\ \A v \in Workflows : Moved(w, target, edge)[v] # rows[v] => v = w /\ Begun(v)
  BY TypedParts, MovedRows, ServerMoveBegun

LEMMA WatchdogTyped ==
    ASSUME Typed, NEW w \in Workflows, NEW still, WatchdogFails(w, still)
    PROVE  /\ rows' \in [Workflows -> Row]
           /\ releases' \in [Workflows -> {"no", "release", "cancel"}]
           /\ \A v \in Workflows : rows'[v] # rows[v] => Begun(v)
  BY TypedParts, TypedRest, MovedTyped DEF WatchdogFails, MayMove

LEMMA RowStepsTyped ==
    ASSUME Typed, NEW w \in Workflows,
           Cancel(w) \/ Age(w) \/ AckTimeout(w) \/ SweepReads(w) \/ SweepFails(w)
    PROVE  Typed'
<1> USE TypedParts, TypedRest, WorldStays
<1>1. /\ UNCHANGED <<procs, lane, roots, pending, handlers, world>>
      /\ timers' \subseteq timers
  BY DEF Cancel, Age, AckTimeout, SweepReads, SweepFails, database, memory
<1>2. CASE Cancel(w)
  <2>1. rows' = Moved(w, ToCancelled, Manually) /\ Queued(w) /\ UNCHANGED <<aged, sweep, releases>>
    BY <1>2 DEF Cancel, memory
  <2> QED BY <1>1, <2>1, MovedTyped, ApartTyped DEF MayMove, world
<1>3. CASE Age(w)
  BY <1>1, <1>3, ApartTyped DEF Age, database, memory, world
<1>4. CASE AckTimeout(w)
  BY <1>1, <1>4, WatchdogTyped, ApartTyped DEF AckTimeout, world
<1>5. CASE SweepReads(w)
  BY <1>1, <1>5, ApartTyped DEF SweepReads, database, world
<1>6. CASE SweepFails(w)
  BY <1>1, <1>6, WatchdogTyped, ApartTyped DEF SweepFails, world
<1> QED BY <1>2, <1>3, <1>4, <1>5, <1>6

\* What becomes of a root that ends, becomes ambiguous, or is reconciled.
LEMMA ReconciledRoots ==
    ASSUME Typed, NEW state \in [Workflows -> RootStates]
    PROVE  /\ Reconciled(state) \in [Workflows -> RootStates]
           /\ \A w \in Workflows :
                 \/ Reconciled(state)[w] = state[w]
                 \/ /\ state[w] = "ambiguous" /\ Terminal(w)
                    /\ Reconciled(state)[w] = rows[w].status
<1>1. \A w \in Workflows : Terminal(w) => rows[w].status \in RootStates
  BY TerminalRow, EndsOfRoots DEF RootStates
<1> QED BY <1>1 DEF Reconciled

AmbiguousRoots(ws) ==
    [w \in Workflows |-> IF w \in ws /\ roots[w] \in {"dispatching", "dispatched"}
                         THEN "ambiguous" ELSE roots[w]]

LEMMA AmbiguousTyped ==
    ASSUME Typed, NEW ws
    PROVE  /\ AmbiguousRoots(ws) \in [Workflows -> RootStates]
           /\ \A w \in Workflows : AmbiguousRoots(ws)[w] # roots[w] => Begun(w)
<1>1. roots \in [Workflows -> RootStates] /\ "ambiguous" \in RootStates
  BY TypedParts DEF RootStates, Holding
<1>2. \A w \in Workflows : roots[w] # "none" => Begun(w)
  BY DEF Typed, Started
<1> QED BY <1>1, <1>2 DEF AmbiguousRoots

LEMMA DropTyped ==
    ASSUME WorldTyped, UNCHANGED <<phone, frames, reports, occupied, up, crashes>>,
           online' = FALSE, drops' = drops + 1
    PROVE  WorldTyped'
<1>1. drops' \in Nat
  BY DEF WorldTyped
<1>2. online' \in BOOLEAN /\ up' \in BOOLEAN
  BY Zenon DEF WorldTyped
<1> QED BY <1>1, <1>2 DEF WorldTyped

LEMMA RootStepsTyped ==
    ASSUME Typed,
           \/ \E w \in Workflows : Release(w) \/ ExpirePending(w)
           \/ Disconnect \/ Restart
    PROVE  Typed'
<1> USE TypedParts, TypedRest
<1>1. \A w \in Workflows : roots[w] # "none" => Begun(w)
  BY DEF Typed, Started
<1>2. ASSUME NEW w \in Workflows, Release(w) PROVE Typed'
  <2>1. UNCHANGED <<rows, lane, procs, pending, handlers, timers, sweep, aged, world>>
    BY <1>2 DEF Release
  <2>2. releases' \in [Workflows -> {"no", "release", "cancel"}]
    BY <1>2 DEF Release
  <2>3. /\ roots' \in [Workflows -> RootStates]
        /\ \A v \in Workflows : roots'[v] # roots[v] => roots[v] # "none"
    <3>1. CASE roots' = Reconciled(roots)
      BY <3>1, ReconciledRoots
    <3>2. CASE roots[w] \in {"dispatching", "dispatched"} /\ roots' = [roots EXCEPT ![w] = "failed"]
      BY <3>2 DEF RootStates, RootEnds
    <3> QED BY <1>2, <3>1, <3>2 DEF Release
  <2> QED BY <1>1, <2>1, <2>2, <2>3, WorldStays, ApartTyped DEF world
<1>3. ASSUME NEW w \in Workflows, ExpirePending(w) PROVE Typed'
  <2>1. UNCHANGED <<rows, lane, procs, handlers, timers, sweep, releases, aged, world>>
    BY <1>3 DEF ExpirePending
  <2>2. roots' = AmbiguousRoots({w}) /\ pending' = pending \ {w}
    BY <1>3 DEF ExpirePending, Ambiguous, AmbiguousRoots
  <2> QED BY <2>1, <2>2, AmbiguousTyped, WorldStays, ApartTyped DEF world
<1>4. CASE Disconnect
  <2>1. /\ UNCHANGED <<rows, lane, procs, handlers, timers, sweep, releases, aged,
                       phone, frames, reports, occupied, up, crashes>>
        /\ online' = FALSE /\ drops' = drops + 1
    BY <1>4 DEF Disconnect
  <2>2. roots' = AmbiguousRoots(pending) /\ pending' = pending \ pending
    BY <1>4 DEF Disconnect, Ambiguous, AmbiguousRoots
  <2>3. WorldTyped'
    BY <2>1, DropTyped DEF Typed
  <2>4. \A w \in Workflows : frames'[w] > 0 <=> phone'[w] # "idle"
    BY <2>1 DEF Typed, TypeOK
  <2> QED BY <2>1, <2>2, <2>3, <2>4, AmbiguousTyped, ApartTyped
<1>5. CASE Restart
  <2>1. /\ UNCHANGED <<rows, lane, procs, pending, handlers, timers, sweep, releases, aged,
                       phone, frames, reports, occupied, online, drops, crashes>>
        /\ up' = TRUE
    BY <1>5 DEF Restart, memory
  <2>2. roots' = Reconciled(AmbiguousRoots(Workflows))
    <3>1. [w \in Workflows |-> IF roots[w] \in {"dispatching", "dispatched"} THEN "ambiguous" ELSE roots[w]]
            = AmbiguousRoots(Workflows)
      BY DEF AmbiguousRoots
    <3> QED BY <1>5, <3>1 DEF Restart
  <2>3. WorldTyped' /\ \A w \in Workflows : frames'[w] > 0 <=> phone'[w] # "idle"
    BY <2>1 DEF Typed, TypeOK, WorldTyped
  <2>4. roots' \in [Workflows -> RootStates]
    BY <2>2, AmbiguousTyped, ReconciledRoots
  <2>5. \A w \in Workflows : roots'[w] # roots[w] => roots[w] # "none"
    BY <2>2, AmbiguousTyped, ReconciledRoots DEF AmbiguousRoots
  <2> QED BY <1>1, <2>1, <2>3, <2>4, <2>5, ApartTyped
<1> QED BY <1>2, <1>3, <1>4, <1>5

LEMMA PhoneStepsTyped ==
    ASSUME Typed, NEW w \in Workflows,
           SendCancel(w) \/ \E status \in PhoneStatuses : PhoneReports(w, status)
    PROVE  Typed'
<1>1. /\ phone \in [Workflows -> PhoneStates] /\ frames \in [Workflows -> Nat]
      /\ reports \in [Workflows -> 0 .. MaxReports] /\ MaxReports \in Nat
      /\ \A v \in Workflows : frames[v] > 0 <=> phone[v] # "idle"
  BY EdgeAssumption DEF Typed, TypeOK, WorldTyped
<1>2. CASE SendCancel(w)
  <2>1. UNCHANGED <<rows, roots, lane, procs, pending, handlers, timers, sweep, aged,
                    frames, reports, occupied, online, up, drops, crashes>>
    BY <1>2 DEF SendCancel, database
  <2>2. releases' \in [Workflows -> {"no", "release", "cancel"}]
    BY <1>2, TypedRest DEF SendCancel
  <2>3. \/ phone' = phone
        \/ phone[w] # "idle" /\ phone' = [phone EXCEPT ![w] = "stopped"]
    BY <1>2 DEF SendCancel
  <2>4. WorldTyped' /\ \A v \in Workflows : frames'[v] > 0 <=> phone'[v] # "idle"
    BY <1>1, <2>1, <2>3 DEF Typed, WorldTyped, PhoneStates
  <2> QED BY <2>1, <2>2, <2>4, TypedParts, TypedRest, ApartTyped
<1>3. ASSUME NEW status \in PhoneStatuses, PhoneReports(w, status) PROVE Typed'
  <2> DEFINE report == [workflow |-> w, status |-> status, id |-> reports[w] + 1]
             handler == [report |-> report, phase |-> "resolve"]
  <2>1. UNCHANGED <<rows, roots, lane, procs, pending, timers, sweep, releases, aged,
                    frames, occupied, online, up, drops, crashes>>
    BY <1>3 DEF PhoneReports, database
  <2>2. status \in Statuses /\ status # "idle"
    BY EdgeAssumption DEF PhoneStatuses
  <2>3. /\ phone' = [phone EXCEPT ![w] = status] /\ phone[w] # "idle"
        /\ reports' = [reports EXCEPT ![w] = @ + 1] /\ reports[w] + 1 <= MaxReports
    BY <1>3, EdgeAssumption DEF PhoneReports
  <2>4. WorldTyped' /\ \A v \in Workflows : frames'[v] > 0 <=> phone'[v] # "idle"
    <3>1. phone' \in [Workflows -> PhoneStates] /\ reports' \in [Workflows -> 0 .. MaxReports]
      BY <1>1, <2>2, <2>3 DEF PhoneStates
    <3>2. \A v \in Workflows : frames'[v] > 0 <=> phone'[v] # "idle"
      BY <1>1, <2>1, <2>2, <2>3
    <3> QED BY <2>1, <3>1, <3>2 DEF Typed, WorldTyped
  <2>5. report \in Report
    BY <1>1, <2>2, <2>3 DEF Report
  <2>6. \/ handlers' = handlers
        \/ w \in pending /\ handlers' = handlers \cup {handler}
    BY <1>3 DEF PhoneReports
  <2>7. w \in pending => Begun(w)
    BY DEF Typed, Started
  <2>8. handler \in Handler /\ handler.report.workflow = w /\ handler.phase = "resolve"
    BY <2>5 DEF Handler
  <2> HIDE DEF report, handler
  <2> QED BY <2>1, <2>4, <2>6, <2>7, <2>8, TypedParts, TypedRest, ApartTyped
<1> QED BY <1>2, <1>3

\* A status handler goes on, or is gone.
LEMMA HandlerStep ==
    ASSUME Typed, NEW h \in handlers,
           \/ handlers' = handlers \ {h}
           \/ \E phase \in {"observe", "persist"} :
                 Becomes(h, phase) /\ (phase = "observe" => Ended(h.report.status))
    PROVE  /\ handlers' \subseteq Handler
           /\ \A g \in handlers' : /\ Begun(g.report.workflow)
                                   /\ g.phase = "observe" => Ended(g.report.status)
<1>1. ASSUME NEW phase \in {"observe", "persist"}, Becomes(h, phase),
             phase = "observe" => Ended(h.report.status)
      PROVE  /\ handlers' \subseteq Handler
             /\ \A g \in handlers' : /\ Begun(g.report.workflow)
                                     /\ g.phase = "observe" => Ended(g.report.status)
  <2> DEFINE moved == [h EXCEPT !.phase = phase]
  <2>1. h \in Handler /\ Begun(h.report.workflow)
    BY TypedRest
  <2>2. moved \in Handler /\ moved.report = h.report /\ moved.phase = phase
    BY <2>1 DEF Handler
  <2>3. handlers' = (handlers \ {h}) \cup {moved}
    BY <1>1 DEF Becomes
  <2> HIDE DEF moved
  <2> QED BY <1>1, <2>1, <2>2, <2>3, TypedRest
<1> QED BY <1>1, TypedRest

LEMMA HandlerStepsTyped ==
    ASSUME Typed, NEW h \in handlers, Handle(h)
    PROVE  Typed'
<1> DEFINE w == h.report.workflow
<1> USE TypedParts, TypedRest
<1>1. w \in Workflows /\ Begun(w) /\ h \in Handler
  OBVIOUS
<1>2. UNCHANGED <<lane, procs, timers, sweep, releases, world>>
  BY DEF Handle, Resolve, ObserveTerminal, Persist, database
<1>3. CASE Resolve(h)
  <2>1. UNCHANGED <<rows, roots, pending, aged>>
    BY <1>3 DEF Resolve, database
  <2>2. \E phase \in {"observe", "persist"} :
           Becomes(h, phase) /\ (phase = "observe" => Ended(h.report.status))
    BY <1>3, Zenon DEF Resolve, Ended
  <2> QED BY <1>2, <2>1, <2>2, HandlerStep, WorldStays, ApartTyped DEF world
<1>4. CASE ObserveTerminal(h)
  <2>1. UNCHANGED <<rows, aged>>
    BY <1>4 DEF ObserveTerminal
  <2>2. \/ handlers' = handlers \ {h}
        \/ Becomes(h, "persist")
    BY <1>4 DEF ObserveTerminal
  <2>3. pending' \subseteq pending
    BY <1>4 DEF ObserveTerminal
  <2>4. roots' \in [Workflows -> RootStates] /\ \A v \in Workflows : roots'[v] # roots[v] => v = w
    <3>1. h.report.status \in RootStates
      BY <1>4, EndsOfRoots DEF ObserveTerminal, RootStates
    <3>2. roots' = roots \/ roots' = [roots EXCEPT ![w] = h.report.status]
      BY <1>4 DEF ObserveTerminal
    <3> QED BY <1>1, <3>1, <3>2
  <2> QED BY <1>1, <1>2, <2>1, <2>2, <2>3, <2>4, HandlerStep, WorldStays, ApartTyped DEF world
<1>5. CASE Persist(h)
  <2>1. UNCHANGED <<roots, pending>> /\ handlers' = handlers \ {h} /\ aged' \subseteq aged
    BY <1>5 DEF Persist
  <2>2. rows' = rows \/ rows' = [rows EXCEPT ![w] = Reported(h)]
    BY <1>5 DEF Persist, Reported
  <2>3. Reported(h) \in Row
    BY <1>1, EdgeAssumption DEF Reported, Row, Report, Handler
  <2>4. rows' \in [Workflows -> Row] /\ \A v \in Workflows : rows'[v] # rows[v] => v = w
    BY <1>1, <2>2, <2>3
  <2> QED BY <1>1, <1>2, <2>1, <2>4, HandlerStep, WorldStays, ApartTyped DEF world
<1> QED BY <1>3, <1>4, <1>5 DEF Handle

LEMMA LinkTyped == ASSUME Typed, OtherEnds \/ Connect PROVE Typed'
<1>1. UNCHANGED <<rows, roots, lane, procs, pending, handlers, timers, sweep, releases, aged,
                  phone, frames, reports, up, drops, crashes>>
  BY DEF OtherEnds, Connect, database, memory
<1>2. online' => up'
  BY DEF OtherEnds, Connect, Typed, TypeOK
<1>3. occupied' \in BOOLEAN /\ online' \in BOOLEAN
  BY Zenon DEF OtherEnds, Connect, Typed, WorldTyped
<1>4. WorldTyped'
  BY <1>1, <1>3 DEF Typed, WorldTyped
<1>5. \A w \in Workflows : frames'[w] > 0 <=> phone'[w] # "idle"
  BY <1>1 DEF Typed, TypeOK
<1> QED BY <1>1, <1>2, <1>4, <1>5, TypedParts, TypedRest, ApartTyped

LEMMA CrashTyped == ASSUME Typed, Crash PROVE Typed'
<1>1. UNCHANGED <<rows, roots, lane, aged, phone, frames, reports, occupied, drops>>
  BY DEF Crash, database
<1>2. /\ pending' = {} /\ handlers' = {} /\ timers' = {}
      /\ sweep' = [w \in Workflows |-> NULL] /\ releases' = [w \in Workflows |-> "no"]
  BY DEF Crash, NoMemory
<1>3. /\ procs' \in [Dispatchers -> Proc]
      /\ \A w \in Workflows : procs'[w].on = w /\ (Begun(w) => Begun(w)')
      /\ \A p \in Dispatchers : procs'[p].phase \notin InTransit
  <2>1. procs' = [p \in Dispatchers |->
                    IF p \in Pumps THEN [procs[p] EXCEPT !.phase = "idle", !.on = NULL]
                    ELSE IF procs[p].phase = "idle" THEN procs[p]
                    ELSE [procs[p] EXCEPT !.phase = "done"]]
    BY DEF Crash, NoMemory, Dispatchers
  <2>2. /\ procs \in [Dispatchers -> Proc] /\ \A w \in Workflows : procs[w].on = w /\ w \notin Pumps
        /\ {"idle", "done"} \subseteq Phases
    BY TypedParts, EdgeAssumption DEF Phases
  <2>3. \A p \in Dispatchers : procs[p] \in Proc /\ (p \in Workflows \/ p \in Pumps)
    BY <2>2 DEF Dispatchers
  <2>4. \A p \in Dispatchers : procs'[p] \in Proc
    <3> TAKE p \in Dispatchers
    <3>1. /\ procs[p] \in Proc /\ "idle" \in Phases /\ "done" \in Phases
          /\ procs'[p] = IF p \in Pumps THEN [procs[p] EXCEPT !.phase = "idle", !.on = NULL]
                         ELSE IF procs[p].phase = "idle" THEN procs[p]
                         ELSE [procs[p] EXCEPT !.phase = "done"]
      BY <2>1, <2>2, <2>3
    <3>2. [procs[p] EXCEPT !.phase = "idle", !.on = NULL] \in Proc
      BY <3>1 DEF Proc
    <3>3. [procs[p] EXCEPT !.phase = "done"] \in Proc
      BY <3>1 DEF Proc
    <3> QED BY ONLY <3>1, <3>2, <3>3
  <2>5. \A w \in Workflows : procs'[w].on = w /\ (Begun(w) => Begun(w)')
    <3> TAKE w \in Workflows
    <3>1. /\ w \in Dispatchers /\ procs[w] \in Proc /\ procs[w].on = w
          /\ procs'[w] = IF procs[w].phase = "idle" THEN procs[w] ELSE [procs[w] EXCEPT !.phase = "done"]
      BY <2>1, <2>2, <2>3 DEF Dispatchers
    <3>2. CASE procs[w].phase = "idle"
      BY <3>1, <3>2 DEF Begun
    <3>3. CASE procs[w].phase # "idle"
      <4>1. procs'[w].phase = "done" /\ procs'[w].on = w
        BY <3>1, <3>3 DEF Proc
      <4> QED BY <3>3, <4>1 DEF Begun
    <3> QED BY <3>2, <3>3
  <2>6. \A p \in Dispatchers : procs'[p].phase \in {"idle", "done"}
    BY <2>1, <2>3 DEF Proc
  <2> QED BY <2>1, <2>4, <2>5, <2>6 DEF InTransit
<1>4. TypeOK'
  BY <1>1, <1>2, <1>3 DEF Typed, TypeOK, Dispatchers, Crash
<1>5. WorldTyped'
  <2>1. crashes' \in Nat
    BY DEF Crash, Typed, WorldTyped
  <2> QED BY <1>1, <2>1 DEF Crash, Typed, WorldTyped
<1>6. Started'
  BY <1>1, <1>2, <1>3 DEF Typed, Started
<1> QED BY <1>4, <1>5, <1>6 DEF Typed

LEMMA StutterTyped == ASSUME Typed, UNCHANGED vars PROVE Typed'
<1>1. UNCHANGED <<rows, roots, lane, procs, pending, handlers, timers, sweep, releases, aged,
                  phone, frames, reports, occupied, online, up, drops, crashes>>
  BY DEF vars, database, memory, world
<1>2. TypeOK'
  BY <1>1 DEF Typed, TypeOK
<1>3. WorldTyped'
  BY <1>1 DEF Typed, WorldTyped
<1>4. Started'
  BY <1>1 DEF Typed, Started, Begun
<1> QED BY <1>2, <1>3, <1>4 DEF Typed

\* The steps of Next, sorted by what they touch.
LEMMA NextSteps ==
    ASSUME Next
    PROVE  \/ \E w \in Workflows : Accept(w) \/ Create(w) \/ MarkFailed(w) \/ TaskEnds(w)
           \/ \E w \in Workflows : Cancel(w) \/ Age(w) \/ AckTimeout(w) \/ SweepReads(w) \/ SweepFails(w)
           \/ \E w \in Workflows : Release(w) \/ ExpirePending(w)
           \/ \E w \in Workflows : SendCancel(w) \/ \E status \in PhoneStatuses : PhoneReports(w, status)
           \/ \E p \in Pumps : Fetch(p)
           \/ \E p \in Dispatchers : Egress(p)
           \/ \E h \in handlers : Handle(h)
           \/ OtherEnds \/ Connect \/ Disconnect \/ Crash \/ Restart
  BY DEF Next, Dispatchers

LEMMA StepTyped == Typed /\ [Next]_vars => Typed'
<1> SUFFICES ASSUME Typed, [Next]_vars PROVE Typed'
  OBVIOUS
<1>1. CASE UNCHANGED vars
  BY <1>1, StutterTyped
<1>2. ASSUME NEW p \in Dispatchers, Egress(p) PROVE Typed'
  BY <1>2, PrepareTyped, SendTyped, RecordTyped, MarkRunningTyped DEF Egress
<1>3. ASSUME NEW p \in Pumps, Fetch(p) PROVE Typed'
  BY <1>3, FetchTyped
<1>4. CASE Next
  BY <1>2, <1>3, <1>4, NextSteps, TaskTyped, RowStepsTyped, RootStepsTyped, PhoneStepsTyped,
     HandlerStepsTyped, LinkTyped, CrashTyped
<1> QED BY <1>1, <1>4

\* Rows, roots, handles, handlers and timers always have their types, whatever the
\* phone, the timers, the pumps and the restarts do, and a frame was sent exactly to
\* the phones that have got the workflow.
THEOREM EdgeTypeCorrect == Spec => []TypeOK
<1>1. Init => Typed
  BY InitTyped
<1>2. Typed /\ [Next]_vars => Typed'
  BY StepTyped
<1>3. Typed => TypeOK
  BY DEF Typed
<1> QED BY <1>1, <1>2, <1>3, PTL DEF Spec

-----------------------------------------------------------------------------
(* Whose checkpoint a watchdog has judged. *)

\* Reports are numbered as they arrive, and a number is handled once.
HandledOnce ==
    /\ \A h \in handlers : h.report.id <= reports[h.report.workflow]
    /\ \A h, g \in handlers :
          h.report.workflow = g.report.workflow /\ h.report.id = g.report.id => h = g

\* A stamp that the row carries, or that the sweep has read, is the number of a report
\* whose handler is through: no row will carry it again.
SpentStamp(w, row) ==
    /\ row.stamp <= reports[w]
    /\ \A h \in handlers : h.report.workflow = w => h.report.id # row.stamp
StampsSpent ==
    /\ \A w \in Workflows : rows[w].acked => SpentStamp(w, rows[w])
    /\ \A w \in Workflows : sweep[w] # NULL /\ sweep[w].acked => SpentStamp(w, sweep[w])

\* A row that still carries the stamp the sweep has read has aged.
SweepIsRight ==
    \A w \in Workflows :
        sweep[w] # NULL /\ sweep[w].acked /\ rows[w].acked /\ rows[w].stamp = sweep[w].stamp
            => w \in aged

Stamped == Typed /\ HandledOnce /\ StampsSpent /\ SweepIsRight

LEMMA InitStamped == Init => Stamped
<1> SUFFICES ASSUME Init PROVE Stamped
  OBVIOUS
<1>1. handlers = {} /\ \A w \in Workflows : ~rows[w].acked /\ sweep[w] = NULL
  BY DEF Init
<1> QED BY <1>1, InitTyped DEF Stamped, HandledOnce, StampsSpent, SweepIsRight

\* A handler is replaced by one of the same report, or is through.
Fewer == \/ handlers' \subseteq handlers
         \/ \E h \in handlers, phase \in {"observe", "persist"} : Becomes(h, phase)

LEMMA FewerHandlers ==
    ASSUME Typed, Fewer
    PROVE  /\ \A g \in handlers' : \E h \in handlers : h.report = g.report
           /\ HandledOnce /\ UNCHANGED reports => HandledOnce'
<1>1. CASE handlers' \subseteq handlers
  BY <1>1 DEF HandledOnce
<1>2. ASSUME NEW h \in handlers, NEW phase \in {"observe", "persist"}, Becomes(h, phase)
      PROVE  /\ \A g \in handlers' : \E k \in handlers : k.report = g.report
             /\ HandledOnce /\ UNCHANGED reports => HandledOnce'
  <2> DEFINE moved == [h EXCEPT !.phase = phase]
  <2>1. handlers' = (handlers \ {h}) \cup {moved} /\ moved.report = h.report
    BY <1>2, TypedRest DEF Becomes, Handler
  <2> HIDE DEF moved
  <2>2. \A g \in handlers' : \E k \in handlers : k.report = g.report
    BY <2>1
  <2>3. ASSUME HandledOnce, UNCHANGED reports PROVE HandledOnce'
    <3>1. \A g \in handlers' : g.report.id <= reports'[g.report.workflow]
      BY <2>2, <2>3 DEF HandledOnce
    <3>2. ASSUME NEW g \in handlers', NEW k \in handlers',
                 g.report.workflow = k.report.workflow, g.report.id = k.report.id
          PROVE  g = k
      BY <2>1, <2>3, <3>2 DEF HandledOnce
    <3> QED BY <3>1, <3>2 DEF HandledOnce
  <2> QED BY <2>2, <2>3
<1> QED BY <1>1, <1>2 DEF Fewer

\* A step that stamps no row, brings no report and lets the sweep judge nothing.
Unstamped ==
    /\ \A w \in Workflows : rows'[w].acked => rows[w].acked /\ rows'[w].stamp = rows[w].stamp
    /\ \A w \in Workflows : sweep'[w] = sweep[w] \/ sweep'[w] = NULL
    /\ aged \subseteq aged' /\ UNCHANGED reports /\ Fewer

LEMMA UnstampedStep ==
    ASSUME Stamped, Typed', Unstamped
    PROVE  Stamped'
<1> USE DEF Stamped, Unstamped
<1>1. HandledOnce' /\ \A g \in handlers' : \E h \in handlers : h.report = g.report
  BY FewerHandlers
<1>2. StampsSpent'
  BY <1>1 DEF StampsSpent, SpentStamp
<1>3. SweepIsRight'
  BY DEF SweepIsRight
<1> QED BY <1>1, <1>2, <1>3

LEMMA MovedUnstamped ==
    ASSUME Typed, NEW w \in Workflows, NEW target, NEW edge, MayMove(w, target, edge),
           rows' = Moved(w, target, edge)
    PROVE  \A v \in Workflows : rows'[v].acked = rows[v].acked /\ rows'[v].stamp = rows[v].stamp
  BY TypedParts, MovedRows, ServerMoveRow

LEMMA WatchdogUnstamped ==
    ASSUME Typed, NEW w \in Workflows, NEW still, WatchdogFails(w, still)
    PROVE  \A v \in Workflows : rows'[v].acked = rows[v].acked /\ rows'[v].stamp = rows[v].stamp
  BY MovedUnstamped DEF WatchdogFails, MayMove

LEMMA ServerStepsUnstamped ==
    ASSUME Typed,
           \/ \E w \in Workflows :
                 \/ Accept(w) \/ Create(w) \/ MarkFailed(w) \/ TaskEnds(w) \/ Cancel(w) \/ Age(w)
                 \/ AckTimeout(w) \/ SweepFails(w) \/ Release(w) \/ SendCancel(w) \/ ExpirePending(w)
           \/ \E p \in Pumps : Fetch(p)
           \/ \E p \in Dispatchers : Egress(p)
           \/ OtherEnds \/ Connect \/ Disconnect \/ Crash \/ Restart \/ UNCHANGED vars
    PROVE  Unstamped
<1> USE DEF Unstamped, Fewer, database, memory, world
<1>1. sweep \in [Workflows -> Row \cup {NULL}]
  BY TypedRest
<1>2. ASSUME NEW w \in Workflows, Create(w) PROVE Unstamped
  <2>1. PICK row : NewRow(row) /\ rows' = [rows EXCEPT ![w] = row]
    BY <1>2, CreatedRow, TypedParts
  <2>2. ~row.acked
    BY <2>1 DEF NewRow
  <2>3. \A v \in Workflows : rows'[v] = IF v = w THEN row ELSE rows[v]
    BY <2>1, TypedParts
  <2> QED BY <1>2, <2>2, <2>3 DEF Create
<1>3. ASSUME NEW w \in Workflows, MarkFailed(w) \/ Cancel(w) \/ AckTimeout(w) PROVE Unstamped
  <2>1. UNCHANGED <<sweep, reports, aged, handlers>>
    BY <1>3 DEF MarkFailed, Cancel, AckTimeout
  <2>2. \A v \in Workflows : rows'[v].acked = rows[v].acked /\ rows'[v].stamp = rows[v].stamp
    BY <1>3, MovedUnstamped, WatchdogUnstamped DEF MarkFailed, Cancel, AckTimeout, MayMove
  <2> QED BY <2>1, <2>2
<1>4. ASSUME NEW w \in Workflows, SweepFails(w) PROVE Unstamped
  <2>1. UNCHANGED <<reports, aged, handlers>> /\ sweep' = [sweep EXCEPT ![w] = NULL]
    BY <1>4 DEF SweepFails
  <2>2. \A v \in Workflows : rows'[v].acked = rows[v].acked /\ rows'[v].stamp = rows[v].stamp
    BY <1>4, WatchdogUnstamped DEF SweepFails
  <2> QED BY <1>1, <2>1, <2>2
<1>5. ASSUME NEW p \in Dispatchers, MarkRunning(p) PROVE Unstamped
  <2>1. UNCHANGED <<sweep, reports, aged, handlers>>
    BY <1>5 DEF MarkRunning
  <2>2. procs[p].on \in Workflows
    BY <1>5, OnAWorkflow DEF MarkRunning, InTransit
  <2>3. rows' = Moved(procs[p].on, ToRunning, Starting)
    BY <1>5 DEF MarkRunning
  <2>4. \A v \in Workflows : rows'[v].acked = rows[v].acked /\ rows'[v].stamp = rows[v].stamp
    BY <2>2, <2>3, MovedUnstamped DEF MayMove
  <2> QED BY <2>1, <2>4
<1>6. ASSUME \E w \in Workflows : Accept(w) \/ TaskEnds(w) \/ Age(w) \/ Release(w) \/ SendCancel(w)
                                 \/ ExpirePending(w)
      PROVE  Unstamped
  <2>1. UNCHANGED <<rows, sweep, reports, handlers>> /\ aged \subseteq aged'
    BY <1>6 DEF Accept, TaskEnds, Age, Release, SendCancel, ExpirePending
  <2> QED BY <2>1
<1>7. ASSUME NEW p \in Dispatchers,
             Fetch(p) \/ Prepare(p) \/ Send(p) \/ RecordSent(p) \/ RecordUnsent(p)
      PROVE  Unstamped
  <2>1. UNCHANGED <<rows, sweep, reports, aged, handlers>>
    BY <1>7 DEF Fetch, Prepare, Send, RecordSent, RecordUnsent
  <2> QED BY <2>1
<1>8. CASE Crash
  <2>1. UNCHANGED <<rows, reports, aged>> /\ handlers' = {} /\ sweep' = [w \in Workflows |-> NULL]
    BY <1>8 DEF Crash, NoMemory
  <2> QED BY <2>1
<1>9. CASE OtherEnds \/ Connect \/ Disconnect \/ Restart \/ UNCHANGED vars
  <2>1. UNCHANGED <<rows, sweep, reports, aged, handlers>>
    BY <1>9 DEF OtherEnds, Connect, Disconnect, Restart, vars
  <2> QED BY <2>1
<1> QED BY <1>2, <1>3, <1>4, <1>5, <1>6, <1>7, <1>8, <1>9 DEF Egress, Dispatchers

LEMMA SweepReadsStamped ==
    ASSUME Stamped, Typed', NEW w \in Workflows, SweepReads(w)
    PROVE  Stamped'
<1> USE DEF Stamped
<1>1. UNCHANGED <<rows, handlers, reports, aged>> /\ w \in aged
  BY DEF SweepReads, database, world
<1>2. \A v \in Workflows : sweep'[v] = IF v = w THEN rows[w] ELSE sweep[v]
  BY TypedRest DEF SweepReads
<1>3. HandledOnce'
  BY <1>1 DEF HandledOnce
<1>4. StampsSpent'
  BY <1>1, <1>2 DEF StampsSpent, SpentStamp
<1>5. SweepIsRight'
  BY <1>1, <1>2 DEF SweepIsRight
<1> QED BY <1>3, <1>4, <1>5

LEMMA PhoneReportsStamped ==
    ASSUME Stamped, Typed', NEW w \in Workflows, NEW status \in PhoneStatuses, PhoneReports(w, status)
    PROVE  Stamped'
<1> DEFINE report == [workflow |-> w, status |-> status, id |-> reports[w] + 1]
           handler == [report |-> report, phase |-> "resolve"]
<1> USE DEF Stamped
<1>1. UNCHANGED <<rows, sweep, aged>>
  BY DEF PhoneReports, database
<1>2. reports' = [reports EXCEPT ![w] = @ + 1]
  BY DEF PhoneReports
<1>3. reports \in [Workflows -> Int] /\ \A h \in handlers : h.report.id \in Int
  BY TypedRest, EdgeAssumption DEF Typed, WorldTyped, Report
<1>4. handlers' \subseteq handlers \cup {handler}
  BY DEF PhoneReports
<1>5. handler.report.workflow = w /\ handler.report.id = reports[w] + 1
  OBVIOUS
<1> HIDE DEF handler
<1>6. HandledOnce'
  <2>1. \A h \in handlers : h.report.workflow = w => h.report.id < reports[w] + 1
    BY <1>3 DEF HandledOnce
  <2>2. \A g \in handlers' : g.report.id <= reports'[g.report.workflow]
    BY <1>2, <1>3, <1>4, <1>5, TypedRest DEF HandledOnce
  <2>3. \A g, k \in handlers' : g.report.workflow = k.report.workflow /\ g.report.id = k.report.id
           => g = k
    BY <1>3, <1>4, <1>5, <2>1 DEF HandledOnce
  <2> QED BY <2>2, <2>3 DEF HandledOnce
<1>7. ASSUME NEW v \in Workflows, NEW row \in Row, SpentStamp(v, row)
      PROVE  SpentStamp(v, row)'
  <2>1. row.stamp \in Int /\ row.stamp <= reports[v]
    BY <1>7, EdgeAssumption DEF Row, SpentStamp
  <2> QED BY <1>2, <1>3, <1>4, <1>5, <1>7, <2>1 DEF SpentStamp
<1>8. StampsSpent'
  <2>1. \A v \in Workflows : rows[v] \in Row /\ (sweep[v] # NULL => sweep[v] \in Row)
    BY TypedParts, TypedRest
  <2> QED BY <1>1, <1>7, <2>1 DEF StampsSpent, SpentStamp
<1>9. SweepIsRight'
  BY <1>1 DEF SweepIsRight
<1> QED BY <1>6, <1>8, <1>9

LEMMA HandleStamped ==
    ASSUME Stamped, Typed', NEW h \in handlers, Handle(h)
    PROVE  Stamped'
<1> DEFINE w == h.report.workflow
<1> USE DEF Stamped
<1>1. CASE Resolve(h)
  <2>1. UNCHANGED <<rows, sweep, aged, reports>>
    BY <1>1 DEF Resolve, database, world
  <2>2. Fewer
    BY <1>1, Zenon DEF Resolve, Fewer
  <2> QED BY <2>1, <2>2, UnstampedStep DEF Unstamped
<1>2. CASE ObserveTerminal(h)
  <2>1. UNCHANGED <<rows, sweep, aged, reports>>
    BY <1>2 DEF ObserveTerminal, world
  <2>2. Fewer
    BY <1>2 DEF ObserveTerminal, Fewer
  <2> QED BY <2>1, <2>2, UnstampedStep DEF Unstamped
<1>3. CASE Persist(h)
  <2>1. UNCHANGED <<sweep, reports>> /\ handlers' = handlers \ {h}
    BY <1>3 DEF Persist, world
  <2>2. CASE rows' = rows /\ aged' = aged
    BY <2>1, <2>2, UnstampedStep DEF Unstamped, Fewer
  <2>3. CASE rows' = [rows EXCEPT ![w] = Reported(h)] /\ aged' = aged \ {w}
    <3>1. /\ \A v \in Workflows : rows'[v] = IF v = w THEN Reported(h) ELSE rows[v]
          /\ Reported(h).acked /\ Reported(h).stamp = h.report.id
      BY <2>3, TypedParts DEF Reported
    <3>2. HandledOnce'
      BY <2>1 DEF HandledOnce
    \* The number is spent now: its only handler is gone.
    <3>3. StampsSpent'
      BY <2>1, <3>1 DEF StampsSpent, SpentStamp, HandledOnce
    \* The sweep has read another number, as this one still had a handler.
    <3>4. SweepIsRight'
      <4>1. sweep[w] # NULL /\ sweep[w].acked => sweep[w].stamp # h.report.id
        BY TypedRest DEF StampsSpent, SpentStamp
      <4> QED BY <2>1, <2>3, <3>1, <4>1 DEF SweepIsRight
    <3> QED BY <3>2, <3>3, <3>4
  <2> QED BY <1>3, <2>2, <2>3 DEF Persist, Reported
<1> QED BY <1>1, <1>2, <1>3 DEF Handle

LEMMA StepStamped == Stamped /\ [Next]_vars => Stamped'
<1> SUFFICES ASSUME Stamped, [Next]_vars PROVE Stamped'
  OBVIOUS
<1>1. Typed /\ Typed'
  BY StepTyped DEF Stamped
<1>2. CASE Unstamped
  BY <1>1, <1>2, UnstampedStep
<1> QED BY <1>1, <1>2, NextSteps, ServerStepsUnstamped, SweepReadsStamped, PhoneReportsStamped,
           HandleStamped

LEMMA SilenceStep ==
    ASSUME Stamped, [Next]_vars, NEW w \in Workflows,
           releases[w] # "release", releases'[w] = "release"
    PROVE  ~rows[w].acked \/ w \in aged
<1>1. Typed /\ releases \in [Workflows -> {"no", "release", "cancel"}]
  BY TypedRest DEF Stamped
<1>2. ASSUME NEW v \in Workflows, AckTimeout(v) PROVE ~rows[w].acked
  <2>1. ~rows[v].acked /\ releases' = [releases EXCEPT ![v] = "release"]
    BY <1>2 DEF AckTimeout, WatchdogFails
  <2> QED BY <1>1, <2>1
<1>3. ASSUME NEW v \in Workflows, SweepFails(v) PROVE ~rows[w].acked \/ w \in aged
  <2>1. /\ sweep[v] # NULL
        /\ IF sweep[v].acked THEN rows[v].acked /\ rows[v].stamp = sweep[v].stamp ELSE ~rows[v].acked
        /\ releases' = [releases EXCEPT ![v] = "release"]
    BY <1>3 DEF SweepFails, WatchdogFails
  <2>2. v = w
    BY <1>1, <2>1
  <2> QED BY <2>1, <2>2 DEF Stamped, SweepIsRight
<1>4. ASSUME NEW v \in Workflows,
             \/ Accept(v) \/ Create(v) \/ MarkFailed(v) \/ TaskEnds(v) \/ Cancel(v) \/ Age(v)
             \/ SweepReads(v) \/ Release(v) \/ ExpirePending(v) \/ SendCancel(v)
             \/ \E status \in PhoneStatuses : PhoneReports(v, status)
      PROVE  FALSE
  <2>1. releases' = releases \/ \E x \in {"cancel", "no"} : releases' = [releases EXCEPT ![v] = x]
    BY <1>4, Zenon DEF Accept, Create, MarkFailed, TaskEnds, Cancel, Age, SweepReads, Release,
       ExpirePending, SendCancel, PhoneReports, memory
  <2> QED BY <1>1, <2>1
<1>5. ASSUME NEW p \in Dispatchers, Fetch(p) \/ Egress(p) PROVE FALSE
  BY <1>5 DEF Fetch, Egress, Prepare, Send, RecordSent, RecordUnsent, MarkRunning
<1>6. ASSUME NEW h \in handlers, Handle(h) PROVE FALSE
  BY <1>6 DEF Handle, Resolve, ObserveTerminal, Persist
<1>7. CASE OtherEnds \/ Connect \/ Disconnect \/ Crash \/ Restart \/ UNCHANGED vars
  BY <1>7 DEF OtherEnds, Connect, Disconnect, Crash, NoMemory, Restart, vars, memory
<1> QED BY <1>2, <1>3, <1>4, <1>5, <1>6, <1>7, NextSteps DEF Dispatchers

\* A watchdog fails a row only on silence: however the timers, the sweep and the
\* status handlers overlap, a row that has been acknowledged is failed only past the
\* deadline of the very checkpoint it carries.
THEOREM SilenceOnly == Spec => WatchdogFailsOnlySilence
<1>1. Init => Stamped
  BY InitStamped
<1>2. Stamped /\ [Next]_vars => Stamped'
  BY StepStamped
<1>3. Stamped /\ [Next]_vars =>
         [\A w \in Workflows : releases[w] # "release" /\ releases'[w] = "release"
             => ~rows[w].acked \/ w \in aged]_vars
  BY SilenceStep
<1> QED BY <1>1, <1>2, <1>3, PTL DEF Spec, WatchdogFailsOnlySilence

-----------------------------------------------------------------------------
(* The phone's verdict reaches the row. *)

EndedRow(row) == row.status \in Statuses /\ Ended(row.status)

\* A verdict that is to be persisted is the root's end, or the row refuses it.
VerdictObserved ==
    \A h \in handlers : h.phase = "persist" /\ Ended(h.report.status) =>
        \/ roots[h.report.workflow] = h.report.status
        \/ ~MayReport(rows[h.report.workflow].status, h.report.status)

\* The row of a root that has ended says so, or a handler is about to make it.
EndOnItsWay ==
    crashes = 0 => \A w \in Workflows : roots[w] \in RootEnds =>
        \/ EndedRow(rows[w]) /\ rows[w].status \in {roots[w], "cancelled"}
        \/ \E h \in handlers : /\ h.report.workflow = w /\ h.phase = "persist"
                               /\ h.report.status = roots[w] /\ Ended(roots[w])
                               /\ MayReport(rows[w].status, roots[w])

\* Only the server ends a row before its root.
EndedBeforeRoot ==
    \A w \in Workflows : EndedRow(rows[w]) /\ roots[w] \notin RootEnds =>
        rows[w].status \in {"failed", "cancelled"}

\* A verdict on its way to the root will be taken by the row, or the row says it
\* already, or was cancelled.
VerdictStands ==
    \A h \in handlers : h.phase = "observe" /\ roots[h.report.workflow] \notin RootEnds =>
        \/ MayReport(rows[h.report.workflow].status, h.report.status)
        \/ /\ EndedRow(rows[h.report.workflow])
           /\ rows[h.report.workflow].status \in {h.report.status, "cancelled"}

\* A root is released for a row that has ended.
ReleasedHasEnded == \A w \in Workflows : releases[w] = "release" => EndedRow(rows[w])

Agreed == /\ VerdictObserved /\ EndOnItsWay /\ EndedBeforeRoot /\ VerdictStands
          /\ ReleasedHasEnded

\* What one transition does to a verdict v the phone may give.
LEMMA VerdictAcross ==
    ASSUME NEW t \in Transitions, NEW v \in Statuses, Ended(v)
    PROVE  /\ MayReport(t.to_status, v) => MayReport(t.from_status, v)
           /\ MayReport(t.from_status, v) =>
                \/ MayReport(t.to_status, v)
                \/ t.to_status = v
                \/ Ended(t.to_status) /\ t.to_status # "failed"
           /\ Ended(t.from_status) => Ended(t.to_status) /\ t.to_status # "failed"
  BY VerdictAssumption

LEMMA MovedVerdict ==
    ASSUME NEW w \in Workflows, rows[w] \in Row, NEW row, ServerMove(w, row)
    PROVE  /\ ~EndedRow(rows[w])
           /\ EndedRow(row) => row.status \in {"failed", "cancelled"}
           /\ \A v \in Statuses : Ended(v) =>
                 /\ MayReport(row.status, v) => MayReport(rows[w].status, v)
                 /\ MayReport(rows[w].status, v) =>
                       \/ MayReport(row.status, v)
                       \/ EndedRow(row) /\ row.status \in {v, "cancelled"}
<1>1. PICK t \in Transitions :
           /\ t.from_status = rows[w].status
           /\ row = [rows[w] EXCEPT !.status = t.to_status]
           /\ Ended(t.to_status) => \/ t.to_status = "failed"
                                    \/ t.to_status = "cancelled" /\ ~Ended(t.from_status)
  BY DEF ServerMove
<1>2. row.status = t.to_status /\ t.from_status \in Statuses /\ t.to_status \in Statuses
  BY <1>1, TransitionStatuses DEF Row
<1>3. Ended(t.from_status) => Ended(t.to_status) /\ t.to_status # "failed"
  BY VerdictAssumption, <1>2
<1>4. ~EndedRow(rows[w]) /\ (EndedRow(row) => row.status \in {"failed", "cancelled"})
  BY <1>1, <1>2, <1>3 DEF EndedRow
<1>5. ASSUME NEW v \in Statuses, Ended(v)
      PROVE  /\ MayReport(row.status, v) => MayReport(rows[w].status, v)
             /\ MayReport(rows[w].status, v) =>
                   \/ MayReport(row.status, v)
                   \/ EndedRow(row) /\ row.status \in {v, "cancelled"}
  BY <1>1, <1>2, <1>5, VerdictAcross DEF EndedRow
<1> QED BY <1>4, <1>5

LEMMA ReportedVerdict ==
    ASSUME NEW s, NEW status \in Statuses, MayReport(s, status)
    PROVE  /\ s \in Statuses
           /\ Ended(s) => Ended(status)
           /\ \A v \in Statuses : Ended(v) =>
                 /\ MayReport(status, v) => MayReport(s, v)
                 /\ MayReport(s, v) /\ ~Ended(status) => MayReport(status, v)
<1>1. PICK t \in Transitions : t.from_status = s /\ t.to_status = status
  BY DEF MayReport
<1> QED BY <1>1, VerdictAcross, TransitionStatuses

\* A step of anyone but a status handler.
OthersStep ==
    /\ \A w \in Workflows :
          \/ rows'[w].status = rows[w].status
          \/ ServerMove(w, rows'[w])
          \/ ~Begun(w) /\ ~Ended(rows'[w].status) /\ roots'[w] = "none"
    /\ \A w \in Workflows :
          \/ roots'[w] = roots[w]
          \/ roots[w] \notin RootEnds /\ roots'[w] \notin RootEnds
          \/ /\ roots[w] \notin RootEnds /\ EndedRow(rows[w]) /\ rows'[w].status = rows[w].status
             /\ roots'[w] \in {rows[w].status, "failed"}
    /\ \A h \in handlers' : h \in handlers \/ h.phase = "resolve"
    /\ crashes' = 0 => /\ crashes = 0
                       /\ \A h \in handlers : h.phase = "persist" => h \in handlers'
    /\ \A w \in Workflows : releases'[w] = "release" =>
          releases[w] = "release" \/ EndedRow(rows'[w])

LEMMA OthersAgree ==
    ASSUME Typed, Agreed, OthersStep
    PROVE  Agreed'
<1> USE DEF Agreed
<1>0. /\ \A w \in Workflows : rows[w] \in Row /\ (~Begun(w) => roots[w] = "none" /\ rows[w].status = NULL)
      /\ \A h \in handlers : /\ h.report.workflow \in Workflows /\ Begun(h.report.workflow)
                             /\ h.report.status \in Statuses
                             /\ h.phase = "observe" => Ended(h.report.status)
      /\ "none" \notin RootEnds
  BY TypedParts, TypedRest DEF RootEnds, Typed, Started
<1>1. VerdictObserved'
  <2> SUFFICES ASSUME NEW h \in handlers', h.phase = "persist", Ended(h.report.status)
               PROVE  \/ roots'[h.report.workflow] = h.report.status
                      \/ ~MayReport(rows'[h.report.workflow].status, h.report.status)
    BY DEF VerdictObserved
  <2> DEFINE w == h.report.workflow
  <2>1. h \in handlers /\ w \in Workflows /\ Begun(w) /\ h.report.status \in Statuses
    BY <1>0 DEF OthersStep
  <2>2. CASE roots[w] = h.report.status
    BY <2>1, <2>2, EndsOfRoots DEF OthersStep
  <2>3. CASE ~MayReport(rows[w].status, h.report.status)
    BY <1>0, <2>1, <2>3, MovedVerdict DEF OthersStep
  <2> QED BY <2>1, <2>2, <2>3 DEF VerdictObserved
<1>2. EndOnItsWay'
  <2> SUFFICES ASSUME crashes' = 0, NEW w \in Workflows, roots'[w] \in RootEnds
               PROVE  \/ EndedRow(rows'[w]) /\ rows'[w].status \in {roots'[w], "cancelled"}
                      \/ \E h \in handlers' : /\ h.report.workflow = w /\ h.phase = "persist"
                                              /\ h.report.status = roots'[w] /\ Ended(roots'[w])
                                              /\ MayReport(rows'[w].status, roots'[w])
    BY DEF EndOnItsWay
  <2>1. CASE roots'[w] # roots[w]
    BY <2>1 DEF OthersStep, EndedRow, EndedBeforeRoot
  <2>2. CASE roots'[w] = roots[w]
    <3>1. Begun(w)
      BY <1>0, <2>2
    <3>2. CASE EndedRow(rows[w]) /\ rows[w].status \in {roots[w], "cancelled"}
      <4>1. rows'[w].status = rows[w].status
        BY <1>0, <3>1, <3>2, MovedVerdict DEF OthersStep
      <4> QED BY <2>2, <3>2, <4>1 DEF EndedRow
    <3>3. ASSUME NEW h \in handlers, h.report.workflow = w, h.phase = "persist",
                 h.report.status = roots[w], Ended(roots[w]), MayReport(rows[w].status, roots[w])
          PROVE  \/ EndedRow(rows'[w]) /\ rows'[w].status \in {roots'[w], "cancelled"}
                 \/ h \in handlers' /\ MayReport(rows'[w].status, roots'[w])
      BY <1>0, <2>2, <3>1, <3>3, MovedVerdict DEF OthersStep
    <3>4. \/ EndedRow(rows[w]) /\ rows[w].status \in {roots[w], "cancelled"}
          \/ \E h \in handlers : /\ h.report.workflow = w /\ h.phase = "persist"
                                 /\ h.report.status = roots[w] /\ Ended(roots[w])
                                 /\ MayReport(rows[w].status, roots[w])
      BY <2>2 DEF OthersStep, EndOnItsWay
    <3> QED BY <2>2, <3>2, <3>3, <3>4
  <2> QED BY <2>1, <2>2
<1>3. EndedBeforeRoot'
  <2> SUFFICES ASSUME NEW w \in Workflows, EndedRow(rows'[w]), roots'[w] \notin RootEnds
               PROVE  rows'[w].status \in {"failed", "cancelled"}
    BY DEF EndedBeforeRoot
  <2>1. roots[w] \notin RootEnds
    BY DEF OthersStep
  <2> QED BY <1>0, <2>1, MovedVerdict DEF OthersStep, EndedRow, EndedBeforeRoot
<1>4. VerdictStands'
  <2> SUFFICES ASSUME NEW h \in handlers', h.phase = "observe", roots'[h.report.workflow] \notin RootEnds
               PROVE  \/ MayReport(rows'[h.report.workflow].status, h.report.status)
                      \/ /\ EndedRow(rows'[h.report.workflow])
                         /\ rows'[h.report.workflow].status \in {h.report.status, "cancelled"}
    BY DEF VerdictStands
  <2> DEFINE w == h.report.workflow
  <2>1. /\ h \in handlers /\ w \in Workflows /\ Begun(w)
        /\ h.report.status \in Statuses /\ Ended(h.report.status)
    BY <1>0 DEF OthersStep
  <2>2. roots[w] \notin RootEnds
    BY <2>1 DEF OthersStep
  <2>3. CASE rows'[w].status = rows[w].status
    BY <2>1, <2>2, <2>3 DEF VerdictStands, EndedRow
  <2>4. CASE ServerMove(w, rows'[w])
    <3>1. MayReport(rows[w].status, h.report.status)
      BY <1>0, <2>1, <2>2, <2>4, MovedVerdict DEF VerdictStands
    <3> QED BY <1>0, <2>1, <2>4, <3>1, MovedVerdict
  <2> QED BY <2>1, <2>3, <2>4 DEF OthersStep
<1>5. ReleasedHasEnded'
  <2> SUFFICES ASSUME NEW w \in Workflows, releases'[w] = "release" PROVE EndedRow(rows'[w])
    BY DEF ReleasedHasEnded
  <2>1. CASE EndedRow(rows'[w])
    BY <2>1
  <2>2. CASE EndedRow(rows[w])
    <3>1. rows[w].status \in Statuses /\ NULL \notin Statuses
      BY <2>2, LifecycleTypes DEF EndedRow
    <3>2. rows'[w].status = rows[w].status
      BY <1>0, <2>2, <3>1, MovedVerdict DEF OthersStep
    <3> QED BY <2>2, <3>2 DEF EndedRow
  <2> QED BY <2>1, <2>2 DEF OthersStep, ReleasedHasEnded
<1> QED BY <1>1, <1>2, <1>3, <1>4, <1>5

LEMMA ResolveAgrees ==
    ASSUME Typed, Agreed, NEW h \in handlers, Resolve(h)
    PROVE  Agreed'
<1> DEFINE w == h.report.workflow
           phase == IF MayReport(rows[w].status, h.report.status) /\ Ended(h.report.status)
                    THEN "observe" ELSE "persist"
           moved == [h EXCEPT !.phase = phase]
<1> USE DEF Agreed
<1>1. UNCHANGED <<rows, roots, releases, crashes>>
  BY DEF Resolve, database, world
<1>2. handlers' = (handlers \ {h}) \cup {moved}
  BY DEF Resolve, Becomes, ExternallyReachable, Ended
<1>3. moved.report = h.report /\ moved.phase = phase /\ h.phase = "resolve"
  BY TypedRest DEF Handler, Resolve
<1> HIDE DEF moved
<1>4. VerdictObserved'
  BY <1>1, <1>2, <1>3 DEF VerdictObserved
<1>5. EndOnItsWay'
  <2>1. \A g \in handlers : g.phase = "persist" => g \in handlers'
    BY <1>2, <1>3
  <2> QED BY <1>1, <2>1 DEF EndOnItsWay
<1>6. EndedBeforeRoot' /\ ReleasedHasEnded'
  BY <1>1 DEF EndedBeforeRoot, ReleasedHasEnded
<1>7. VerdictStands'
  BY <1>1, <1>2, <1>3 DEF VerdictStands
<1> QED BY <1>4, <1>5, <1>6, <1>7

LEMMA ObserveAgrees ==
    ASSUME Typed, Agreed, NEW h \in handlers, ObserveTerminal(h)
    PROVE  Agreed'
<1> DEFINE w == h.report.workflow
           moved == [h EXCEPT !.phase = "persist"]
<1> USE DEF Agreed
<1>1. UNCHANGED <<rows, releases, crashes>> /\ h.phase = "observe"
  BY DEF ObserveTerminal, world
<1>2. w \in Workflows /\ h.report.status \in RootEnds /\ Ended(h.report.status)
  BY <1>1, TypedRest, EndsOfRoots
<1>3. CASE roots' = roots /\ handlers' = handlers \ {h}
  <2>1. VerdictObserved' /\ EndedBeforeRoot' /\ VerdictStands' /\ ReleasedHasEnded'
    BY <1>1, <1>3 DEF VerdictObserved, EndedBeforeRoot, VerdictStands, ReleasedHasEnded
  <2>2. \A g \in handlers : g.phase = "persist" => g \in handlers'
    BY <1>1, <1>3
  <2>3. EndOnItsWay'
    BY <1>1, <1>3, <2>2 DEF EndOnItsWay
  <2> QED BY <2>1, <2>3
<1>4. CASE /\ roots[w] \notin RootEnds /\ roots' = [roots EXCEPT ![w] = h.report.status]
           /\ handlers' = (handlers \ {h}) \cup {moved}
  <2>1. moved.report = h.report /\ moved.phase = "persist"
    BY TypedRest DEF Handler
  <2> HIDE DEF moved
  <2>2. \A v \in Workflows : roots'[v] = IF v = w THEN h.report.status ELSE roots[v]
    BY <1>4, TypedParts
  <2>3. \A g \in handlers : g.phase = "persist" => g \in handlers'
    BY <1>1, <1>4
  <2>4. VerdictObserved'
    <3>1. \A g \in handlers' : g = moved \/ (g \in handlers /\ g.report.workflow \in Workflows)
      BY <1>4, TypedRest
    <3> QED BY <1>1, <1>2, <1>4, <2>1, <2>2, <3>1, EndsOfRoots, TypedRest DEF VerdictObserved
  <2>5. EndOnItsWay'
    <3> SUFFICES ASSUME crashes' = 0, NEW v \in Workflows, roots'[v] \in RootEnds
                 PROVE  \/ EndedRow(rows'[v]) /\ rows'[v].status \in {roots'[v], "cancelled"}
                        \/ \E g \in handlers' : /\ g.report.workflow = v /\ g.phase = "persist"
                                                /\ g.report.status = roots'[v] /\ Ended(roots'[v])
                                                /\ MayReport(rows'[v].status, roots'[v])
      BY DEF EndOnItsWay
    <3>1. CASE v = w
      <4>1. roots'[v] = h.report.status /\ moved \in handlers'
        BY <1>4, <2>2, <3>1
      <4> QED BY <1>1, <1>2, <1>4, <2>1, <3>1, <4>1 DEF VerdictStands
    <3>2. CASE v # w
      BY <1>1, <2>2, <2>3, <3>2 DEF EndOnItsWay
    <3> QED BY <3>1, <3>2
  <2>6. EndedBeforeRoot' /\ ReleasedHasEnded'
    BY <1>1, <1>2, <2>2 DEF EndedBeforeRoot, ReleasedHasEnded
  <2>7. VerdictStands'
    <3>1. \A g \in handlers' : g.phase = "observe" => g \in handlers
      BY <1>4, <2>1
    <3> QED BY <1>1, <1>2, <2>2, <3>1, TypedRest DEF VerdictStands
  <2> QED BY <2>4, <2>5, <2>6, <2>7
<1> QED BY <1>3, <1>4 DEF ObserveTerminal, Becomes

LEMMA PersistAgrees ==
    ASSUME Typed, Agreed, NEW h \in handlers, Persist(h)
    PROVE  Agreed'
<1> DEFINE w == h.report.workflow
           s == h.report.status
<1> USE DEF Agreed
<1>1. UNCHANGED <<roots, releases, crashes>> /\ handlers' = handlers \ {h} /\ h.phase = "persist"
  BY DEF Persist, world
<1>2. w \in Workflows /\ s \in Statuses
  BY TypedRest
<1>3. CASE ~MayReport(rows[w].status, s) /\ rows' = rows
  <2>1. VerdictObserved' /\ EndedBeforeRoot' /\ VerdictStands' /\ ReleasedHasEnded'
    BY <1>1, <1>3 DEF VerdictObserved, EndedBeforeRoot, VerdictStands, ReleasedHasEnded
  <2>2. EndOnItsWay'
    BY <1>1, <1>3 DEF EndOnItsWay
  <2> QED BY <2>1, <2>2
<1>4. CASE MayReport(rows[w].status, s) /\ rows' = [rows EXCEPT ![w] = Reported(h)]
  <2>1. \A v \in Workflows : v # w => rows'[v] = rows[v]
    BY <1>4, TypedParts
  <2>2. rows'[w].status = s
    BY <1>2, <1>4, TypedParts DEF Reported
  <2>3. /\ Ended(s) => roots[w] = s /\ s \in RootEnds
        /\ ~Ended(s) => ~EndedRow(rows[w])
        /\ \A v \in Statuses : Ended(v) =>
              /\ MayReport(s, v) => MayReport(rows[w].status, v)
              /\ MayReport(rows[w].status, v) /\ ~Ended(s) => MayReport(s, v)
    BY <1>1, <1>2, <1>4, ReportedVerdict, EndsOfRoots DEF VerdictObserved, EndedRow
  <2>4. VerdictObserved'
    <3>1. \A g \in handlers' : g \in handlers /\ g.report.workflow \in Workflows /\ g.report.status \in Statuses
      BY <1>1, TypedRest
    <3> QED BY <1>1, <2>1, <2>2, <2>3, <3>1 DEF VerdictObserved
  <2>5. EndOnItsWay'
    <3> SUFFICES ASSUME crashes = 0, NEW v \in Workflows, roots[v] \in RootEnds
                 PROVE  \/ EndedRow(rows'[v]) /\ rows'[v].status \in {roots[v], "cancelled"}
                        \/ \E g \in handlers' : /\ g.report.workflow = v /\ g.phase = "persist"
                                                /\ g.report.status = roots[v] /\ Ended(roots[v])
                                                /\ MayReport(rows'[v].status, roots[v])
      BY <1>1 DEF EndOnItsWay
    <3>1. CASE v = w /\ Ended(s)
      BY <1>2, <2>2, <2>3, <3>1 DEF EndedRow
    <3>2. CASE v = w /\ ~Ended(s)
      <4>1. PICK g \in handlers : /\ g.report.workflow = w /\ g.phase = "persist"
                                  /\ g.report.status = roots[w] /\ Ended(roots[w])
                                  /\ MayReport(rows[w].status, roots[w])
        BY <2>3, <3>2 DEF EndOnItsWay
      <4>2. g # h /\ roots[w] \in Statuses
        BY <3>2, <4>1, TypedRest
      <4> QED BY <1>1, <2>2, <2>3, <3>2, <4>1, <4>2
    <3>3. CASE v # w
      BY <1>1, <2>1, <3>3 DEF EndOnItsWay
    <3> QED BY <3>1, <3>2, <3>3
  <2>6. EndedBeforeRoot'
    BY <1>1, <2>1, <2>2, <2>3 DEF EndedBeforeRoot, EndedRow
  <2>7. VerdictStands'
    <3> SUFFICES ASSUME NEW g \in handlers, g.phase = "observe", roots[g.report.workflow] \notin RootEnds
                 PROVE  \/ MayReport(rows'[g.report.workflow].status, g.report.status)
                        \/ /\ EndedRow(rows'[g.report.workflow])
                           /\ rows'[g.report.workflow].status \in {g.report.status, "cancelled"}
      BY <1>1 DEF VerdictStands
    <3>1. g.report.workflow \in Workflows /\ g.report.status \in Statuses /\ Ended(g.report.status)
      BY TypedRest
    <3>2. CASE g.report.workflow # w
      BY <2>1, <3>1, <3>2 DEF VerdictStands
    <3>3. CASE g.report.workflow = w
      BY <2>2, <2>3, <3>1, <3>3 DEF VerdictStands
    <3> QED BY <3>2, <3>3
  <2>8. ReleasedHasEnded'
    BY <1>1, <1>2, <2>1, <2>2, <2>3 DEF ReleasedHasEnded, EndedRow
  <2> QED BY <2>4, <2>5, <2>6, <2>7, <2>8
<1> QED BY <1>3, <1>4 DEF Persist, Reported, ExternallyReachable

\* What the other actors do to rows and roots.
LEMMA MovedByServer ==
    ASSUME Typed, NEW w \in Workflows, NEW target, NEW edge, MayMove(w, target, edge),
           rows' = Moved(w, target, edge)
    PROVE  \A v \in Workflows : rows'[v].status = rows[v].status \/ ServerMove(v, rows'[v])
<1>1. rows \in [Workflows -> Row]
  BY TypedParts
<1>2. CASE rows' = rows
  BY <1>2
<1>3. ASSUME NEW row, ServerMove(w, row), rows' = [rows EXCEPT ![w] = row]
      PROVE  \A v \in Workflows : rows'[v].status = rows[v].status \/ ServerMove(v, rows'[v])
  <2>1. rows'[w] = row /\ \A v \in Workflows : v # w => rows'[v] = rows[v]
    BY <1>1, <1>3
  <2> QED BY <1>3, <2>1
<1> QED BY <1>1, <1>2, <1>3, MovedRows

LEMMA WatchdogMoves ==
    ASSUME Typed, NEW w \in Workflows, NEW still, WatchdogFails(w, still)
    PROVE  /\ \A v \in Workflows : rows'[v].status = rows[v].status \/ ServerMove(v, rows'[v])
           /\ \A v \in Workflows : releases'[v] = "release" =>
                 releases[v] = "release" \/ EndedRow(rows'[v])
<1>1. MayMove(w, ToFailed, Completing) /\ rows \in [Workflows -> Row]
  BY TypedParts DEF MayMove
<1>2. CASE rows' = rows /\ releases' = releases
  BY <1>2
<1>3. CASE /\ Moves(w, ToFailed, Completing) /\ rows' = Moved(w, ToFailed, Completing)
           /\ releases' = [releases EXCEPT ![w] = "release"]
  <2>1. PICK t \in Transitions :
              /\ t.from_status = rows[w].status
              /\ t.to_status = W!TransitionTarget(rows[w].status, ToFailed, Completing)
              /\ W!Satisfies(StateDefinitions[t.to_status], ToFailed)
    BY <1>3, MoveFollowsTransition
  <2>2. t.to_status \in Statuses /\ Ended(t.to_status)
    BY <2>1, FailedTarget, TransitionStatuses
  <2>3. rows'[w].status = t.to_status
    BY <1>1, <1>3, <2>1 DEF Moved, Row
  <2>4. EndedRow(rows'[w]) /\ \A v \in Workflows : v # w => releases'[v] = releases[v]
    BY <1>3, <2>2, <2>3, TypedRest DEF EndedRow
  <2> QED BY <1>1, <1>3, <2>4, MovedByServer
<1> QED BY <1>2, <1>3 DEF WatchdogFails

LEMMA RowsOfOthers ==
    ASSUME Typed, NEW w \in Workflows,
           Create(w) \/ MarkFailed(w) \/ Cancel(w) \/ AckTimeout(w) \/ SweepFails(w)
    PROVE  OthersStep
<1> USE DEF OthersStep
<1>1. UNCHANGED <<roots, handlers, crashes>>
  BY DEF Create, MarkFailed, Cancel, AckTimeout, SweepFails, memory, world
<1>2. CASE Create(w)
  <2>1. PICK row : NewRow(row) /\ rows' = [rows EXCEPT ![w] = row]
    BY <1>2, CreatedRow, TypedParts
  <2>2. ~Ended(row.status)
    BY <2>1, EdgeAssumption DEF NewRow
  <2>3. ~Begun(w) /\ roots[w] = "none"
    BY <1>2 DEF Create, Begun, Typed, Started
  <2>4. rows'[w] = row /\ \A v \in Workflows : v # w => rows'[v] = rows[v]
    BY <2>1, TypedParts
  <2> QED BY <1>1, <1>2, <2>2, <2>3, <2>4 DEF Create
<1>3. CASE MarkFailed(w) \/ Cancel(w)
  <2>1. UNCHANGED releases
    BY <1>3 DEF MarkFailed, Cancel, memory
  <2>2. \A v \in Workflows : rows'[v].status = rows[v].status \/ ServerMove(v, rows'[v])
    BY <1>3, MovedByServer DEF MarkFailed, Cancel, MayMove
  <2> QED BY <1>1, <2>1, <2>2
<1>4. CASE AckTimeout(w) \/ SweepFails(w)
  <2>1. /\ \A v \in Workflows : rows'[v].status = rows[v].status \/ ServerMove(v, rows'[v])
        /\ \A v \in Workflows : releases'[v] = "release" =>
              releases[v] = "release" \/ EndedRow(rows'[v])
    BY <1>4, WatchdogMoves DEF AckTimeout, SweepFails
  <2> QED BY <1>1, <2>1
<1> QED BY <1>2, <1>3, <1>4

\* No root that has ended is opened again, and none ends but as its row or failed.
RootsOfOthers ==
    \A w \in Workflows :
        \/ roots'[w] = roots[w]
        \/ roots[w] \notin RootEnds /\ roots'[w] \notin RootEnds
        \/ roots[w] \notin RootEnds /\ EndedRow(rows[w]) /\ roots'[w] \in {rows[w].status, "failed"}

LEMMA ReconciledOfOthers ==
    ASSUME Typed, NEW state,
           \A w \in Workflows : \/ state[w] = roots[w]
                                \/ roots[w] \notin RootEnds /\ state[w] \notin RootEnds,
           roots' = Reconciled(state)
    PROVE  RootsOfOthers
<1>1. \A w \in Workflows : roots'[w] = IF state[w] = "ambiguous" /\ Terminal(w)
                                       THEN rows[w].status ELSE state[w]
  BY DEF Reconciled
<1>2. "ambiguous" \notin RootEnds
  BY DEF RootEnds
<1> QED BY <1>1, <1>2, TerminalRow DEF RootsOfOthers, EndedRow

LEMMA RootStepsOfOthers ==
    ASSUME Typed, Agreed,
           \/ \E p \in Dispatchers : Prepare(p) \/ RecordSent(p) \/ RecordUnsent(p)
           \/ \E w \in Workflows : Release(w) \/ ExpirePending(w)
           \/ Disconnect \/ Restart
    PROVE  RootsOfOthers
<1>0. roots \in [Workflows -> RootStates]
  BY TypedParts
<1>1. ASSUME NEW p \in Dispatchers, Prepare(p) PROVE RootsOfOthers
  <2> DEFINE w == procs[p].on
             admitted == [roots EXCEPT ![w] = IF @ = "none" THEN "queued" ELSE @]
  <2>1. w \in Workflows
    BY <1>1, OnAWorkflow DEF Prepare, InTransit
  <2>2. \/ roots' = roots \/ roots' = admitted
        \/ roots' = [admitted EXCEPT ![w] = IF @ = "queued" THEN "dispatching" ELSE @]
    BY <1>1 DEF Prepare
  <2> HIDE DEF w
  <2>3. \A v \in Workflows : \/ roots'[v] = roots[v]
                             \/ roots[v] \in {"none", "queued"} /\ roots'[v] \in {"queued", "dispatching"}
    BY <1>0, <2>1, <2>2
  <2> QED BY <2>3 DEF RootsOfOthers, RootEnds
<1>2. ASSUME NEW p \in Dispatchers, RecordSent(p) \/ RecordUnsent(p) PROVE RootsOfOthers
  <2> DEFINE w == procs[p].on
  <2>1. w \in Workflows
    BY <1>2, OnAWorkflow DEF RecordSent, RecordUnsent, InTransit
  <2>2. \/ roots' = [roots EXCEPT ![w] = IF @ = "dispatching" THEN "dispatched" ELSE @]
        \/ roots' = [roots EXCEPT ![w] = IF @ \in {"dispatching", "dispatched"} THEN "ambiguous" ELSE @]
    BY <1>2 DEF RecordSent, RecordUnsent
  <2> HIDE DEF w
  <2>3. \A v \in Workflows : \/ roots'[v] = roots[v]
                             \/ /\ roots[v] \in {"dispatching", "dispatched"}
                                /\ roots'[v] \in {"dispatched", "ambiguous"}
    BY <1>0, <2>1, <2>2
  <2> QED BY <2>3 DEF RootsOfOthers, RootEnds
<1>3. ASSUME NEW w \in Workflows, Release(w) PROVE RootsOfOthers
  <2>1. CASE roots' = Reconciled(roots)
    BY <2>1, ReconciledOfOthers
  <2>2. CASE roots[w] \in {"dispatching", "dispatched"} /\ roots' = [roots EXCEPT ![w] = "failed"]
    <3>1. EndedRow(rows[w])
      BY <1>3 DEF Release, Agreed, ReleasedHasEnded
    <3> QED BY <1>0, <2>2, <3>1 DEF RootsOfOthers, RootEnds
  <2> QED BY <1>3, <2>1, <2>2 DEF Release
<1>4. ASSUME NEW ws, roots' = AmbiguousRoots(ws) PROVE RootsOfOthers
  BY <1>4 DEF AmbiguousRoots, RootsOfOthers, RootEnds
<1>5. ASSUME NEW w \in Workflows, ExpirePending(w) PROVE RootsOfOthers
  BY <1>4, <1>5 DEF ExpirePending, Ambiguous, AmbiguousRoots
<1>6. CASE Disconnect
  BY <1>4, <1>6 DEF Disconnect, Ambiguous, AmbiguousRoots
<1>7. CASE Restart
  <2> DEFINE state == [w \in Workflows |->
                 IF roots[w] \in {"dispatching", "dispatched"} THEN "ambiguous" ELSE roots[w]]
  <2>1. roots' = Reconciled(state)
    BY <1>7 DEF Restart
  <2>2. \A w \in Workflows : \/ state[w] = roots[w]
                             \/ roots[w] \notin RootEnds /\ state[w] \notin RootEnds
    BY DEF RootEnds
  <2> HIDE DEF state
  <2> QED BY <2>1, <2>2, ReconciledOfOthers
<1> QED BY <1>1, <1>2, <1>3, <1>5, <1>6, <1>7

LEMMA StepsOfOthers ==
    ASSUME Typed, Agreed, [Next]_vars, ~ \E h \in handlers : Handle(h)
    PROVE  OthersStep
<1> USE DEF database, memory, world
<1>1. ASSUME UNCHANGED rows, RootsOfOthers, UNCHANGED crashes,
             \A w \in Workflows : releases'[w] = "release" => releases[w] = "release",
             UNCHANGED handlers
      PROVE  OthersStep
  BY <1>1 DEF RootsOfOthers, OthersStep
<1>2. CASE \/ \E p \in Dispatchers : Prepare(p) \/ RecordSent(p) \/ RecordUnsent(p)
           \/ \E w \in Workflows : Release(w) \/ ExpirePending(w)
           \/ Disconnect \/ Restart
  <2>1. UNCHANGED <<rows, crashes, handlers>>
    BY <1>2 DEF Prepare, RecordSent, RecordUnsent, Release, ExpirePending, Disconnect, Restart
  <2>2. \A w \in Workflows : releases'[w] = "release" => releases[w] = "release"
    <3>1. releases' = releases \/ \E w \in Workflows : releases' = [releases EXCEPT ![w] = "cancel"]
      BY <1>2 DEF Prepare, RecordSent, RecordUnsent, Release, ExpirePending, Disconnect, Restart
    <3> QED BY <3>1, TypedRest
  <2> QED BY <1>1, <1>2, <2>1, <2>2, RootStepsOfOthers
<1>3. ASSUME NEW w \in Workflows,
             Create(w) \/ MarkFailed(w) \/ Cancel(w) \/ AckTimeout(w) \/ SweepFails(w)
      PROVE  OthersStep
  BY <1>3, RowsOfOthers
<1>4. ASSUME NEW p \in Dispatchers, MarkRunning(p) PROVE OthersStep
  <2>1. UNCHANGED <<roots, handlers, crashes, releases>>
    BY <1>4 DEF MarkRunning
  <2>2. procs[p].on \in Workflows /\ rows' = Moved(procs[p].on, ToRunning, Starting)
    BY <1>4, OnAWorkflow DEF MarkRunning, InTransit
  <2>3. \A v \in Workflows : rows'[v].status = rows[v].status \/ ServerMove(v, rows'[v])
    BY <2>2, MovedByServer DEF MayMove
  <2> QED BY <2>1, <2>3 DEF OthersStep
<1>5. ASSUME NEW w \in Workflows, SendCancel(w) PROVE OthersStep
  <2>1. UNCHANGED <<rows, roots, crashes, handlers>> /\ releases' = [releases EXCEPT ![w] = "no"]
    BY <1>5 DEF SendCancel
  <2> QED BY <2>1, TypedRest DEF OthersStep
<1>6. ASSUME NEW w \in Workflows, NEW status \in PhoneStatuses, PhoneReports(w, status) PROVE OthersStep
  <2>1. UNCHANGED <<rows, roots, crashes, releases>>
    BY <1>6 DEF PhoneReports
  <2>2. handlers \subseteq handlers' /\ \A h \in handlers' : h \in handlers \/ h.phase = "resolve"
    BY <1>6 DEF PhoneReports
  <2> QED BY <2>1, <2>2 DEF OthersStep
<1>7. CASE Crash
  <2>1. UNCHANGED <<rows, roots>> /\ handlers' = {} /\ crashes' = crashes + 1
    BY <1>7 DEF Crash, NoMemory
  <2>2. crashes' # 0
    BY <2>1 DEF Typed, WorldTyped
  <2>3. releases' = [w \in Workflows |-> "no"]
    BY <1>7 DEF Crash, NoMemory
  <2> QED BY <2>1, <2>2, <2>3 DEF OthersStep
<1>8. CASE \/ \E w \in Workflows : Accept(w) \/ TaskEnds(w) \/ Age(w) \/ SweepReads(w)
           \/ \E p \in Dispatchers : Fetch(p) \/ Send(p)
           \/ OtherEnds \/ Connect \/ UNCHANGED vars
  <2>1. UNCHANGED <<rows, roots, handlers, crashes, releases>>
    BY <1>8 DEF Accept, TaskEnds, Age, SweepReads, Fetch, Send, OtherEnds, Connect, vars
  <2> QED BY <2>1 DEF OthersStep
<1>9. ASSUME NEW p \in Dispatchers, Egress(p) PROVE OthersStep
  BY <1>2, <1>4, <1>8, <1>9 DEF Egress
<1>10. ASSUME NEW p \in Pumps, Fetch(p) PROVE OthersStep
  BY <1>8, <1>10 DEF Dispatchers
<1> QED BY <1>2, <1>3, <1>5, <1>6, <1>7, <1>8, <1>9, <1>10, NextSteps

LEMMA InitAgreed == Init => Agreed
<1> SUFFICES ASSUME Init PROVE Agreed
  OBVIOUS
<1>1. handlers = {} /\ \A w \in Workflows : /\ roots[w] = "none" /\ rows[w].status = NULL
                                            /\ releases[w] = "no"
  BY DEF Init
<1>2. "none" \notin RootEnds /\ NULL \notin Statuses
  BY LifecycleTypes DEF RootEnds
<1> QED BY <1>1, <1>2 DEF Agreed, VerdictObserved, EndOnItsWay, EndedBeforeRoot, VerdictStands,
           ReleasedHasEnded, EndedRow

LEMMA StepAgreed == Typed /\ Agreed /\ [Next]_vars => Agreed'
  BY StepsOfOthers, OthersAgree, ResolveAgrees, ObserveAgrees, PersistAgrees DEF Handle

\* The phone's verdict reaches the row: once it has ended the root and its handler is
\* through, the row says the same or was cancelled, in every order in which the other
\* handlers, the timers, the sweep, the cancellation and the disconnects may come.
THEOREM VerdictReachesRow == Spec => []OutcomeReachesRow
<1>1. Init => Typed /\ Agreed
  BY InitTyped, InitAgreed
<1>2. Typed /\ Agreed /\ [Next]_vars => Typed' /\ Agreed'
  BY StepTyped, StepAgreed
<1>3. Agreed => OutcomeReachesRow
  BY DEF Agreed, EndOnItsWay, OutcomeReachesRow
<1> QED BY <1>1, <1>2, <1>3, PTL DEF Spec
=============================================================================
