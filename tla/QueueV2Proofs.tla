---------------------------- MODULE QueueV2Proofs ----------------------------
(***************************************************************************)
(* Proofs about QueueV2, for every set of phones, keys, payloads and        *)
(* execution ids, every epoch bound, and every lifecycle configuration that *)
(* meets LifecycleAssumption and JobLifecycleAssumption.                    *)
(*                                                                         *)
(* The row writers are first reduced to five kinds of step (StepKinds);     *)
(* each invariant is then proved kind by kind.                              *)
(***************************************************************************)
EXTENDS QueueV2Refinement, TLAPS

\* A row that exists is never the absent row.
LEMMA NoRowIsNoRecord == NoRow \notin JobRow /\ NoRow \notin NodeRow
  BY DEF NoRow, JobRow, NodeRow

\* A target a caller can move to is a status whose flags satisfy the selector,
\* and no transition leads back to an initial status.
LEMMA TargetIsSelected ==
    ASSUME NEW from, NEW target, NEW edge, HasTarget(from, target, edge)
    PROVE  LET to == TransitionTarget(from, target, edge) IN
           /\ to \in Statuses
           /\ Satisfies(StateDefinitions[to], target)
           /\ StateDefinitions[to].initial = FALSE
<1> DEFINE matching == MatchingTransitions(from, target, edge)
<1>1. matching # {}
  BY DEF HasTarget, TransitionTarget
<1>2. PICK t \in matching : TransitionTarget(from, target, edge) = t.to_status
  BY <1>1 DEF TransitionTarget
<1>3. t \in Transitions /\ Satisfies(StateDefinitions[t.to_status], target)
  BY DEF MatchingTransitions
<1>4. t.to_status \in Statuses
  BY <1>3, LifecycleAssumption DEF TransitionRow
<1>5. StateDefinitions[t.to_status].initial = FALSE
  <2>1. StateMatches(t.to_status, [initial |-> FALSE])
    BY <1>3, JobLifecycleAssumption
  <2> QED BY <2>1 DEF StateMatches, Satisfies
<1> QED BY <1>2, <1>3, <1>4, <1>5

\* A new row starts in the one initial status, which is not terminal.
LEMMA InitialStatusFlags ==
    /\ InitialStatus \in Statuses
    /\ StateDefinitions[InitialStatus].initial = TRUE
    /\ StateDefinitions[InitialStatus].terminal = FALSE
<1>1. InitialStatus \in Statuses /\ StateMatches(InitialStatus, [initial |-> TRUE])
  BY JobLifecycleAssumption DEF InitialStatus
<1>2. StateMatches(InitialStatus, [terminal |-> FALSE])
  BY <1>1, JobLifecycleAssumption
<1> QED BY <1>1, <1>2 DEF StateMatches, Satisfies

-----------------------------------------------------------------------------
(* The kinds of step. *)

\* No job row is written; the node table may gain a row or an epoch.
QuietStep ==
    /\ jobs' = jobs
    /\ nodes' \in [Nodes -> NodeRow \cup {NoRow}]
    /\ \A n \in Nodes : Registered(n) =>
          /\ nodes'[n] # NoRow
          /\ nodes'[n].next_node_seq = nodes[n].next_node_seq
          /\ nodes'[n].connection_epoch >= nodes[n].connection_epoch

\* A request enters the queue behind everything its phone already holds.
EnqueueStep(j) ==
    /\ Registered(j[1]) /\ ~Exists(j)
    /\ nodes' = [nodes EXCEPT ![j[1]].next_node_seq = @ + 1]
    /\ \E p \in Payloads : jobs' = [jobs EXCEPT ![j] = NewJob(nodes[j[1]].next_node_seq, p)]

\* The head of an idle phone's line is claimed on the current epoch.
ClaimStep(j) ==
    /\ Registered(j[1]) /\ ~Busy(j[1]) /\ IsHead(j[1], j)
    /\ nodes' = nodes
    /\ \E x \in ExecutionIds, to \in Statuses :
          /\ StateDefinitions[to].terminal = FALSE /\ StateDefinitions[to].initial = FALSE
          /\ jobs' = [jobs EXCEPT ![j] =
                        ClaimedRow(jobs[j], to, x, nodes[j[1]].connection_epoch)]

\* A claimed row of the current epoch starts.
StartStep(j) ==
    /\ Exists(j) /\ Claimed(j) /\ ~jobs[j].terminal_at
    /\ jobs[j].claimed_connection_epoch = nodes[j[1]].connection_epoch
    /\ nodes' = nodes
    /\ \E to \in Statuses :
          /\ StateDefinitions[to].terminal = FALSE /\ StateDefinitions[to].initial = FALSE
          /\ jobs' = [jobs EXCEPT ![j] = StartedRow(jobs[j], to)]

\* An unfinished row ends: with a result of the current epoch, or by recovery.
FinishStep(j) ==
    /\ Exists(j) /\ ~jobs[j].terminal_at
    /\ nodes' = nodes
    /\ \E to \in Statuses, reason \in ResultReasons \cup {"recovery"} :
          /\ StateDefinitions[to].terminal = TRUE
          /\ reason \in ResultReasons =>
                Claimed(j) /\ jobs[j].claimed_connection_epoch = nodes[j[1]].connection_epoch
          /\ jobs' = [jobs EXCEPT ![j] = FinishedRow(jobs[j], to, reason)]

JobStep(j) == EnqueueStep(j) \/ ClaimStep(j) \/ StartStep(j) \/ FinishStep(j)

LEMMA RegisterKind ==
    ASSUME TypeOK, NEW n \in Nodes, RegisterNode(n) PROVE QuietStep
<1>1. [next_node_seq |-> 1, connection_epoch |-> 0] \in NodeRow
  BY DEF NodeRow
<1>2. \A m \in Nodes : nodes'[m] = nodes[m] \/ ~Registered(m)
  BY DEF RegisterNode, TypeOK, Registered
<1>3. \A m \in Nodes : Registered(m) => nodes[m] \in NodeRow
  BY DEF TypeOK, Registered
<1> QED BY <1>1, <1>2, <1>3 DEF RegisterNode, TypeOK, QuietStep, NodeRow, Registered

LEMMA BumpKind ==
    ASSUME TypeOK, NEW n \in Nodes, NEW e \in Epochs, BumpConnectionEpoch(n, e) PROVE QuietStep
<1>1. \A m \in Nodes : Registered(m) => nodes[m] \in NodeRow
  BY DEF TypeOK, Registered
<1>2. CASE nodes' = nodes
  BY <1>1, <1>2 DEF BumpConnectionEpoch, TypeOK, QuietStep, NodeRow, Registered
<1>3. CASE nodes' = [nodes EXCEPT ![n].connection_epoch = @ + 1]
  <2>1. nodes[n] \in NodeRow
    BY <1>1 DEF BumpConnectionEpoch
  <2>2. nodes'[n] = [nodes[n] EXCEPT !.connection_epoch = @ + 1] /\ nodes'[n] \in NodeRow
    BY <1>3, <2>1 DEF TypeOK, NodeRow
  <2>3. \A m \in Nodes \ {n} : nodes'[m] = nodes[m]
    BY <1>3 DEF TypeOK
  <2>4. nodes' \in [Nodes -> NodeRow \cup {NoRow}]
    BY <1>3, <2>2, <2>3 DEF TypeOK
  <2>5. nodes'[n] # NoRow
    BY <2>2, NoRowIsNoRecord
  <2>6. /\ nodes'[n].next_node_seq = nodes[n].next_node_seq
        /\ nodes'[n].connection_epoch >= nodes[n].connection_epoch
    BY <2>1, <2>2 DEF NodeRow
  <2>7. jobs' = jobs
    BY DEF BumpConnectionEpoch
  <2> QED BY <1>1, <2>3, <2>4, <2>5, <2>6, <2>7 DEF QuietStep, NodeRow, Registered
<1> QED BY <1>2, <1>3 DEF BumpConnectionEpoch

LEMMA EnqueueKind ==
    ASSUME TypeOK, NEW n \in Nodes, NEW k \in Keys, NEW p \in Payloads, EnqueueJob(n, k, p)
    PROVE  (jobs' = jobs /\ nodes' = nodes) \/ \E j \in Jobs : EnqueueStep(j)
<1> DEFINE j == <<n, k>>
<1>1. j \in Jobs /\ j[1] = n
  BY DEF Jobs
<1>2. CASE Exists(j)
  BY <1>2 DEF EnqueueJob
<1>3. CASE ~Exists(j)
  <2>1. EnqueueStep(j)
    BY <1>1, <1>3 DEF EnqueueJob, EnqueueStep, AdvanceSequence
  <2> QED BY <1>1, <2>1
<1> QED BY <1>2, <1>3

LEMMA ClaimKind ==
    ASSUME TypeOK, NEW n \in Nodes, NEW e \in Epochs, NEW x \in ExecutionIds,
           ClaimNextJob(n, e, x)
    PROVE  nodes' = nodes /\ (jobs' = jobs \/ \E j \in Jobs : ClaimStep(j))
<1>1. CASE ClaimNothing(n, e)
  BY <1>1 DEF ClaimNothing
<1>2. CASE ClaimHead(n, e, x)
  <2>1. PICK j \in Jobs :
            /\ IsHead(n, j)
            /\ HasTarget(jobs[j].status, ClaimTarget[1], ClaimTarget[2])
            /\ jobs' = [jobs EXCEPT ![j] =
                  ClaimedRow(jobs[j], TransitionTarget(jobs[j].status, ClaimTarget[1], ClaimTarget[2]),
                             x, e)]
    BY <1>2 DEF ClaimHead
  <2> DEFINE to == TransitionTarget(jobs[j].status, ClaimTarget[1], ClaimTarget[2])
  <2>2. /\ to \in Statuses /\ Satisfies(StateDefinitions[to], ClaimTarget[1])
        /\ StateDefinitions[to].initial = FALSE
    BY <2>1, TargetIsSelected
  <2>3. StateDefinitions[to].terminal = FALSE
    BY <2>2 DEF Satisfies, ClaimTarget
  <2>4. j[1] = n
    BY <2>1 DEF IsHead, ClaimableJobs, JobsOf
  <2>5. nodes[n].connection_epoch = e /\ ~Busy(n) /\ nodes' = nodes /\ Registered(n)
    BY <1>2 DEF ClaimHead, ClaimNextJob
  <2>6. ClaimStep(j)
    BY <2>1, <2>2, <2>3, <2>4, <2>5 DEF ClaimStep
  <2> QED BY <2>5, <2>6
<1> QED BY <1>1, <1>2 DEF ClaimNextJob

LEMMA StartKind ==
    ASSUME TypeOK, NEW j \in Jobs, NEW e, NEW v, NEW g, NEW x \in ExecutionIds,
           StartExecution(j, e, v, g, x)
    PROVE  nodes' = nodes /\ (jobs' = jobs \/ StartStep(j))
<1> DEFINE from == jobs[j].status
           to == TransitionTarget(from, StartTarget[1], StartTarget[2])
<1>1. CASE /\ nodes[j[1]].connection_epoch = e
           /\ HasTarget(from, StartTarget[1], StartTarget[2])
           /\ StartMatches(j, e, v, g, x)
           /\ jobs' = [jobs EXCEPT ![j] = StartedRow(jobs[j], to)]
  <2>1. /\ to \in Statuses /\ Satisfies(StateDefinitions[to], StartTarget[1])
        /\ StateDefinitions[to].initial = FALSE
    BY <1>1, TargetIsSelected
  <2>2. StateDefinitions[to].terminal = FALSE
    BY <2>1 DEF Satisfies, StartTarget
  <2>3. Claimed(j)
    BY <1>1, BoundAssumption DEF StartMatches, Claimed
  <2> QED BY <1>1, <2>1, <2>2, <2>3 DEF StartExecution, StartStep, StartMatches
<1>2. CASE jobs' = jobs
  BY <1>2 DEF StartExecution
<1> QED BY <1>1, <1>2 DEF StartExecution

LEMMA ResultKind ==
    ASSUME TypeOK, NEW j \in Jobs, NEW x \in ExecutionIds, NEW e, NEW g, NEW s \in BOOLEAN,
           RecordResult(j, x, e, g, s)
    PROVE  nodes' = nodes /\ (jobs' = jobs \/ FinishStep(j))
<1> DEFINE from == jobs[j].status
           target == ResultTarget(s)
           to == TransitionTarget(from, target[1], target[2])
           reason == IF s THEN "result_succeeded" ELSE "result_failed"
<1>1. CASE /\ EpochFence(j, e)
           /\ AttemptRunning(j, g, x)
           /\ HasTarget(from, target[1], target[2])
           /\ jobs' = [jobs EXCEPT ![j] = FinishedRow(jobs[j], to, reason)]
  <2>1. to \in Statuses /\ Satisfies(StateDefinitions[to], target[1])
    BY <1>1, TargetIsSelected
  <2>2. StateDefinitions[to].terminal = TRUE
    BY <2>1 DEF Satisfies, ResultTarget
  <2>3. reason \in ResultReasons
    BY DEF ResultReasons
  <2>4. Claimed(j) /\ jobs[j].claimed_connection_epoch = nodes[j[1]].connection_epoch
    BY <1>1, BoundAssumption DEF EpochFence, AttemptRunning, Claimed
  <2>5. Exists(j) /\ ~jobs[j].terminal_at /\ nodes' = nodes
    BY <1>1 DEF RecordResult, AttemptRunning
  <2> HIDE DEF reason, to, target
  <2> QED BY <1>1, <2>1, <2>2, <2>3, <2>4, <2>5 DEF FinishStep
<1>2. CASE jobs' = jobs
  BY <1>2 DEF RecordResult
<1> QED BY <1>1, <1>2 DEF RecordResult

LEMMA StuckKind ==
    ASSUME TypeOK, NEW j \in Jobs, MarkStuck(j)
    PROVE  nodes' = nodes /\ (jobs' = jobs \/ FinishStep(j))
<1> DEFINE to == TransitionTarget(jobs[j].status, StuckTarget[1], StuckTarget[2])
<1>1. CASE jobs[j].terminal_at
  BY <1>1 DEF MarkStuck
<1>2. CASE ~jobs[j].terminal_at
  <2>1. to \in Statuses /\ Satisfies(StateDefinitions[to], StuckTarget[1])
    BY <1>2, TargetIsSelected DEF MarkStuck
  <2>2. StateDefinitions[to].terminal = TRUE
    BY <2>1 DEF Satisfies, StuckTarget
  <2>3. /\ Exists(j) /\ nodes' = nodes
        /\ jobs' = [jobs EXCEPT ![j] = FinishedRow(jobs[j], to, "recovery")]
    BY <1>2 DEF MarkStuck
  <2>4. "recovery" \notin ResultReasons
    BY DEF ResultReasons
  <2> HIDE DEF to
  <2> QED BY <1>2, <2>1, <2>2, <2>3, <2>4 DEF FinishStep
<1> QED BY <1>1, <1>2

\* Every call of every pnq_* function is one of the five kinds of step.
LEMMA StepKinds ==
    ASSUME TypeOK, [Next]_vars
    PROVE  QuietStep \/ \E j \in Jobs : JobStep(j)
<1>1. CASE jobs' = jobs /\ nodes' = nodes
  <2>1. \A n \in Nodes : Registered(n) => nodes[n] \in NodeRow
    BY DEF TypeOK, Registered
  <2> QED BY <1>1, <2>1 DEF QuietStep, TypeOK, NodeRow, Registered
<1>2. ASSUME NEW n \in Nodes, RegisterNode(n) PROVE QuietStep
  BY <1>2, RegisterKind
<1>3. ASSUME NEW n \in Nodes, NEW e \in Epochs, BumpConnectionEpoch(n, e) PROVE QuietStep
  BY <1>3, BumpKind
<1>4. ASSUME NEW n \in Nodes, NEW k \in Keys, NEW p \in Payloads, EnqueueJob(n, k, p)
      PROVE  QuietStep \/ \E j \in Jobs : JobStep(j)
  BY <1>1, <1>4, EnqueueKind DEF JobStep
<1>5. ASSUME NEW n \in Nodes, NEW e \in Epochs, NEW x \in ExecutionIds, ClaimNextJob(n, e, x)
      PROVE  QuietStep \/ \E j \in Jobs : JobStep(j)
  BY <1>1, <1>5, ClaimKind DEF JobStep
<1>6. ASSUME NEW j \in Jobs, NEW e \in Epochs, NEW v \in 1..4, NEW g \in 0..1,
             NEW x \in ExecutionIds, StartExecution(j, e, v, g, x)
      PROVE  QuietStep \/ \E i \in Jobs : JobStep(i)
  BY <1>1, <1>6, StartKind DEF JobStep
<1>7. ASSUME NEW j \in Jobs, NEW x \in ExecutionIds, NEW e \in Epochs, NEW g \in 0..1,
             NEW s \in BOOLEAN, RecordResult(j, x, e, g, s)
      PROVE  QuietStep \/ \E i \in Jobs : JobStep(i)
  BY <1>1, <1>7, ResultKind DEF JobStep
<1>8. ASSUME NEW j \in Jobs, MarkStuck(j) PROVE QuietStep \/ \E i \in Jobs : JobStep(i)
  BY <1>1, <1>8, StuckKind DEF JobStep
<1>9. CASE UNCHANGED vars
  BY <1>1, <1>9 DEF vars
<1> QED BY <1>2, <1>3, <1>4, <1>5, <1>6, <1>7, <1>8, <1>9 DEF Next

-----------------------------------------------------------------------------
(* Types. *)

AuditRow == [fact : Facts, node : Nodes, key : Keys \cup {NULL}]

\* Whatever a call records is an audit row about a phone or one of its jobs.
LEMMA AuditRowType ==
    ASSUME NEW fact \in Facts
    PROVE  /\ \A n \in Nodes : Audit(fact, n, NULL) => audit' \in AuditRow
           /\ \A j \in Jobs : AuditJob(fact, j) => audit' \in AuditRow
  BY DEF Audit, AuditJob, AuditRow, Jobs

LEMMA AuditStaysTyped ==
    ASSUME TypeOK, [Next]_vars PROVE audit' \in AuditRow \cup {NoRow}
<1>1. audit \in AuditRow \cup {NoRow}
  BY DEF TypeOK, AuditRow
<1>2. /\ "epoch_mismatch" \in Facts /\ "cas_miss" \in Facts /\ "payload_mismatch" \in Facts
      /\ "idempotent_replay" \in Facts /\ "stale_result" \in Facts /\ "late_result" \in Facts
      /\ "terminalized_for_recovery" \in Facts
  BY DEF Facts
<1>3. ASSUME NEW n \in Nodes, RegisterNode(n) PROVE audit' = audit
  BY <1>3 DEF RegisterNode
<1>4. ASSUME NEW n \in Nodes, NEW e \in Epochs, BumpConnectionEpoch(n, e)
      PROVE  audit' \in AuditRow \cup {NoRow}
  BY <1>1, <1>2, <1>4, AuditRowType DEF BumpConnectionEpoch
<1>5. ASSUME NEW n \in Nodes, NEW k \in Keys, NEW p \in Payloads, EnqueueJob(n, k, p)
      PROVE  audit' \in AuditRow \cup {NoRow}
  <2>1. <<n, k>> \in Jobs
    BY DEF Jobs
  <2>2. CASE audit' = audit
    BY <1>1, <2>2
  <2>3. CASE AuditJob("payload_mismatch", <<n, k>>) \/ AuditJob("idempotent_replay", <<n, k>>)
    BY <1>2, <2>1, <2>3, AuditRowType
  <2> QED BY <1>5, <2>2, <2>3 DEF EnqueueJob
<1>6. ASSUME NEW n \in Nodes, NEW e \in Epochs, NEW x \in ExecutionIds, ClaimNextJob(n, e, x)
      PROVE  audit' \in AuditRow \cup {NoRow}
  BY <1>1, <1>2, <1>6, AuditRowType DEF ClaimNextJob, ClaimHead, ClaimNothing
<1>7. ASSUME NEW j \in Jobs, NEW e \in Epochs, NEW v \in 1..4, NEW g \in 0..1,
             NEW x \in ExecutionIds, StartExecution(j, e, v, g, x)
      PROVE  audit' \in AuditRow \cup {NoRow}
  BY <1>1, <1>2, <1>7, AuditRowType DEF StartExecution
<1>8. ASSUME NEW j \in Jobs, NEW x \in ExecutionIds, NEW e \in Epochs, NEW g \in 0..1,
             NEW s \in BOOLEAN, RecordResult(j, x, e, g, s)
      PROVE  audit' \in AuditRow \cup {NoRow}
  <2>1. CASE AuditJob("stale_result", j) \/ AuditJob("late_result", j)
    BY <1>2, <2>1, AuditRowType
  <2> QED BY <1>1, <1>8, <2>1 DEF RecordResult
<1>9. ASSUME NEW j \in Jobs, MarkStuck(j) PROVE audit' \in AuditRow \cup {NoRow}
  BY <1>1, <1>2, <1>9, AuditRowType DEF MarkStuck
<1>10. CASE UNCHANGED vars
  BY <1>1, <1>10 DEF vars
<1> QED BY <1>3, <1>1, <1>4, <1>5, <1>6, <1>7, <1>8, <1>9, <1>10 DEF Next

\* The rows the writers produce are job rows.
LEMMA NewJobType ==
    ASSUME NEW seq \in Nat, NEW p \in Payloads PROVE NewJob(seq, p) \in JobRow
  BY InitialStatusFlags DEF NewJob, JobRow

LEMMA ClaimedRowType ==
    ASSUME NEW row \in JobRow, NEW to \in Statuses, NEW x \in ExecutionIds, NEW e \in Nat
    PROVE  ClaimedRow(row, to, x, e) \in JobRow
<1>1. row.job_version + 1 \in Nat /\ row.dispatch_generation + 1 \in Nat
  BY DEF JobRow
<1> QED BY <1>1, ZenonT(30) DEF ClaimedRow, JobRow

LEMMA StartedRowType ==
    ASSUME NEW row \in JobRow, NEW to \in Statuses PROVE StartedRow(row, to) \in JobRow
<1>1. row.job_version + 1 \in Nat
  BY DEF JobRow
<1> QED BY <1>1, ZenonT(30) DEF StartedRow, JobRow

LEMMA FinishedRowType ==
    ASSUME NEW row \in JobRow, NEW to \in Statuses, NEW reason \in ResultReasons \cup {"recovery"}
    PROVE  FinishedRow(row, to, reason) \in JobRow
<1>1. row.job_version + 1 \in Nat
  BY DEF JobRow
<1> QED BY <1>1, ZenonT(30) DEF FinishedRow, JobRow

LEMMA RowTypes ==
    ASSUME TypeOK
    PROVE  /\ \A j \in Jobs : Exists(j) => jobs[j] \in JobRow
           /\ \A n \in Nodes : Registered(n) => nodes[n] \in NodeRow
           /\ \A j \in Jobs : j[1] \in Nodes
  BY DEF TypeOK, Exists, Registered, Jobs

LEMMA TypeStep == TypeOK /\ [Next]_vars => TypeOK'
<1> SUFFICES ASSUME TypeOK, [Next]_vars PROVE TypeOK'
  OBVIOUS
<1>1. audit' \in AuditRow \cup {NoRow}
  BY AuditStaysTyped
<1>2. CASE QuietStep
  BY <1>1, <1>2 DEF QuietStep, TypeOK, AuditRow
<1>3. ASSUME NEW j \in Jobs, JobStep(j)
      PROVE  /\ nodes' \in [Nodes -> NodeRow \cup {NoRow}]
             /\ jobs' \in [Jobs -> JobRow \cup {NoRow}]
  <2>1. j[1] \in Nodes
    BY RowTypes
  <2>2. CASE EnqueueStep(j)
    <3>1. nodes[j[1]] \in NodeRow
      BY <2>1, <2>2, RowTypes DEF EnqueueStep
    <3>2. [nodes[j[1]] EXCEPT !.next_node_seq = @ + 1] \in NodeRow
      BY <3>1 DEF NodeRow
    <3>3. nodes' \in [Nodes -> NodeRow \cup {NoRow}]
      BY <2>1, <2>2, <3>2 DEF EnqueueStep, TypeOK
    <3>4. nodes[j[1]].next_node_seq \in Nat
      BY <3>1 DEF NodeRow
    <3>5. PICK p \in Payloads : jobs' = [jobs EXCEPT ![j] = NewJob(nodes[j[1]].next_node_seq, p)]
      BY <2>2 DEF EnqueueStep
    <3>6. NewJob(nodes[j[1]].next_node_seq, p) \in JobRow
      BY <3>4, NewJobType
    <3> QED BY <3>3, <3>5, <3>6 DEF TypeOK
  <2>3. CASE ClaimStep(j)
    <3>1. PICK x \in ExecutionIds, to \in Statuses :
              jobs' = [jobs EXCEPT ![j] = ClaimedRow(jobs[j], to, x, nodes[j[1]].connection_epoch)]
      BY <2>3 DEF ClaimStep
    <3>2. nodes[j[1]].connection_epoch \in Nat
      BY <2>1, <2>3, RowTypes DEF ClaimStep, NodeRow
    <3>3. jobs[j] \in JobRow
      BY <2>3, RowTypes DEF ClaimStep, IsHead, ClaimableJobs, JobsOf
    <3>4. ClaimedRow(jobs[j], to, x, nodes[j[1]].connection_epoch) \in JobRow
      BY <3>2, <3>3, ClaimedRowType
    <3> QED BY <2>3, <3>1, <3>4 DEF ClaimStep, TypeOK
  <2>4. CASE StartStep(j)
    <3>1. PICK to \in Statuses : jobs' = [jobs EXCEPT ![j] = StartedRow(jobs[j], to)]
      BY <2>4 DEF StartStep
    <3>2. StartedRow(jobs[j], to) \in JobRow
      BY <2>4, RowTypes, StartedRowType DEF StartStep
    <3> QED BY <2>4, <3>1, <3>2 DEF StartStep, TypeOK
  <2>5. CASE FinishStep(j)
    <3>1. PICK to \in Statuses, reason \in ResultReasons \cup {"recovery"} :
              jobs' = [jobs EXCEPT ![j] = FinishedRow(jobs[j], to, reason)]
      BY <2>5 DEF FinishStep
    <3>2. FinishedRow(jobs[j], to, reason) \in JobRow
      BY <2>5, RowTypes, FinishedRowType DEF FinishStep
    <3> QED BY <2>5, <3>1, <3>2 DEF FinishStep, TypeOK
  <2> QED BY <1>3, <2>2, <2>3, <2>4, <2>5 DEF JobStep
<1> QED BY <1>1, <1>2, <1>3, StepKinds DEF TypeOK, AuditRow

LEMMA TypeInit == Init => TypeOK
  BY DEF Init, TypeOK

\* The tables keep their column types in every reachable state.
THEOREM TypeCorrect == Spec => []TypeOK
<1>1. Init => TypeOK
  BY TypeInit
<1>2. TypeOK /\ [Next]_vars => TypeOK'
  BY TypeStep
<1> QED BY <1>1, <1>2, PTL DEF Spec

-----------------------------------------------------------------------------
(* What each kind of step leaves in the tables. *)

\* The columns of a written row.
LEMMA ClaimedRowFields ==
    ASSUME NEW row \in JobRow, NEW to, NEW x, NEW e, NEW r, r = ClaimedRow(row, to, x, e)
    PROVE  /\ r.node_seq = row.node_seq /\ r.status = to /\ r.execution_id = x
           /\ r.claimed_connection_epoch = e /\ r.terminal_at = row.terminal_at
           /\ r.job_version = row.job_version + 1
  BY ZenonT(60) DEF ClaimedRow, JobRow

LEMMA StartedRowFields ==
    ASSUME NEW row \in JobRow, NEW to, NEW r, r = StartedRow(row, to)
    PROVE  /\ r.node_seq = row.node_seq /\ r.status = to /\ r.execution_id = row.execution_id
           /\ r.claimed_connection_epoch = row.claimed_connection_epoch
           /\ r.dispatch_generation = row.dispatch_generation
           /\ r.terminal_at = row.terminal_at
           /\ r.job_version = row.job_version + 1
  BY ZenonT(60) DEF StartedRow, JobRow

LEMMA FinishedRowFields ==
    ASSUME NEW row \in JobRow, NEW to, NEW reason, NEW r, r = FinishedRow(row, to, reason)
    PROVE  /\ r.node_seq = row.node_seq /\ r.status = to /\ r.execution_id = row.execution_id
           /\ r.claimed_connection_epoch = row.claimed_connection_epoch
           /\ r.dispatch_generation = row.dispatch_generation
           /\ r.terminal_at /\ r.terminal_reason = reason
           /\ r.job_version = row.job_version + 1
  BY ZenonT(60) DEF FinishedRow, JobRow

\* One row is written; it exists afterwards and keeps its place in the line.
LEMMA OneRowWritten ==
    ASSUME TypeOK, NEW j \in Jobs, JobStep(j)
    PROVE  /\ \A i \in Jobs : i # j => jobs'[i] = jobs[i]
           /\ Exists(j) => jobs[j] \in JobRow
  BY RowTypes DEF JobStep, EnqueueStep, ClaimStep, StartStep, FinishStep, TypeOK

\* An enqueued row is unclaimed, unfinished, in the initial status, and last.
LEMMA EnqueueEffect ==
    ASSUME TypeOK, NEW j \in Jobs, EnqueueStep(j)
    PROVE  /\ jobs'[j] # NoRow /\ jobs'[j].execution_id = NULL /\ ~jobs'[j].terminal_at
           /\ jobs'[j].status = InitialStatus
           /\ jobs'[j].node_seq = nodes[j[1]].next_node_seq
           /\ nodes'[j[1]].next_node_seq = nodes[j[1]].next_node_seq + 1
           /\ nodes'[j[1]].connection_epoch = nodes[j[1]].connection_epoch
           /\ \A n \in Nodes : n # j[1] => nodes'[n] = nodes[n]
           /\ \A n \in Nodes : Registered(n) => nodes'[n] # NoRow
<1>1. PICK p \in Payloads : jobs' = [jobs EXCEPT ![j] = NewJob(nodes[j[1]].next_node_seq, p)]
  BY DEF EnqueueStep
<1>2. nodes[j[1]] \in NodeRow /\ j[1] \in Nodes
  BY RowTypes DEF EnqueueStep
<1>3. jobs'[j] = NewJob(nodes[j[1]].next_node_seq, p)
  BY <1>1 DEF TypeOK
<1>4. jobs'[j] \in JobRow
  BY <1>2, <1>3, NewJobType DEF NodeRow
<1>5. nodes'[j[1]] = [nodes[j[1]] EXCEPT !.next_node_seq = @ + 1]
  BY <1>2 DEF EnqueueStep, TypeOK
<1>6. /\ nodes'[j[1]].next_node_seq = nodes[j[1]].next_node_seq + 1
      /\ nodes'[j[1]].connection_epoch = nodes[j[1]].connection_epoch
      /\ nodes'[j[1]] \in NodeRow
  BY <1>2, <1>5 DEF NodeRow
<1>7. \A n \in Nodes : n # j[1] => nodes'[n] = nodes[n]
  BY DEF EnqueueStep, TypeOK
<1>8. \A n \in Nodes : Registered(n) => nodes'[n] # NoRow
  BY <1>6, <1>7, NoRowIsNoRecord DEF Registered
<1>9. /\ jobs'[j].execution_id = NULL /\ ~jobs'[j].terminal_at /\ jobs'[j].status = InitialStatus
      /\ jobs'[j].node_seq = nodes[j[1]].next_node_seq
  BY <1>3 DEF NewJob
<1> QED BY <1>4, <1>6, <1>7, <1>8, <1>9, NoRowIsNoRecord

\* A claimed row was the unclaimed head of an idle phone.
LEMMA ClaimEffect ==
    ASSUME TypeOK, NEW j \in Jobs, ClaimStep(j)
    PROVE  /\ Exists(j) /\ ~Claimed(j) /\ ~jobs[j].terminal_at /\ j[1] \in Nodes
           /\ jobs'[j] # NoRow /\ jobs'[j].execution_id # NULL
           /\ jobs'[j].execution_id \in ExecutionIds
           /\ jobs'[j].claimed_connection_epoch = nodes[j[1]].connection_epoch
           /\ jobs'[j].node_seq = jobs[j].node_seq
           /\ jobs'[j].terminal_at = FALSE
           /\ jobs'[j].job_version = jobs[j].job_version + 1
           /\ jobs'[j].status \in Statuses
           /\ StateDefinitions[jobs'[j].status].terminal = FALSE
           /\ StateDefinitions[jobs'[j].status].initial = FALSE
<1>1. PICK x \in ExecutionIds, to \in Statuses :
          /\ StateDefinitions[to].terminal = FALSE /\ StateDefinitions[to].initial = FALSE
          /\ jobs' = [jobs EXCEPT ![j] = ClaimedRow(jobs[j], to, x, nodes[j[1]].connection_epoch)]
  BY DEF ClaimStep
<1>2. Exists(j) /\ ~Claimed(j) /\ ~jobs[j].terminal_at
  BY DEF ClaimStep, IsHead, ClaimableJobs, JobsOf
<1>3. jobs[j] \in JobRow /\ j[1] \in Nodes
  BY <1>2, RowTypes
<1>4. jobs'[j] = ClaimedRow(jobs[j], to, x, nodes[j[1]].connection_epoch)
  BY <1>1 DEF TypeOK
<1>5. nodes[j[1]].connection_epoch \in Nat
  BY <1>3, RowTypes DEF ClaimStep, NodeRow
<1>6. jobs'[j] \in JobRow
  BY <1>3, <1>4, <1>5, ClaimedRowType
<1>7. jobs[j].terminal_at = FALSE
  BY <1>2, <1>3 DEF JobRow
<1>8. /\ jobs'[j].node_seq = jobs[j].node_seq /\ jobs'[j].status = to
      /\ jobs'[j].execution_id = x
      /\ jobs'[j].claimed_connection_epoch = nodes[j[1]].connection_epoch
      /\ jobs'[j].terminal_at = jobs[j].terminal_at
      /\ jobs'[j].job_version = jobs[j].job_version + 1
  BY <1>3, <1>4, ClaimedRowFields
<1> QED BY <1>1, <1>2, <1>3, <1>6, <1>7, <1>8, NoRowIsNoRecord, BoundAssumption

\* A started row keeps its claim.
LEMMA StartEffect ==
    ASSUME TypeOK, NEW j \in Jobs, StartStep(j)
    PROVE  /\ jobs'[j] # NoRow /\ jobs'[j].execution_id = jobs[j].execution_id
           /\ jobs'[j].claimed_connection_epoch = jobs[j].claimed_connection_epoch
           /\ jobs'[j].dispatch_generation = jobs[j].dispatch_generation
           /\ jobs'[j].node_seq = jobs[j].node_seq
           /\ jobs'[j].terminal_at = FALSE
           /\ jobs'[j].job_version = jobs[j].job_version + 1
           /\ jobs'[j].status \in Statuses
           /\ StateDefinitions[jobs'[j].status].terminal = FALSE
           /\ StateDefinitions[jobs'[j].status].initial = FALSE
<1>1. PICK to \in Statuses :
          /\ StateDefinitions[to].terminal = FALSE /\ StateDefinitions[to].initial = FALSE
          /\ jobs' = [jobs EXCEPT ![j] = StartedRow(jobs[j], to)]
  BY DEF StartStep
<1>2. jobs[j] \in JobRow
  BY RowTypes DEF StartStep
<1>3. jobs'[j] = StartedRow(jobs[j], to)
  BY <1>1 DEF TypeOK
<1>4. jobs'[j] \in JobRow
  BY <1>2, <1>3, StartedRowType
<1>5. jobs[j].terminal_at = FALSE
  BY <1>2 DEF JobRow, StartStep
<1>6. /\ jobs'[j].node_seq = jobs[j].node_seq /\ jobs'[j].status = to
      /\ jobs'[j].execution_id = jobs[j].execution_id
      /\ jobs'[j].claimed_connection_epoch = jobs[j].claimed_connection_epoch
      /\ jobs'[j].dispatch_generation = jobs[j].dispatch_generation
      /\ jobs'[j].terminal_at = jobs[j].terminal_at
      /\ jobs'[j].job_version = jobs[j].job_version + 1
  BY <1>2, <1>3, StartedRowFields
<1> QED BY <1>1, <1>4, <1>5, <1>6, NoRowIsNoRecord

\* A finished row keeps its claim; a result belongs to the current epoch.
LEMMA FinishEffect ==
    ASSUME TypeOK, NEW j \in Jobs, FinishStep(j)
    PROVE  /\ jobs'[j] # NoRow /\ jobs'[j].execution_id = jobs[j].execution_id
           /\ jobs'[j].claimed_connection_epoch = jobs[j].claimed_connection_epoch
           /\ jobs'[j].dispatch_generation = jobs[j].dispatch_generation
           /\ jobs'[j].node_seq = jobs[j].node_seq
           /\ jobs'[j].terminal_at
           /\ jobs'[j].job_version = jobs[j].job_version + 1
           /\ jobs'[j].status \in Statuses
           /\ StateDefinitions[jobs'[j].status].terminal = TRUE
           /\ \/ jobs'[j].terminal_reason = "recovery"
              \/ Claimed(j) /\ jobs[j].claimed_connection_epoch = nodes[j[1]].connection_epoch
<1>1. PICK to \in Statuses, reason \in ResultReasons \cup {"recovery"} :
          /\ StateDefinitions[to].terminal = TRUE
          /\ reason \in ResultReasons =>
                Claimed(j) /\ jobs[j].claimed_connection_epoch = nodes[j[1]].connection_epoch
          /\ jobs' = [jobs EXCEPT ![j] = FinishedRow(jobs[j], to, reason)]
  BY DEF FinishStep
<1>2. jobs[j] \in JobRow
  BY RowTypes DEF FinishStep
<1>3. jobs'[j] = FinishedRow(jobs[j], to, reason)
  BY <1>1 DEF TypeOK
<1>4. jobs'[j] \in JobRow
  BY <1>2, <1>3, FinishedRowType
<1>5. /\ jobs'[j].node_seq = jobs[j].node_seq /\ jobs'[j].status = to
      /\ jobs'[j].execution_id = jobs[j].execution_id
      /\ jobs'[j].claimed_connection_epoch = jobs[j].claimed_connection_epoch
      /\ jobs'[j].dispatch_generation = jobs[j].dispatch_generation
      /\ jobs'[j].terminal_at /\ jobs'[j].terminal_reason = reason
      /\ jobs'[j].job_version = jobs[j].job_version + 1
  BY <1>2, <1>3, FinishedRowFields
<1>6. \/ jobs'[j].terminal_reason = "recovery"
      \/ Claimed(j) /\ jobs[j].claimed_connection_epoch = nodes[j[1]].connection_epoch
  BY <1>1, <1>5
<1>7. jobs'[j] # NoRow
  BY <1>4, NoRowIsNoRecord
<1>8. jobs'[j].status \in Statuses /\ StateDefinitions[jobs'[j].status].terminal = TRUE
  BY <1>1, <1>5
<1> QED BY <1>5, <1>6, <1>7, <1>8

-----------------------------------------------------------------------------
(* The inductive invariant. *)

\* Every job belongs to a registered phone and was numbered before the next one.
SequenceBelowNext ==
    \A j \in Jobs : Exists(j) =>
        Registered(j[1]) /\ jobs[j].node_seq < nodes[j[1]].next_node_seq

\* The jobs of a phone have different numbers.
NumbersDiffer ==
    \A i, j \in Jobs : /\ Exists(i) /\ Exists(j) /\ i[1] = j[1]
                      /\ jobs[i].node_seq = jobs[j].node_seq
                      => i = j

\* No claim is ahead of its phone's epoch.
ClaimNotAheadOfNode ==
    \A j \in Jobs : Exists(j) /\ Claimed(j) =>
        /\ Registered(j[1])
        /\ jobs[j].claimed_connection_epoch \in 0 .. nodes[j[1]].connection_epoch

IInv ==
    /\ TypeOK
    /\ SequenceBelowNext
    /\ NumbersDiffer
    /\ StatusAgreesWithTimestamps
    /\ OneActivePerNode
    /\ NoOvertaking
    /\ ClaimNotAheadOfNode

LEMMA SequenceStep == IInv /\ [Next]_vars => SequenceBelowNext'
<1> SUFFICES ASSUME IInv, [Next]_vars, NEW i \in Jobs, Exists(i)'
             PROVE  nodes'[i[1]] # NoRow /\ jobs'[i].node_seq < nodes'[i[1]].next_node_seq
  BY DEF SequenceBelowNext, Registered, Exists
<1>0. TypeOK /\ SequenceBelowNext /\ i[1] \in Nodes
  BY RowTypes DEF IInv
<1>1. CASE QuietStep
  BY <1>0, <1>1 DEF QuietStep, SequenceBelowNext, Exists
<1>2. ASSUME NEW j \in Jobs, JobStep(j)
      PROVE  nodes'[i[1]] # NoRow /\ jobs'[i].node_seq < nodes'[i[1]].next_node_seq
  <2>1. CASE EnqueueStep(j)
    <3>1. Registered(j[1]) /\ j[1] \in Nodes /\ nodes[j[1]].next_node_seq \in Nat
      BY <1>0, <2>1, RowTypes DEF EnqueueStep, NodeRow
    <3>2. CASE i = j
      BY <1>0, <2>1, <3>1, <3>2, EnqueueEffect
    <3>3. CASE i # j
      <4>1. jobs'[i] = jobs[i]
        BY <1>0, <1>2, <3>3, OneRowWritten
      <4>2. Registered(i[1]) /\ jobs[i].node_seq < nodes[i[1]].next_node_seq
        BY <1>0, <4>1 DEF SequenceBelowNext, Exists
      <4>3. jobs[i] \in JobRow
        BY <1>0, <4>1, RowTypes DEF Exists
      <4>4. nodes'[i[1]] # NoRow
        BY <1>0, <2>1, <4>2, EnqueueEffect
      <4>5. CASE i[1] = j[1]
        BY <1>0, <2>1, <3>1, <4>1, <4>2, <4>3, <4>4, <4>5, EnqueueEffect DEF JobRow
      <4>6. CASE i[1] # j[1]
        BY <1>0, <2>1, <4>1, <4>2, <4>4, <4>6, EnqueueEffect
      <4> QED BY <4>5, <4>6
    <3> QED BY <3>2, <3>3
  <2>2. CASE ClaimStep(j) \/ StartStep(j) \/ FinishStep(j)
    <3>1. nodes' = nodes /\ Exists(j) /\ jobs'[j].node_seq = jobs[j].node_seq
      BY <1>0, <2>2, ClaimEffect, StartEffect, FinishEffect
         DEF ClaimStep, StartStep, FinishStep
    <3>2. i # j => jobs'[i] = jobs[i]
      BY <1>0, <1>2, OneRowWritten
    <3> QED BY <1>0, <3>1, <3>2 DEF SequenceBelowNext, Exists, Registered
  <2> QED BY <1>2, <2>1, <2>2 DEF JobStep
<1> QED BY <1>0, <1>1, <1>2, StepKinds

LEMMA NumbersStep == IInv /\ [Next]_vars => NumbersDiffer'
<1> SUFFICES ASSUME IInv, [Next]_vars, NEW i \in Jobs, NEW k \in Jobs, i[1] = k[1],
                    jobs'[i] # NoRow, jobs'[k] # NoRow, jobs'[i].node_seq = jobs'[k].node_seq
             PROVE  i = k
  BY DEF NumbersDiffer, Exists
<1>0. TypeOK
  BY DEF IInv
<1>1. Exists(i) /\ Exists(k) /\ jobs[i].node_seq = jobs[k].node_seq => i = k
  BY DEF IInv, NumbersDiffer
<1>2. CASE QuietStep
  BY <1>1, <1>2 DEF QuietStep, Exists
<1>3. ASSUME NEW j \in Jobs, EnqueueStep(j) PROVE i = k
  <2>1. ASSUME NEW a \in Jobs, a # j, a[1] = j[1], jobs'[a] # NoRow
        PROVE  jobs'[a].node_seq # jobs'[j].node_seq
    <3>1. jobs'[a] = jobs[a] /\ jobs[a] \in JobRow
      BY <1>0, <1>3, <2>1, OneRowWritten, RowTypes DEF JobStep, Exists
    <3>2. jobs[a].node_seq < nodes[j[1]].next_node_seq /\ nodes[j[1]].next_node_seq \in Nat
      BY <1>0, <1>3, <2>1, <3>1, RowTypes DEF IInv, SequenceBelowNext, Exists, EnqueueStep, NodeRow
    <3> QED BY <1>0, <1>3, <3>1, <3>2, EnqueueEffect DEF JobRow
  <2>2. \A a \in Jobs : a # j => jobs'[a] = jobs[a]
    BY <1>0, <1>3, OneRowWritten DEF JobStep
  <2> QED BY <1>1, <2>1, <2>2 DEF Exists
<1>4. ASSUME NEW j \in Jobs, ClaimStep(j) \/ StartStep(j) \/ FinishStep(j) PROVE i = k
  <2>1. Exists(j) /\ jobs'[j].node_seq = jobs[j].node_seq
    BY <1>0, <1>4, ClaimEffect, StartEffect, FinishEffect DEF StartStep, FinishStep
  <2>2. \A a \in Jobs : a # j => jobs'[a] = jobs[a]
    BY <1>0, <1>4, OneRowWritten DEF JobStep
  <2> QED BY <1>1, <2>1, <2>2 DEF Exists
<1> QED BY <1>0, <1>2, <1>3, <1>4, StepKinds DEF JobStep

\* The two selectors StatusAgreesWithTimestamps uses, as flags.
LEMMA FlagsOfStatus ==
    ASSUME NEW status \in Statuses
    PROVE  /\ StateMatches(status, [terminal |-> TRUE])
                <=> StateDefinitions[status].terminal = TRUE
           /\ StateMatches(status, [initial |-> FALSE, terminal |-> FALSE])
                <=> /\ StateDefinitions[status].initial = FALSE
                    /\ StateDefinitions[status].terminal = FALSE
           /\ StateMatches(status, [initial |-> TRUE])
                <=> StateDefinitions[status].initial = TRUE
<1> DEFINE finished == [terminal |-> TRUE]
<1>0. DOMAIN finished = {"terminal"} /\ finished["terminal"] = TRUE
  OBVIOUS
<1> HIDE DEF finished
<1>1. StateMatches(status, finished) <=> StateDefinitions[status].terminal = TRUE
  BY <1>0 DEF StateMatches, Satisfies
<1> DEFINE selector == [initial |-> FALSE, terminal |-> FALSE]
<1>2. /\ DOMAIN selector = {"initial", "terminal"}
      /\ selector["initial"] = FALSE /\ selector["terminal"] = FALSE
  OBVIOUS
<1> HIDE DEF selector
<1>3. Satisfies(StateDefinitions[status], selector)
        <=> /\ StateDefinitions[status].initial = FALSE
            /\ StateDefinitions[status].terminal = FALSE
  BY <1>2 DEF Satisfies
<1>4. StateMatches(status, selector)
        <=> /\ StateDefinitions[status].initial = FALSE
            /\ StateDefinitions[status].terminal = FALSE
  BY <1>3 DEF StateMatches
<1> DEFINE first == [initial |-> TRUE]
<1>5. DOMAIN first = {"initial"} /\ first["initial"] = TRUE
  OBVIOUS
<1> HIDE DEF first
<1>6. StateMatches(status, first) <=> StateDefinitions[status].initial = TRUE
  BY <1>5 DEF StateMatches, Satisfies
<1> QED BY <1>1, <1>4, <1>6 DEF selector, finished, first

\* Each kind of step writes the status and the timestamps consistently.
LEMMA StatusStep == IInv /\ [Next]_vars => StatusAgreesWithTimestamps'
<1> DEFINE Agrees(row) ==
        /\ row.terminal_at <=> StateDefinitions[row.status].terminal = TRUE
        /\ (row.execution_id # NULL /\ ~row.terminal_at)
              <=> /\ StateDefinitions[row.status].initial = FALSE
                  /\ StateDefinitions[row.status].terminal = FALSE
<1>2. ASSUME NEW row, row.status \in Statuses
      PROVE  Agrees(row) <=>
               /\ row.terminal_at <=> StateMatches(row.status, [terminal |-> TRUE])
               /\ (row.execution_id # NULL /\ ~row.terminal_at)
                    <=> StateMatches(row.status, [initial |-> FALSE, terminal |-> FALSE])
  BY <1>2, FlagsOfStatus
<1> SUFFICES ASSUME IInv, [Next]_vars, NEW i \in Jobs, jobs'[i] # NoRow
             PROVE  jobs'[i].status \in Statuses /\ Agrees(jobs'[i])
  BY <1>2 DEF StatusAgreesWithTimestamps, Exists, Claimed
<1>0. TypeOK
  BY DEF IInv
<1>3. ASSUME Exists(i) PROVE jobs[i].status \in Statuses /\ Agrees(jobs[i])
  <2>1. jobs[i].status \in Statuses
    BY <1>0, <1>3, RowTypes DEF JobRow
  <2> QED BY <1>2, <1>3, <2>1 DEF IInv, StatusAgreesWithTimestamps, Claimed
<1>4. CASE jobs'[i] = jobs[i]
  BY <1>3, <1>4 DEF Exists
<1>5. ASSUME NEW j \in Jobs, JobStep(j), i = j PROVE jobs'[i].status \in Statuses /\ Agrees(jobs'[i])
  <2>1. CASE EnqueueStep(j)
    <3>1. /\ jobs'[j].execution_id = NULL /\ ~jobs'[j].terminal_at
          /\ jobs'[j].status = InitialStatus
      BY <1>0, <2>1, EnqueueEffect
    <3> QED BY <1>5, <3>1, InitialStatusFlags
  <2>2. CASE ClaimStep(j)
    <3>1. /\ jobs'[j].execution_id # NULL /\ jobs'[j].terminal_at = FALSE
          /\ jobs'[j].status \in Statuses
          /\ StateDefinitions[jobs'[j].status].terminal = FALSE
          /\ StateDefinitions[jobs'[j].status].initial = FALSE
      BY <1>0, <2>2, ClaimEffect
    <3> QED BY <1>5, <3>1
  <2>3. CASE StartStep(j)
    <3>1. /\ jobs'[j].execution_id # NULL /\ jobs'[j].terminal_at = FALSE
          /\ jobs'[j].status \in Statuses
          /\ StateDefinitions[jobs'[j].status].terminal = FALSE
          /\ StateDefinitions[jobs'[j].status].initial = FALSE
      BY <1>0, <2>3, StartEffect DEF StartStep, Claimed
    <3> QED BY <1>5, <3>1
  <2>4. CASE FinishStep(j)
    <3>1. /\ jobs'[j].terminal_at /\ jobs'[j].status \in Statuses
          /\ StateDefinitions[jobs'[j].status].terminal = TRUE
      BY <1>0, <2>4, FinishEffect
    <3> QED BY <1>5, <3>1
  <2> QED BY <1>5, <2>1, <2>2, <2>3, <2>4 DEF JobStep
<1> QED BY <1>0, <1>4, <1>5, StepKinds, OneRowWritten DEF QuietStep

\* A row is active: claimed and unfinished.
Active(i) == Exists(i) /\ Claimed(i) /\ ~jobs[i].terminal_at

LEMMA ActiveJobsAreActive ==
    /\ OneActivePerNode <=> \A i, k \in Jobs : Active(i) /\ Active(k) /\ i[1] = k[1] => i = k
    /\ \A n \in Nodes : Busy(n) <=> \E i \in Jobs : Active(i) /\ i[1] = n
<1>1. \A i \in Jobs : i[1] \in Nodes
  BY DEF Jobs
<1> QED BY <1>1 DEF OneActivePerNode, ActiveJobs, JobsOf, Active, Busy

\* Only a claim makes a row active.
LEMMA OnlyAClaimActivates ==
    ASSUME TypeOK, [Next]_vars, NEW i \in Jobs, Active(i)'
    PROVE  Active(i) \/ ClaimStep(i)
<1>1. CASE QuietStep
  BY <1>1 DEF QuietStep, Active, Exists, Claimed
<1>2. ASSUME NEW j \in Jobs, JobStep(j) PROVE Active(i) \/ ClaimStep(i)
  <2>1. CASE i # j
    BY <1>2, <2>1, OneRowWritten DEF Active, Exists, Claimed
  <2>2. CASE i = j /\ EnqueueStep(j)
    BY <2>2, EnqueueEffect DEF Active, Claimed
  <2>3. CASE i = j /\ ClaimStep(j)
    BY <2>3
  <2>4. CASE i = j /\ StartStep(j)
    BY <2>4 DEF StartStep, Active
  <2>5. CASE i = j /\ FinishStep(j)
    BY <2>5, FinishEffect DEF Active
  <2> QED BY <1>2, <2>1, <2>2, <2>3, <2>4, <2>5 DEF JobStep
<1> QED BY <1>1, <1>2, StepKinds

\* A claim writes one row only.
LEMMA ClaimWritesOne ==
    ASSUME TypeOK, NEW i \in Jobs, NEW k \in Jobs, ClaimStep(i), ClaimStep(k) PROVE i = k
<1>1. jobs'[i].execution_id # NULL /\ ~Claimed(i)
  BY ClaimEffect
<1>2. i # k => jobs'[i] = jobs[i]
  BY OneRowWritten DEF JobStep
<1> QED BY <1>1, <1>2 DEF Claimed

LEMMA OneActiveStep == IInv /\ [Next]_vars => OneActivePerNode'
<1> SUFFICES ASSUME IInv, [Next]_vars PROVE OneActivePerNode'
  OBVIOUS
<1>0. TypeOK /\ (\A i, k \in Jobs : Active(i) /\ Active(k) /\ i[1] = k[1] => i = k)
  BY ActiveJobsAreActive DEF IInv
<1>1. ASSUME NEW i \in Jobs, NEW k \in Jobs, Active(i)', Active(k)', i[1] = k[1] PROVE i = k
  <2>1. ASSUME NEW a \in Jobs, NEW b \in Jobs, a[1] = b[1], Active(a), ClaimStep(b) PROVE FALSE
    <3>1. ~Busy(b[1]) /\ b[1] \in Nodes
      BY <1>0, <2>1, ClaimEffect DEF ClaimStep
    <3> QED BY <2>1, <3>1, ActiveJobsAreActive
  <2>2. (Active(i) \/ ClaimStep(i)) /\ (Active(k) \/ ClaimStep(k))
    BY <1>0, <1>1, OnlyAClaimActivates
  <2> QED BY <1>0, <1>1, <2>1, <2>2, ClaimWritesOne
<1>2. (\A i, k \in Jobs : Active(i) /\ Active(k) /\ i[1] = k[1] => i = k)'
  BY <1>1
<1>3. \A i \in Jobs : i[1] \in Nodes
  BY DEF Jobs
<1> QED BY <1>2, <1>3 DEF OneActivePerNode, ActiveJobs, JobsOf, Active, Exists, Claimed

\* Waiting rows of an idle phone are claimable, so the head precedes them all.
LEMMA HeadPrecedesWaiting ==
    ASSUME IInv, NEW i \in Jobs, NEW k \in Jobs, ClaimStep(k), i[1] = k[1],
           Exists(i), ~Claimed(i), ~jobs[i].terminal_at
    PROVE  jobs[k].node_seq <= jobs[i].node_seq
<1>1. jobs[i] \in JobRow /\ jobs[i].status \in Statuses
  BY RowTypes DEF IInv, JobRow
<1>2. /\ StateDefinitions[jobs[i].status].terminal = FALSE
      /\ StateDefinitions[jobs[i].status].initial = TRUE
  <2>1. StateDefinitions[jobs[i].status] \in StateFlags
    BY <1>1, LifecycleAssumption
  <2>2. /\ ~StateMatches(jobs[i].status, [terminal |-> TRUE])
        /\ ~StateMatches(jobs[i].status, [initial |-> FALSE, terminal |-> FALSE])
    BY DEF IInv, StatusAgreesWithTimestamps
  <2> QED BY <1>1, <2>1, <2>2, FlagsOfStatus DEF StateFlags
<1>3. StateMatches(jobs[i].status, [initial |-> TRUE])
  BY <1>1, <1>2, FlagsOfStatus
<1>4. i \in ClaimableJobs(k[1])
  BY <1>3 DEF ClaimableJobs, JobsOf
<1> QED BY <1>4 DEF ClaimStep, IsHead

LEMMA FifoStep == IInv /\ [Next]_vars => NoOvertaking'
<1> SUFFICES ASSUME IInv, [Next]_vars, NEW i \in Jobs, NEW k \in Jobs, i[1] = k[1],
                    jobs'[i] # NoRow, jobs'[k] # NoRow,
                    jobs'[i].node_seq < jobs'[k].node_seq, jobs'[k].execution_id # NULL
             PROVE  jobs'[i].execution_id # NULL \/ jobs'[i].terminal_at
  BY DEF NoOvertaking, JobsOf, Exists, Claimed
<1>0. TypeOK /\ i[1] \in Nodes
  BY RowTypes DEF IInv
<1>1. ASSUME Exists(i), Exists(k), jobs[i].node_seq < jobs[k].node_seq, Claimed(k)
      PROVE  Claimed(i) \/ jobs[i].terminal_at
  BY <1>0, <1>1 DEF IInv, NoOvertaking, JobsOf
<1>2. CASE QuietStep
  BY <1>1, <1>2 DEF QuietStep, Exists, Claimed
<1>3. ASSUME NEW j \in Jobs, EnqueueStep(j)
      PROVE  jobs'[i].execution_id # NULL \/ jobs'[i].terminal_at
  <2>1. k # j
    BY <1>0, <1>3, EnqueueEffect
  <2>2. jobs'[k] = jobs[k]
    BY <1>0, <1>3, <2>1, OneRowWritten DEF JobStep
  <2>3. CASE i = j
    <3>1. jobs[k] \in JobRow /\ nodes[j[1]] \in NodeRow
      BY <1>0, <1>3, <2>2, RowTypes DEF Exists, EnqueueStep
    <3>2. jobs[k].node_seq < nodes[k[1]].next_node_seq
      BY <2>2 DEF IInv, SequenceBelowNext, Exists
    <3>3. jobs'[i].node_seq = nodes[k[1]].next_node_seq
      BY <1>0, <1>3, <2>3, EnqueueEffect
    <3> QED BY <2>2, <2>3, <3>1, <3>2, <3>3 DEF JobRow, NodeRow
  <2>4. CASE i # j
    <3>1. jobs'[i] = jobs[i]
      BY <1>0, <1>3, <2>4, OneRowWritten DEF JobStep
    <3> QED BY <1>1, <2>2, <3>1 DEF Exists, Claimed
  <2> QED BY <2>3, <2>4
<1>4. ASSUME NEW j \in Jobs, ClaimStep(j)
      PROVE  jobs'[i].execution_id # NULL \/ jobs'[i].terminal_at
  <2>1. CASE i = j
    BY <1>0, <1>4, <2>1, ClaimEffect
  <2>2. CASE i # j /\ k # j
    <3>1. jobs'[i] = jobs[i] /\ jobs'[k] = jobs[k]
      BY <1>0, <1>4, <2>2, OneRowWritten DEF JobStep
    <3> QED BY <1>1, <3>1 DEF Exists, Claimed
  <2>3. CASE i # j /\ k = j
    <3>1. jobs'[i] = jobs[i]
      BY <1>0, <1>4, <2>3, OneRowWritten DEF JobStep
    <3>2. jobs'[k].node_seq = jobs[k].node_seq /\ Exists(k)
      BY <1>0, <1>4, <2>3, ClaimEffect
    <3>3. jobs[i] \in JobRow /\ jobs[k] \in JobRow
      BY <1>0, <3>1, <3>2, RowTypes DEF Exists
    <3>4. ~(jobs[k].node_seq <= jobs[i].node_seq)
      BY <3>1, <3>2, <3>3 DEF JobRow
    <3> QED BY <1>4, <2>3, <3>1, <3>4, HeadPrecedesWaiting DEF Exists, Claimed
  <2> QED BY <2>1, <2>2, <2>3
<1>5. ASSUME NEW j \in Jobs, StartStep(j) \/ FinishStep(j)
      PROVE  jobs'[i].execution_id # NULL \/ jobs'[i].terminal_at
  <2>1. /\ Exists(j) /\ ~jobs[j].terminal_at
        /\ jobs'[j].node_seq = jobs[j].node_seq
        /\ jobs'[j].execution_id = jobs[j].execution_id
    BY <1>0, <1>5, StartEffect, FinishEffect DEF StartStep, FinishStep
  <2>2. \A o \in Jobs : o # j => jobs'[o] = jobs[o]
    BY <1>0, <1>5, OneRowWritten DEF JobStep
  <2>3. /\ Exists(i) /\ jobs'[i].node_seq = jobs[i].node_seq
        /\ jobs'[i].execution_id = jobs[i].execution_id
        /\ Exists(k) /\ jobs'[k].node_seq = jobs[k].node_seq
        /\ jobs'[k].execution_id = jobs[k].execution_id
    BY <2>1, <2>2 DEF Exists
  <2>4. Claimed(i) \/ jobs[i].terminal_at
    BY <1>1, <2>3 DEF Claimed
  <2>5. jobs[i].terminal_at => jobs'[i].terminal_at
    BY <2>1, <2>2
  <2> QED BY <2>3, <2>4, <2>5 DEF Claimed
<1> QED BY <1>0, <1>2, <1>3, <1>4, <1>5, StepKinds DEF JobStep

LEMMA EpochStep == IInv /\ [Next]_vars => ClaimNotAheadOfNode'
<1> SUFFICES ASSUME IInv, [Next]_vars, NEW i \in Jobs,
                    jobs'[i] # NoRow, jobs'[i].execution_id # NULL
             PROVE  /\ nodes'[i[1]] # NoRow
                    /\ jobs'[i].claimed_connection_epoch \in 0 .. nodes'[i[1]].connection_epoch
  BY DEF ClaimNotAheadOfNode, Exists, Claimed, Registered
<1>0. TypeOK /\ i[1] \in Nodes
  BY RowTypes DEF IInv
<1>1. ASSUME Exists(i), Claimed(i)
      PROVE  /\ Registered(i[1]) /\ nodes[i[1]].connection_epoch \in Nat
             /\ jobs[i].claimed_connection_epoch \in 0 .. nodes[i[1]].connection_epoch
  BY <1>0, <1>1, RowTypes DEF IInv, ClaimNotAheadOfNode, NodeRow
<1>2. CASE QuietStep
  <2>1. Exists(i) /\ Claimed(i) /\ jobs'[i] = jobs[i]
    BY <1>2 DEF QuietStep, Exists, Claimed
  <2>2. nodes'[i[1]] # NoRow /\ nodes'[i[1]] \in NodeRow \cup {NoRow}
    BY <1>0, <1>1, <1>2, <2>1 DEF QuietStep
  <2>3. nodes'[i[1]].connection_epoch \in Nat
    BY <2>2 DEF NodeRow
  <2>4. nodes'[i[1]].connection_epoch >= nodes[i[1]].connection_epoch
    BY <1>0, <1>1, <1>2, <2>1 DEF QuietStep
  <2> QED BY <1>1, <2>1, <2>2, <2>3, <2>4
<1>3. ASSUME NEW j \in Jobs, EnqueueStep(j)
      PROVE  /\ nodes'[i[1]] # NoRow
             /\ jobs'[i].claimed_connection_epoch \in 0 .. nodes'[i[1]].connection_epoch
  <2>1. i # j /\ jobs'[i] = jobs[i]
    BY <1>0, <1>3, EnqueueEffect, OneRowWritten DEF JobStep
  <2>2. Registered(i[1]) /\ jobs[i].claimed_connection_epoch \in 0 .. nodes[i[1]].connection_epoch
    BY <1>1, <2>1 DEF Exists, Claimed
  <2>3. nodes'[i[1]] # NoRow /\ nodes'[i[1]].connection_epoch = nodes[i[1]].connection_epoch
    BY <1>0, <1>3, <2>2, EnqueueEffect
  <2> QED BY <2>1, <2>2, <2>3
<1>4. ASSUME NEW j \in Jobs, ClaimStep(j) \/ StartStep(j) \/ FinishStep(j)
      PROVE  /\ nodes'[i[1]] # NoRow
             /\ jobs'[i].claimed_connection_epoch \in 0 .. nodes'[i[1]].connection_epoch
  <2>1. nodes' = nodes
    BY <1>4 DEF ClaimStep, StartStep, FinishStep
  <2>2. CASE i # j
    <3>1. jobs'[i] = jobs[i]
      BY <1>0, <1>4, <2>2, OneRowWritten DEF JobStep
    <3> QED BY <1>1, <2>1, <3>1 DEF Exists, Claimed, Registered
  <2>3. CASE i = j /\ ClaimStep(j)
    <3>1. Registered(i[1]) /\ jobs'[i].claimed_connection_epoch = nodes[i[1]].connection_epoch
      BY <1>0, <2>3, ClaimEffect DEF ClaimStep
    <3>2. nodes[i[1]].connection_epoch \in Nat
      BY <1>0, <3>1, RowTypes DEF NodeRow
    <3> QED BY <2>1, <3>1, <3>2 DEF Registered
  <2>4. CASE i = j /\ (StartStep(j) \/ FinishStep(j))
    <3>1. /\ Exists(i) /\ jobs'[i].execution_id = jobs[i].execution_id
          /\ jobs'[i].claimed_connection_epoch = jobs[i].claimed_connection_epoch
      BY <1>0, <2>4, StartEffect, FinishEffect DEF StartStep, FinishStep
    <3> QED BY <1>1, <2>1, <3>1 DEF Claimed, Registered
  <2> QED BY <1>4, <2>2, <2>3, <2>4
<1> QED BY <1>0, <1>2, <1>3, <1>4, StepKinds DEF JobStep

LEMMA InvariantInit == Init => IInv
<1> SUFFICES ASSUME Init PROVE IInv
  OBVIOUS
<1>1. \A j \in Jobs : ~Exists(j)
  BY DEF Init, Exists
<1>2. OneActivePerNode
  BY <1>1 DEF OneActivePerNode, ActiveJobs, JobsOf
<1>3. NoOvertaking
  BY <1>1 DEF NoOvertaking, JobsOf
<1> QED BY <1>1, <1>2, <1>3, TypeInit
        DEF IInv, SequenceBelowNext, NumbersDiffer, StatusAgreesWithTimestamps, ClaimNotAheadOfNode

\* The invariant is inductive.
THEOREM InvariantHolds == Spec => []IInv
<1>1. Init => IInv
  BY InvariantInit
<1>2. IInv /\ [Next]_vars => IInv'
  BY TypeStep, SequenceStep, NumbersStep, StatusStep, OneActiveStep, FifoStep, EpochStep DEF IInv
<1> QED BY <1>1, <1>2, PTL DEF Spec

-----------------------------------------------------------------------------
(* The promises of the contract. *)

\* A phone never has two claimed, unfinished jobs, with no index to enforce it
\* (pnq_claim_next_job under the node lock, migration 082).
THEOREM OneActiveAlways == Spec => []OneActivePerNode
<1>1. IInv => OneActivePerNode
  BY DEF IInv
<1> QED BY <1>1, InvariantHolds, PTL

\* No job is claimed before an earlier waiting one of its phone (ORDER BY
\* node_seq in pnq_claim_next_job), whatever is marked stuck in between.
THEOREM FifoAlways == Spec => []NoOvertaking
<1>1. IInv => NoOvertaking
  BY DEF IInv
<1> QED BY <1>1, InvariantHolds, PTL

\* The lifecycle flags the deadline sweep selects by and the columns
\* pnq_claim_next_job selects by always describe the same set of active jobs.
THEOREM StatusAlwaysAgrees == Spec => []StatusAgreesWithTimestamps
<1>1. IInv => StatusAgreesWithTimestamps
  BY DEF IInv
<1> QED BY <1>1, InvariantHolds, PTL

\* No result, replay or sweep writes a finished row (pnq_record_result,
\* pnq_mark_stuck).
THEOREM TerminalFrozen == Spec => TerminalIsFinal
<1> DEFINE A == \A j \in Jobs : Exists(j) /\ jobs[j].terminal_at => jobs'[j] = jobs[j]
<1>1. TypeOK /\ [Next]_vars => A
  <2> SUFFICES ASSUME TypeOK, [Next]_vars, NEW i \in Jobs, Exists(i), jobs[i].terminal_at
               PROVE  jobs'[i] = jobs[i]
    OBVIOUS
  <2>1. ASSUME NEW j \in Jobs, JobStep(j) PROVE i # j
    BY <2>1 DEF JobStep, EnqueueStep, ClaimStep, StartStep, FinishStep, IsHead, ClaimableJobs
  <2> QED BY <2>1, StepKinds, OneRowWritten DEF QuietStep
<1>2. TypeOK /\ [Next]_vars => [A]_vars
  BY <1>1
<1> QED BY <1>2, TypeCorrect, PTL DEF Spec, TerminalIsFinal

\* After a reconnect bumped the epoch, an attempt claimed on the old connection
\* can only be written off by recovery.
THEOREM FencedAttempts == Spec => FencedAttemptOnlyRecovers
<1> DEFINE A == \A j \in Jobs :
                  /\ Exists(j) /\ Claimed(j)
                  /\ jobs[j].claimed_connection_epoch # nodes[j[1]].connection_epoch
                  /\ jobs'[j] # jobs[j]
                  => jobs'[j].terminal_reason = "recovery"
<1>1. TypeOK /\ [Next]_vars => A
  <2> SUFFICES ASSUME TypeOK, [Next]_vars, NEW i \in Jobs, Exists(i), Claimed(i),
                      jobs[i].claimed_connection_epoch # nodes[i[1]].connection_epoch,
                      jobs'[i] # jobs[i]
               PROVE  jobs'[i].terminal_reason = "recovery"
    OBVIOUS
  <2>1. PICK j \in Jobs : JobStep(j)
    BY StepKinds DEF QuietStep
  <2>2. i = j
    BY <2>1, OneRowWritten
  <2>3. FinishStep(i)
    BY <2>1, <2>2 DEF JobStep, EnqueueStep, ClaimStep, StartStep, IsHead, ClaimableJobs
  <2> QED BY <2>3, FinishEffect
<1>2. TypeOK /\ [Next]_vars => [A]_vars
  BY <1>1
<1> QED BY <1>2, TypeCorrect, PTL DEF Spec, FencedAttemptOnlyRecovers

\* Every write of an existing row raises job_version by exactly one, so the
\* version comparisons of pnq_start_execution and pnq_record_result miss nothing.
THEOREM VersionsCount == Spec => VersionCountsWrites
<1> DEFINE A == \A j \in Jobs : Exists(j) /\ jobs'[j] # jobs[j] =>
                                  jobs'[j].job_version = jobs[j].job_version + 1
<1>1. TypeOK /\ [Next]_vars => A
  <2> SUFFICES ASSUME TypeOK, [Next]_vars, NEW i \in Jobs, Exists(i), jobs'[i] # jobs[i]
               PROVE  jobs'[i].job_version = jobs[i].job_version + 1
    OBVIOUS
  <2>1. PICK j \in Jobs : JobStep(j)
    BY StepKinds DEF QuietStep
  <2>2. i = j
    BY <2>1, OneRowWritten
  <2>3. ClaimStep(i) \/ StartStep(i) \/ FinishStep(i)
    BY <2>1, <2>2 DEF JobStep, EnqueueStep
  <2> QED BY <2>3, ClaimEffect, StartEffect, FinishEffect
<1>2. TypeOK /\ [Next]_vars => [A]_vars
  BY <1>1
<1> QED BY <1>2, TypeCorrect, PTL DEF Spec, VersionCountsWrites

\* A job's execution id, claiming epoch and generation never change once set.
THEOREM ClaimsAreFinal == Spec => ClaimedAtMostOnce
<1> DEFINE A == \A j \in Jobs : Exists(j) /\ Claimed(j) =>
                  /\ jobs'[j].execution_id = jobs[j].execution_id
                  /\ jobs'[j].claimed_connection_epoch = jobs[j].claimed_connection_epoch
                  /\ jobs'[j].dispatch_generation = jobs[j].dispatch_generation
<1>1. TypeOK /\ [Next]_vars => A
  <2> SUFFICES ASSUME TypeOK, [Next]_vars, NEW i \in Jobs, Exists(i), Claimed(i)
               PROVE  /\ jobs'[i].execution_id = jobs[i].execution_id
                      /\ jobs'[i].claimed_connection_epoch = jobs[i].claimed_connection_epoch
                      /\ jobs'[i].dispatch_generation = jobs[i].dispatch_generation
    OBVIOUS
  <2>1. CASE jobs'[i] = jobs[i]
    BY <2>1
  <2>2. CASE jobs'[i] # jobs[i]
    <3>1. PICK j \in Jobs : JobStep(j)
      BY <2>2, StepKinds DEF QuietStep
    <3>2. i = j
      BY <2>2, <3>1, OneRowWritten
    <3>3. StartStep(i) \/ FinishStep(i)
      BY <3>1, <3>2 DEF JobStep, EnqueueStep, ClaimStep, IsHead, ClaimableJobs
    <3> QED BY <3>3, StartEffect, FinishEffect
  <2> QED BY <2>1, <2>2
<1>2. TypeOK /\ [Next]_vars => [A]_vars
  BY <1>1
<1> QED BY <1>2, TypeCorrect, PTL DEF Spec, ClaimedAtMostOnce

-----------------------------------------------------------------------------
(* The lane, as it is read off a table T of jobs. *)

WaitsRow(row) == row # NoRow /\ row.execution_id = NULL /\ ~row.terminal_at
ActiveRow(row) == row # NoRow /\ row.execution_id # NULL /\ ~row.terminal_at
OutcomeRow(row) ==
    IF row = NoRow \/ ~row.terminal_at THEN "open"
    ELSE IF row.terminal_reason \in ResultReasons THEN "reported" ELSE "recovered"

LineIn(T, n) == {k \in Keys : WaitsRow(T[<<n, k>>])}
OrderIn(T, n) == {p \in LineIn(T, n) \X LineIn(T, n) :
                     T[<<n, p[1]>>].node_seq < T[<<n, p[2]>>].node_seq}
SlotIn(T, n) == IF \E k \in Keys : ActiveRow(T[<<n, k>>])
                THEN CHOOSE k \in Keys : ActiveRow(T[<<n, k>>]) ELSE NULL

LaneIsRead ==
    \A n \in Nodes :
        /\ WaitingKeys(n) = LineIn(jobs, n)
        /\ OrderOf(n) = OrderIn(jobs, n)
        /\ SlotOf(n) = SlotIn(jobs, n)
        /\ \A k \in Keys : OutcomeOf(n, k) = OutcomeRow(jobs[<<n, k>>])

LEMMA LaneRead == OneActivePerNode => LaneIsRead
<1> SUFFICES ASSUME OneActivePerNode, NEW n \in Nodes
             PROVE  /\ WaitingKeys(n) = LineIn(jobs, n)
                    /\ OrderOf(n) = OrderIn(jobs, n)
                    /\ SlotOf(n) = SlotIn(jobs, n)
                    /\ \A k \in Keys : OutcomeOf(n, k) = OutcomeRow(jobs[<<n, k>>])
  BY DEF LaneIsRead
<1>1. \A k \in Keys : <<n, k>> \in Jobs /\ (<<n, k>> \in JobsOf(n) <=> Exists(<<n, k>>))
  BY DEF Jobs, JobsOf
<1>2. WaitingKeys(n) = LineIn(jobs, n)
  BY <1>1 DEF WaitingKeys, LineIn, WaitsRow, Exists, Claimed
<1>3. \A k \in Keys : <<n, k>> \in ActiveJobs(n) <=> ActiveRow(jobs[<<n, k>>])
  BY <1>1 DEF ActiveJobs, ActiveRow, Exists, Claimed
<1>4. \A j \in ActiveJobs(n) : \E k \in Keys : j = <<n, k>>
  BY DEF ActiveJobs, JobsOf, Jobs
<1>5. CASE \E k \in Keys : ActiveRow(jobs[<<n, k>>])
  <2>1. PICK k \in Keys : ActiveRow(jobs[<<n, k>>])
    BY <1>5
  <2>2. <<n, k>> \in ActiveJobs(n)
    BY <1>3, <2>1
  <2>3. \A l \in Keys : <<n, l>> \in ActiveJobs(n) => l = k
    BY <2>2 DEF OneActivePerNode
  <2>4. SlotOf(n) = CHOOSE l \in Keys : <<n, l>> \in ActiveJobs(n)
    BY <2>2 DEF SlotOf, Busy
  <2>5. SlotOf(n) = k
    BY <2>2, <2>3, <2>4
  <2>6. SlotIn(jobs, n) = k
    BY <1>3, <2>1, <2>3 DEF SlotIn
  <2> QED BY <1>2, <2>5, <2>6 DEF OrderOf, OrderIn, OutcomeOf, OutcomeRow, Exists
<1>6. CASE \A k \in Keys : ~ActiveRow(jobs[<<n, k>>])
  <2>1. SlotOf(n) = SlotIn(jobs, n)
    BY <1>3, <1>4, <1>6 DEF SlotOf, Busy, SlotIn
  <2> QED BY <1>2, <2>1 DEF OrderOf, OrderIn, OutcomeOf, OutcomeRow, Exists
<1> QED BY <1>5, <1>6

LEMMA LaneReadAfter == OneActivePerNode' => LaneIsRead'
  BY LaneRead, PTL

\* Of two tables that differ in one row, only that row's lane differs, and there
\* only by the request itself.
LEMMA LaneElsewhere ==
    ASSUME NEW T, NEW U, NEW n \in Nodes, NEW k \in Keys,
           \A m \in Nodes, l \in Keys : m # n \/ l # k => U[<<m, l>>] = T[<<m, l>>]
    PROVE  /\ \A m \in Nodes \ {n} : /\ LineIn(U, m) = LineIn(T, m)
                                     /\ OrderIn(U, m) = OrderIn(T, m)
                                     /\ SlotIn(U, m) = SlotIn(T, m)
           /\ LineIn(U, n) \ {k} = LineIn(T, n) \ {k}
<1>1. ASSUME NEW m \in Nodes, m # n
      PROVE  LineIn(U, m) = LineIn(T, m) /\ OrderIn(U, m) = OrderIn(T, m) /\ SlotIn(U, m) = SlotIn(T, m)
  <2>1. \A l \in Keys : U[<<m, l>>] = T[<<m, l>>]
    BY <1>1
  <2>2. LineIn(U, m) = LineIn(T, m) /\ LineIn(T, m) \subseteq Keys
    BY <2>1 DEF LineIn
  <2>3. OrderIn(U, m) = OrderIn(T, m)
    BY <2>1, <2>2 DEF OrderIn
  <2>4. SlotIn(U, m) = SlotIn(T, m)
    <3>1. \A l \in Keys : ActiveRow(U[<<m, l>>]) <=> ActiveRow(T[<<m, l>>])
      BY <2>1
    <3> QED BY <3>1, Zenon DEF SlotIn
  <2> QED BY <2>2, <2>3, <2>4
<1>2. LineIn(U, n) \ {k} = LineIn(T, n) \ {k}
  BY DEF LineIn
<1> QED BY <1>1, <1>2

\* Who is in the slot, if at most one can be.
LEMMA InSlot ==
    ASSUME NEW T, NEW n \in Nodes,
           \A k, l \in Keys : ActiveRow(T[<<n, k>>]) /\ ActiveRow(T[<<n, l>>]) => k = l
    PROVE  /\ \A k \in Keys : SlotIn(T, n) = k <=> ActiveRow(T[<<n, k>>])
           /\ SlotIn(T, n) = NULL <=> \A k \in Keys : ~ActiveRow(T[<<n, k>>])
<1>1. NULL \notin Keys
  BY BoundAssumption
<1>2. CASE \E k \in Keys : ActiveRow(T[<<n, k>>])
  <2>1. PICK k \in Keys : ActiveRow(T[<<n, k>>])
    BY <1>2
  <2>2. SlotIn(T, n) = k
    BY <2>1 DEF SlotIn
  <2> QED BY <1>1, <2>1, <2>2
<1>3. CASE \A k \in Keys : ~ActiveRow(T[<<n, k>>])
  <2>1. SlotIn(T, n) = NULL
    BY <1>3 DEF SlotIn
  <2> QED BY <1>1, <1>3, <2>1
<1> QED BY <1>2, <1>3

\* The written table differs from the one before in the row of <<n, k>> only.
OnlyRow(n, k) == \A m \in Nodes, l \in Keys : m # n \/ l # k => jobs'[<<m, l>>] = jobs[<<m, l>>]

LEMMA LaneWrites ==
    ASSUME LaneIsRead, LaneIsRead', NEW n \in Nodes, NEW k \in Keys, OnlyRow(n, k)
    PROVE  /\ [m \in Nodes |-> WaitingKeys(m)]' =
                 [[m \in Nodes |-> WaitingKeys(m)] EXCEPT ![n] = LineIn(jobs', n)]
           /\ [m \in Nodes |-> OrderOf(m)]' =
                 [[m \in Nodes |-> OrderOf(m)] EXCEPT ![n] = OrderIn(jobs', n)]
           /\ [m \in Nodes |-> SlotOf(m)]' =
                 [[m \in Nodes |-> SlotOf(m)] EXCEPT ![n] = SlotIn(jobs', n)]
           /\ [m \in Nodes |-> [l \in Keys |-> OutcomeOf(m, l)]]' =
                 [[m \in Nodes |-> [l \in Keys |-> OutcomeOf(m, l)]]
                     EXCEPT ![n][k] = OutcomeRow(jobs'[<<n, k>>])]
<1>1. \A m \in Nodes \ {n} : /\ LineIn(jobs', m) = LineIn(jobs, m)
                             /\ OrderIn(jobs', m) = OrderIn(jobs, m)
                             /\ SlotIn(jobs', m) = SlotIn(jobs, m)
  BY LaneElsewhere DEF OnlyRow
<1>2. \A m \in Nodes, l \in Keys : OutcomeOf(m, l) = OutcomeRow(jobs[<<m, l>>])
  BY DEF LaneIsRead
<1>3. \A m \in Nodes, l \in Keys : OutcomeOf(m, l)' = OutcomeRow(jobs'[<<m, l>>])
  BY DEF LaneIsRead
<1>4. \A m \in Nodes : /\ WaitingKeys(m)' = LineIn(jobs', m) /\ WaitingKeys(m) = LineIn(jobs, m)
                       /\ OrderOf(m)' = OrderIn(jobs', m) /\ OrderOf(m) = OrderIn(jobs, m)
                       /\ SlotOf(m)' = SlotIn(jobs', m) /\ SlotOf(m) = SlotIn(jobs, m)
  BY DEF LaneIsRead
<1>5. [m \in Nodes |-> WaitingKeys(m)]' =
                 [[m \in Nodes |-> WaitingKeys(m)] EXCEPT ![n] = LineIn(jobs', n)]
  BY <1>1, <1>4
<1>6. [m \in Nodes |-> OrderOf(m)]' =
                 [[m \in Nodes |-> OrderOf(m)] EXCEPT ![n] = OrderIn(jobs', n)]
  BY <1>1, <1>4
<1>7. [m \in Nodes |-> SlotOf(m)]' =
                 [[m \in Nodes |-> SlotOf(m)] EXCEPT ![n] = SlotIn(jobs', n)]
  BY <1>1, <1>4
<1>8. [m \in Nodes |-> [l \in Keys |-> OutcomeOf(m, l)]]' =
                 [[m \in Nodes |-> [l \in Keys |-> OutcomeOf(m, l)]]
                     EXCEPT ![n][k] = OutcomeRow(jobs'[<<n, k>>])]
  <2>1. \A m \in Nodes, l \in Keys :
           OutcomeOf(m, l)' = IF m = n /\ l = k THEN OutcomeRow(jobs'[<<n, k>>]) ELSE OutcomeOf(m, l)
    <3> TAKE m \in Nodes, l \in Keys
    <3>1. OutcomeOf(m, l) = OutcomeRow(jobs[<<m, l>>]) /\ OutcomeOf(m, l)' = OutcomeRow(jobs'[<<m, l>>])
      BY <1>2, <1>3
    <3>2. m # n \/ l # k => jobs'[<<m, l>>] = jobs[<<m, l>>]
      BY DEF OnlyRow
    <3> QED BY <3>1, <3>2
  <2> QED BY <2>1
<1> QED BY <1>5, <1>6, <1>7, <1>8

\* What of its lane a written row leaves as it was.
LEMMA LaneStays ==
    ASSUME LaneIsRead, LaneIsRead', NEW n \in Nodes, NEW k \in Keys, OnlyRow(n, k)
    PROVE  /\ LineIn(jobs', n) = LineIn(jobs, n) =>
                 [m \in Nodes |-> WaitingKeys(m)]' = [m \in Nodes |-> WaitingKeys(m)]
           /\ OrderIn(jobs', n) = OrderIn(jobs, n) =>
                 [m \in Nodes |-> OrderOf(m)]' = [m \in Nodes |-> OrderOf(m)]
           /\ SlotIn(jobs', n) = SlotIn(jobs, n) =>
                 [m \in Nodes |-> SlotOf(m)]' = [m \in Nodes |-> SlotOf(m)]
<1>1. \A m \in Nodes \ {n} : /\ LineIn(jobs', m) = LineIn(jobs, m)
                             /\ OrderIn(jobs', m) = OrderIn(jobs, m)
                             /\ SlotIn(jobs', m) = SlotIn(jobs, m)
  BY LaneElsewhere DEF OnlyRow
<1>2. \A m \in Nodes : /\ WaitingKeys(m)' = LineIn(jobs', m) /\ WaitingKeys(m) = LineIn(jobs, m)
                       /\ OrderOf(m)' = OrderIn(jobs', m) /\ OrderOf(m) = OrderIn(jobs, m)
                       /\ SlotOf(m)' = SlotIn(jobs', m) /\ SlotOf(m) = SlotIn(jobs, m)
  BY DEF LaneIsRead
<1>3. ASSUME LineIn(jobs', n) = LineIn(jobs, n) PROVE \A m \in Nodes : WaitingKeys(m)' = WaitingKeys(m)
  BY <1>1, <1>2, <1>3
<1>4. ASSUME OrderIn(jobs', n) = OrderIn(jobs, n) PROVE \A m \in Nodes : OrderOf(m)' = OrderOf(m)
  BY <1>1, <1>2, <1>4
<1>5. ASSUME SlotIn(jobs', n) = SlotIn(jobs, n) PROVE \A m \in Nodes : SlotOf(m)' = SlotOf(m)
  BY <1>1, <1>2, <1>5
<1> QED BY <1>3, <1>4, <1>5

LEMMA LaneKeepsOutcomes ==
    ASSUME LaneIsRead, LaneIsRead', NEW n \in Nodes, NEW k \in Keys, OnlyRow(n, k),
           OutcomeRow(jobs'[<<n, k>>]) = OutcomeRow(jobs[<<n, k>>])
    PROVE  [m \in Nodes |-> [l \in Keys |-> OutcomeOf(m, l)]]' = [m \in Nodes |-> [l \in Keys |-> OutcomeOf(m, l)]]
<1>1. \A m \in Nodes, l \in Keys : OutcomeOf(m, l)' = OutcomeOf(m, l)
  <2> TAKE m \in Nodes, l \in Keys
  <2>1. OutcomeOf(m, l) = OutcomeRow(jobs[<<m, l>>]) /\ OutcomeOf(m, l)' = OutcomeRow(jobs'[<<m, l>>])
    BY DEF LaneIsRead
  <2>2. m # n \/ l # k => jobs'[<<m, l>>] = jobs[<<m, l>>]
    BY DEF OnlyRow
  <2> QED BY <2>1, <2>2
<1> QED BY <1>1

\* What the rows of a phone are to its lane: at most one is active, and a waiting one
\* is typed and numbered before the next.
LaneRows(n) ==
    /\ \A k, l \in Keys : ActiveRow(jobs[<<n, k>>]) /\ ActiveRow(jobs[<<n, l>>]) => k = l
    /\ \A k \in Keys : WaitsRow(jobs[<<n, k>>]) =>
          /\ jobs[<<n, k>>] \in JobRow
          /\ jobs[<<n, k>>].node_seq < nodes[n].next_node_seq
    /\ \A k, l \in Keys : /\ WaitsRow(jobs[<<n, k>>]) /\ WaitsRow(jobs[<<n, l>>])
                          /\ jobs[<<n, k>>].node_seq = jobs[<<n, l>>].node_seq
                          => k = l

LEMMA LaneRowsHold == ASSUME IInv, NEW n \in Nodes PROVE LaneRows(n)
<1>1. \A k \in Keys : <<n, k>> \in Jobs /\ <<n, k>>[1] = n /\ <<n, k>>[2] = k
  BY DEF Jobs
<1>2. \A k, l \in Keys : ActiveRow(jobs[<<n, k>>]) /\ ActiveRow(jobs[<<n, l>>]) => k = l
  <2>1. \A k \in Keys : ActiveRow(jobs[<<n, k>>]) => <<n, k>> \in ActiveJobs(n)
    BY <1>1 DEF ActiveRow, ActiveJobs, JobsOf, Exists, Claimed
  <2>2. \A i, j \in ActiveJobs(n) : i = j
    BY DEF IInv, OneActivePerNode
  <2> QED BY <1>1, <2>1, <2>2
<1>3. ASSUME NEW k \in Keys, WaitsRow(jobs[<<n, k>>])
      PROVE  /\ jobs[<<n, k>>] \in JobRow
             /\ jobs[<<n, k>>].node_seq < nodes[n].next_node_seq
  <2>1. Exists(<<n, k>>)
    BY <1>3 DEF WaitsRow, Exists
  <2>2. jobs[<<n, k>>] \in JobRow
    BY <1>1, <2>1, RowTypes DEF IInv
  <2>3. jobs[<<n, k>>].node_seq < nodes[n].next_node_seq
    BY <1>1, <2>1 DEF IInv, SequenceBelowNext
  <2> QED BY <2>2, <2>3
<1>4. ASSUME NEW k \in Keys, NEW l \in Keys, WaitsRow(jobs[<<n, k>>]), WaitsRow(jobs[<<n, l>>]),
             jobs[<<n, k>>].node_seq = jobs[<<n, l>>].node_seq
      PROVE  k = l
  <2>1. Exists(<<n, k>>) /\ Exists(<<n, l>>)
    BY <1>4 DEF WaitsRow, Exists
  <2>2. <<n, k>> = <<n, l>>
    BY <1>1, <1>4, <2>1 DEF IInv, NumbersDiffer
  <2> QED BY <2>2
<1> QED BY <1>2, <1>3, <1>4 DEF LaneRows

LEMMA LaneSubmits ==
    ASSUME IInv, LaneIsRead, LaneIsRead', NEW n \in Nodes, NEW k \in Keys, EnqueueStep(<<n, k>>)
    PROVE  Lane!Submit(n, k)
<1> DEFINE j == <<n, k>>
<1>1. TypeOK /\ j \in Jobs /\ j[1] = n /\ LaneRows(n)
  BY LaneRowsHold DEF IInv, Jobs
<1>2. OnlyRow(n, k)
  <2>1. \A i \in Jobs : i # j => jobs'[i] = jobs[i]
    BY <1>1, OneRowWritten DEF JobStep
  <2> QED BY <2>1 DEF OnlyRow, Jobs
<1>3. jobs[j] = NoRow /\ WaitsRow(jobs'[j]) /\ jobs'[j].node_seq = nodes[n].next_node_seq
  BY <1>1, EnqueueEffect DEF WaitsRow, EnqueueStep, Exists
<1>4. nodes[n].next_node_seq \in Nat
  BY <1>1, RowTypes DEF EnqueueStep, NodeRow
<1> HIDE DEF j
<1>5. /\ ~WaitsRow(jobs[j]) /\ ~ActiveRow(jobs[j]) /\ OutcomeRow(jobs[j]) = "open"
      /\ ~ActiveRow(jobs'[j]) /\ OutcomeRow(jobs'[j]) = "open"
  BY <1>3 DEF WaitsRow, ActiveRow, OutcomeRow
<1>6. LineIn(jobs', n) = LineIn(jobs, n) \cup {k} /\ k \notin LineIn(jobs, n)
  BY <1>2, <1>3, <1>5 DEF OnlyRow, LineIn, j
<1>7. \A l \in LineIn(jobs, n) : /\ l # k
                                 /\ jobs'[<<n, l>>].node_seq = jobs[<<n, l>>].node_seq
                                 /\ jobs[<<n, l>>].node_seq \in Nat
                                 /\ jobs[<<n, l>>].node_seq < jobs'[<<n, k>>].node_seq
  BY <1>1, <1>2, <1>3, <1>6 DEF OnlyRow, LineIn, LaneRows, JobRow, j
<1>8. jobs'[<<n, k>>].node_seq \in Nat
  BY <1>3, <1>4 DEF j
<1>9. OrderIn(jobs', n) = OrderIn(jobs, n) \cup (LineIn(jobs, n) \X {k})
  BY <1>6, <1>7, <1>8 DEF OrderIn
<1>10. SlotIn(jobs', n) = SlotIn(jobs, n) /\ SlotIn(jobs, n) # k
  <2>1. \A l \in Keys : ActiveRow(jobs'[<<n, l>>]) <=> ActiveRow(jobs[<<n, l>>])
    BY <1>2, <1>5 DEF OnlyRow, j
  <2>2. SlotIn(jobs', n) = SlotIn(jobs, n)
    BY <2>1, Zenon DEF SlotIn
  <2>3. SlotIn(jobs, n) # k
    BY <1>1, <1>5, InSlot DEF LaneRows, j
  <2> QED BY <2>2, <2>3
<1>11. WaitingKeys(n) = LineIn(jobs, n) /\ SlotOf(n) = SlotIn(jobs, n) /\ OrderOf(n) = OrderIn(jobs, n)
       /\ OutcomeOf(n, k) = "open"
  BY <1>5 DEF LaneIsRead, j
<1>12. [m \in Nodes |-> WaitingKeys(m)]' = [[m \in Nodes |-> WaitingKeys(m)] EXCEPT ![n] = @ \cup {k}]
  <2>1. [m \in Nodes |-> WaitingKeys(m)]' = [[m \in Nodes |-> WaitingKeys(m)] EXCEPT ![n] = LineIn(jobs', n)]
    BY <1>2, LaneWrites
  <2>2. LineIn(jobs', n) = [m \in Nodes |-> WaitingKeys(m)][n] \cup {k}
    BY <1>6, <1>11
  <2> QED BY <2>1, <2>2
<1>13. [m \in Nodes |-> OrderOf(m)]' = [[m \in Nodes |-> OrderOf(m)] EXCEPT ![n] = @ \cup ([m \in Nodes |-> WaitingKeys(m)][n] \X {k})]
  <2>1. [m \in Nodes |-> OrderOf(m)]' = [[m \in Nodes |-> OrderOf(m)] EXCEPT ![n] = OrderIn(jobs', n)]
    BY <1>2, LaneWrites
  <2>2. OrderIn(jobs', n) = [m \in Nodes |-> OrderOf(m)][n] \cup ([m \in Nodes |-> WaitingKeys(m)][n] \X {k})
    BY <1>9, <1>11
  <2> QED BY <2>1, <2>2
<1>14. [m \in Nodes |-> SlotOf(m)]' = [m \in Nodes |-> SlotOf(m)]
  BY <1>2, <1>10, LaneStays
<1>15. [m \in Nodes |-> [l \in Keys |-> OutcomeOf(m, l)]]' = [m \in Nodes |-> [l \in Keys |-> OutcomeOf(m, l)]]
  BY <1>2, <1>5, LaneKeepsOutcomes DEF j
<1> QED BY <1>6, <1>10, <1>11, <1>12, <1>13, <1>14, <1>15 DEF Lane!Submit, Lane!Join, Lane!Open

LEMMA LaneDispatches ==
    ASSUME IInv, LaneIsRead, LaneIsRead', NEW n \in Nodes, NEW k \in Keys, ClaimStep(<<n, k>>)
    PROVE  Lane!Dispatch(n, k)
<1> DEFINE j == <<n, k>>
<1>1. TypeOK /\ j \in Jobs /\ j[1] = n /\ LaneRows(n)
  BY LaneRowsHold DEF IInv, Jobs
<1>2. OnlyRow(n, k)
  <2>1. \A i \in Jobs : i # j => jobs'[i] = jobs[i]
    BY <1>1, OneRowWritten DEF JobStep
  <2> QED BY <2>1 DEF OnlyRow, Jobs
<1>3. WaitsRow(jobs[j]) /\ ActiveRow(jobs'[j])
  BY <1>1, ClaimEffect DEF WaitsRow, ActiveRow, Exists, Claimed
<1>4. \A l \in Keys : ~ActiveRow(jobs[<<n, l>>])
  <2>1. ~Busy(n)
    BY <1>1 DEF ClaimStep
  <2>2. \A l \in Keys : <<n, l>> \in Jobs /\ <<n, l>>[1] = n
    BY DEF Jobs
  <2> QED BY <2>1, <2>2 DEF Busy, ActiveJobs, JobsOf, ActiveRow, Exists, Claimed
<1>5. \A l \in Keys : WaitsRow(jobs[<<n, l>>]) => jobs[j].node_seq <= jobs[<<n, l>>].node_seq
  <2> TAKE l \in Keys
  <2>1. <<n, l>> \in Jobs /\ <<n, l>>[1] = n
    BY DEF Jobs
  <2> QED BY <1>1, <2>1, HeadPrecedesWaiting DEF WaitsRow, Exists, Claimed
<1> HIDE DEF j
<1>6. /\ ~ActiveRow(jobs[j]) /\ OutcomeRow(jobs[j]) = "open"
      /\ ~WaitsRow(jobs'[j]) /\ OutcomeRow(jobs'[j]) = "open"
  BY <1>3 DEF WaitsRow, ActiveRow, OutcomeRow
<1>7. LineIn(jobs', n) = LineIn(jobs, n) \ {k} /\ k \in LineIn(jobs, n)
  BY <1>2, <1>3, <1>6 DEF OnlyRow, LineIn, j
<1>8. \A l \in LineIn(jobs, n) \ {k} : /\ jobs'[<<n, l>>].node_seq = jobs[<<n, l>>].node_seq
                                       /\ jobs[<<n, k>>].node_seq < jobs[<<n, l>>].node_seq
  BY <1>1, <1>2, <1>3, <1>5 DEF OnlyRow, LineIn, LaneRows, JobRow, j
<1>9. OrderIn(jobs', n) = {p \in OrderIn(jobs, n) : p[1] \notin {k} /\ p[2] \notin {k}}
  BY <1>7, <1>8 DEF OrderIn
<1>10. \A l \in LineIn(jobs, n) \ {k} : <<k, l>> \in OrderIn(jobs, n)
  BY <1>7, <1>8 DEF OrderIn
<1>11. SlotIn(jobs', n) = k /\ SlotIn(jobs, n) = NULL
  <2>1. \A l \in Keys : ActiveRow(jobs'[<<n, l>>]) <=> l = k
    BY <1>2, <1>3, <1>4 DEF OnlyRow, j
  <2>2. SlotIn(jobs', n) = k
    BY <2>1, InSlot
  <2>3. SlotIn(jobs, n) = NULL
    BY <1>4, InSlot
  <2> QED BY <2>2, <2>3
<1>12. WaitingKeys(n) = LineIn(jobs, n) /\ SlotOf(n) = SlotIn(jobs, n) /\ OrderOf(n) = OrderIn(jobs, n)
       /\ OutcomeOf(n, k) = "open"
  BY <1>6 DEF LaneIsRead, j
<1>13. [m \in Nodes |-> WaitingKeys(m)]' = [[m \in Nodes |-> WaitingKeys(m)] EXCEPT ![n] = @ \ {k}]
  <2>1. [m \in Nodes |-> WaitingKeys(m)]' = [[m \in Nodes |-> WaitingKeys(m)] EXCEPT ![n] = LineIn(jobs', n)]
    BY <1>2, LaneWrites
  <2>2. LineIn(jobs', n) = [m \in Nodes |-> WaitingKeys(m)][n] \ {k}
    BY <1>7, <1>12
  <2> QED BY <2>1, <2>2
<1>14. [m \in Nodes |-> OrderOf(m)]' = [[m \in Nodes |-> OrderOf(m)] EXCEPT ![n] = {p \in @ : p[1] \notin {k} /\ p[2] \notin {k}}]
  <2>1. [m \in Nodes |-> OrderOf(m)]' = [[m \in Nodes |-> OrderOf(m)] EXCEPT ![n] = OrderIn(jobs', n)]
    BY <1>2, LaneWrites
  <2>2. OrderIn(jobs', n) = {p \in [m \in Nodes |-> OrderOf(m)][n] : p[1] \notin {k} /\ p[2] \notin {k}}
    BY <1>9, <1>12
  <2> QED BY <2>1, <2>2
<1>15. [m \in Nodes |-> SlotOf(m)]' = [[m \in Nodes |-> SlotOf(m)] EXCEPT ![n] = k]
  BY <1>2, <1>11, LaneWrites
<1>16. [m \in Nodes |-> [l \in Keys |-> OutcomeOf(m, l)]]' = [m \in Nodes |-> [l \in Keys |-> OutcomeOf(m, l)]]
  BY <1>2, <1>6, LaneKeepsOutcomes DEF j
<1> QED BY <1>7, <1>10, <1>11, <1>12, <1>13, <1>14, <1>15, <1>16
        DEF Lane!Dispatch, Lane!Leave, Lane!Front

LEMMA LaneStands ==
    ASSUME IInv, LaneIsRead, LaneIsRead', NEW n \in Nodes, NEW k \in Keys, StartStep(<<n, k>>)
    PROVE  UNCHANGED Lane!laneVars
<1> DEFINE j == <<n, k>>
<1>1. TypeOK /\ j \in Jobs /\ LaneRows(n)
  BY LaneRowsHold DEF IInv, Jobs
<1>2. OnlyRow(n, k)
  <2>1. \A i \in Jobs : i # j => jobs'[i] = jobs[i]
    BY <1>1, OneRowWritten DEF JobStep
  <2> QED BY <2>1 DEF OnlyRow, Jobs
<1>3. ActiveRow(jobs[j]) /\ ActiveRow(jobs'[j])
  BY <1>1, StartEffect DEF StartStep, ActiveRow, Exists, Claimed
<1> HIDE DEF j
<1>4. /\ ~WaitsRow(jobs[j]) /\ OutcomeRow(jobs[j]) = "open"
      /\ ~WaitsRow(jobs'[j]) /\ OutcomeRow(jobs'[j]) = "open"
  BY <1>3 DEF WaitsRow, ActiveRow, OutcomeRow
<1>5. LineIn(jobs', n) = LineIn(jobs, n)
  BY <1>2, <1>4 DEF OnlyRow, LineIn, j
<1>6. \A l \in LineIn(jobs, n) : jobs'[<<n, l>>] = jobs[<<n, l>>]
  BY <1>2, <1>4 DEF OnlyRow, LineIn, j
<1>7. OrderIn(jobs', n) = OrderIn(jobs, n)
  BY <1>5, <1>6 DEF OrderIn
<1>8. SlotIn(jobs', n) = SlotIn(jobs, n)
  <2>1. \A l \in Keys : ActiveRow(jobs'[<<n, l>>]) <=> ActiveRow(jobs[<<n, l>>])
    BY <1>2, <1>3 DEF OnlyRow, j
  <2> QED BY <2>1, Zenon DEF SlotIn
<1>10. [m \in Nodes |-> WaitingKeys(m)]' = [m \in Nodes |-> WaitingKeys(m)]
  BY <1>2, <1>5, LaneStays
<1>11. [m \in Nodes |-> OrderOf(m)]' = [m \in Nodes |-> OrderOf(m)]
  BY <1>2, <1>7, LaneStays
<1>12. [m \in Nodes |-> SlotOf(m)]' = [m \in Nodes |-> SlotOf(m)]
  BY <1>2, <1>8, LaneStays
<1>13. [m \in Nodes |-> [l \in Keys |-> OutcomeOf(m, l)]]' = [m \in Nodes |-> [l \in Keys |-> OutcomeOf(m, l)]]
  BY <1>2, <1>4, LaneKeepsOutcomes DEF j
<1> QED BY <1>10, <1>11, <1>12, <1>13 DEF Lane!laneVars

LEMMA LaneEnds ==
    ASSUME IInv, LaneIsRead, LaneIsRead', NEW n \in Nodes, NEW k \in Keys, FinishStep(<<n, k>>)
    PROVE  Lane!Next
<1> DEFINE j == <<n, k>>
           how == OutcomeRow(jobs'[j])
<1>1. TypeOK /\ j \in Jobs /\ j[1] = n /\ LaneRows(n)
  BY LaneRowsHold DEF IInv, Jobs
<1>2. OnlyRow(n, k)
  <2>1. \A i \in Jobs : i # j => jobs'[i] = jobs[i]
    BY <1>1, OneRowWritten DEF JobStep
  <2> QED BY <2>1 DEF OnlyRow, Jobs
<1>3. /\ ActiveRow(jobs[j]) \/ WaitsRow(jobs[j])
      /\ jobs'[j] # NoRow /\ jobs'[j].terminal_at
      /\ WaitsRow(jobs[j]) => jobs'[j].terminal_reason = "recovery"
  BY <1>1, FinishEffect DEF FinishStep, ActiveRow, WaitsRow, Exists, Claimed
<1>4. /\ how \in {"reported", "recovered"}
      /\ WaitsRow(jobs[j]) => how = "recovered"
      /\ ~ActiveRow(jobs'[j]) /\ ~WaitsRow(jobs'[j])
  BY <1>3 DEF OutcomeRow, ActiveRow, WaitsRow, ResultReasons
<1> HIDE DEF j, how
<1>5. LineIn(jobs', n) = LineIn(jobs, n) \ {k}
  BY <1>2, <1>4 DEF OnlyRow, LineIn, j
<1>6. \A l \in LineIn(jobs, n) \ {k} : jobs'[<<n, l>>] = jobs[<<n, l>>]
  BY <1>2 DEF OnlyRow, LineIn
<1>7. OrderIn(jobs', n) = {p \in OrderIn(jobs, n) : p[1] \notin {k} /\ p[2] \notin {k}}
  BY <1>5, <1>6 DEF OrderIn
<1>8. WaitingKeys(n) = LineIn(jobs, n) /\ SlotOf(n) = SlotIn(jobs, n) /\ OrderOf(n) = OrderIn(jobs, n)
  BY DEF LaneIsRead
<1>9. [m \in Nodes |-> [l \in Keys |-> OutcomeOf(m, l)]]' = [[m \in Nodes |-> [l \in Keys |-> OutcomeOf(m, l)]] EXCEPT ![n][k] = how]
  BY <1>2, LaneWrites DEF j, how
<1>10. CASE WaitsRow(jobs[j])
  <2>1. SlotIn(jobs', n) = SlotIn(jobs, n)
    <3>1. ~ActiveRow(jobs[j])
      BY <1>10 DEF WaitsRow, ActiveRow
    <3>2. \A l \in Keys : ActiveRow(jobs'[<<n, l>>]) <=> ActiveRow(jobs[<<n, l>>])
      BY <1>2, <1>4, <3>1 DEF OnlyRow, j
    <3> QED BY <3>2, Zenon DEF SlotIn
  <2>2. k \in WaitingKeys(n)
    BY <1>8, <1>10 DEF LineIn, j
  <2>3. [m \in Nodes |-> WaitingKeys(m)]' = [[m \in Nodes |-> WaitingKeys(m)] EXCEPT ![n] = @ \ {k}]
    <3>1. [m \in Nodes |-> WaitingKeys(m)]' = [[m \in Nodes |-> WaitingKeys(m)] EXCEPT ![n] = LineIn(jobs', n)]
      BY <1>2, LaneWrites
    <3>2. LineIn(jobs', n) = [m \in Nodes |-> WaitingKeys(m)][n] \ {k}
      BY <1>5, <1>8
    <3> QED BY <3>1, <3>2
  <2>4. [m \in Nodes |-> OrderOf(m)]' = [[m \in Nodes |-> OrderOf(m)] EXCEPT ![n] = {p \in @ : p[1] \notin {k} /\ p[2] \notin {k}}]
    <3>1. [m \in Nodes |-> OrderOf(m)]' = [[m \in Nodes |-> OrderOf(m)] EXCEPT ![n] = OrderIn(jobs', n)]
      BY <1>2, LaneWrites
    <3>2. OrderIn(jobs', n) = {p \in [m \in Nodes |-> OrderOf(m)][n] : p[1] \notin {k} /\ p[2] \notin {k}}
      BY <1>7, <1>8
    <3> QED BY <3>1, <3>2
  <2>5. [m \in Nodes |-> SlotOf(m)]' = [m \in Nodes |-> SlotOf(m)]
    BY <1>2, <2>1, LaneStays
  <2>6. Lane!GiveUp(n, k)
    BY <1>4, <1>9, <1>10, <2>2, <2>3, <2>4, <2>5 DEF Lane!GiveUp, Lane!Leave
  <2> QED BY <2>6 DEF Lane!Next
<1>11. CASE ActiveRow(jobs[j])
  <2>1. SlotIn(jobs, n) = k
    BY <1>1, <1>11, InSlot DEF LaneRows, j
  <2>2. SlotIn(jobs', n) = NULL
    <3>1. \A l \in Keys : ~ActiveRow(jobs'[<<n, l>>])
      BY <1>1, <1>2, <1>4, <1>11 DEF OnlyRow, LaneRows, j
    <3> QED BY <3>1, InSlot
  <2>3. k \notin LineIn(jobs, n)
    BY <1>11 DEF LineIn, j, WaitsRow, ActiveRow
  <2>4. [m \in Nodes |-> WaitingKeys(m)]' = [m \in Nodes |-> WaitingKeys(m)]
    <3>1. LineIn(jobs', n) = LineIn(jobs, n)
      BY <1>5, <2>3
    <3> QED BY <1>2, <3>1, LaneStays
  <2>5. OrderIn(jobs', n) = OrderIn(jobs, n)
    BY <1>7, <2>3 DEF OrderIn
  <2>6. [m \in Nodes |-> OrderOf(m)]' = [m \in Nodes |-> OrderOf(m)]
    BY <1>2, <2>5, LaneStays
  <2>7. [m \in Nodes |-> SlotOf(m)]' = [[m \in Nodes |-> SlotOf(m)] EXCEPT ![n] = NULL]
    BY <1>2, <2>2, LaneWrites
  <2>8. SlotOf(n) = k /\ k # NULL
    BY <1>8, <2>1, BoundAssumption
  <2>9. Lane!Finish(n, how)
    BY <1>9, <2>4, <2>6, <2>7, <2>8 DEF Lane!Finish
  <2> QED BY <1>4, <2>9 DEF Lane!Next
<1> QED BY <1>3, <1>10, <1>11

LEMMA LaneInit == ASSUME Init PROVE Lane!Init
<1>1. \A n \in Nodes, k \in Keys : jobs[<<n, k>>] = NoRow
  BY DEF Init, Jobs
<1>2. \A n \in Nodes, k \in Keys : /\ ~WaitsRow(jobs[<<n, k>>]) /\ ~ActiveRow(jobs[<<n, k>>])
                                   /\ OutcomeRow(jobs[<<n, k>>]) = "open"
  BY <1>1 DEF WaitsRow, ActiveRow, OutcomeRow
<1>3. LaneIsRead
  BY InvariantInit, LaneRead DEF IInv
<1>4. \A n \in Nodes : LineIn(jobs, n) = {} /\ SlotIn(jobs, n) = NULL
  BY <1>2 DEF LineIn, SlotIn
<1>5. \A n \in Nodes : OrderIn(jobs, n) = {}
  BY <1>4 DEF OrderIn
<1>6. \A n \in Nodes : WaitingKeys(n) = {} /\ OrderOf(n) = {} /\ SlotOf(n) = NULL
  BY <1>3, <1>4, <1>5 DEF LaneIsRead
<1>7. \A n \in Nodes, k \in Keys : OutcomeOf(n, k) = "open"
  BY <1>2, <1>3 DEF LaneIsRead
<1> QED BY <1>6, <1>7 DEF Lane!Init

LEMMA LaneStep ==
    ASSUME IInv, IInv', [Next]_vars
    PROVE  [UNCHANGED jobs \/ Lane!Next]_(Lane!laneVars)
<1>1. LaneIsRead /\ LaneIsRead' /\ TypeOK
  BY LaneRead, LaneReadAfter DEF IInv
<1>2. CASE QuietStep
  BY <1>2 DEF QuietStep
<1>3. ASSUME NEW j \in Jobs, JobStep(j)
      PROVE  Lane!Next \/ UNCHANGED Lane!laneVars
  <2>1. PICK n \in Nodes, k \in Keys : j = <<n, k>>
    BY DEF Jobs
  <2>2. CASE EnqueueStep(j)
    BY <1>1, <2>1, <2>2, LaneSubmits DEF Lane!Next
  <2>3. CASE ClaimStep(j)
    BY <1>1, <2>1, <2>3, LaneDispatches DEF Lane!Next
  <2>4. CASE StartStep(j)
    BY <1>1, <2>1, <2>4, LaneStands
  <2>5. CASE FinishStep(j)
    BY <1>1, <2>1, <2>5, LaneEnds
  <2> QED BY <1>3, <2>2, <2>3, <2>4, <2>5 DEF JobStep
<1> QED BY <1>1, <1>2, <1>3, StepKinds

\* Whatever their callers present, the pnq_* functions are one line and one slot per
\* phone: a request joins behind all who wait, the front enters a free slot, and each
\* request gets at most one outcome (migration 082).
THEOREM QueueImplementsLane == Spec => ImplementsPhoneLane
<1>1. Init => Lane!Init
  BY LaneInit
<1>2. IInv /\ IInv' /\ [Next]_vars => [UNCHANGED jobs \/ Lane!Next]_(Lane!laneVars)
  BY LaneStep
<1> QED BY <1>1, <1>2, InvariantHolds, PTL DEF Spec, ImplementsPhoneLane
=============================================================================
