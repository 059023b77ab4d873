------------------------------- MODULE QueueV2 -------------------------------
(***************************************************************************)
(* Phone Node Queue v2: the PostgreSQL contract of migration 082.          *)
(*                                                                         *)
(* One action per pnq_* function.  Each function locks the node or job row *)
(* it decides on, so a call is one step; a call that RAISEs rolls back and *)
(* is not a step.  A timestamp column is modelled by "IS NOT NULL", a job  *)
(* by its (node_id, request_key), which is unique and never deleted, and   *)
(* the append-only audit table by its newest row.                          *)
(***************************************************************************)
EXTENDS Lifecycle, Naturals

CONSTANTS
    Nodes,          \* pnq_nodes.id
    Keys,           \* request_key values
    Payloads,       \* request_payload values
    ExecutionIds,   \* execution_id values callers generate
    MaxEpoch        \* bound on connection_epoch

VARIABLES
    nodes,   \* pnq_nodes
    jobs,    \* pnq_jobs
    audit    \* newest row of pnq_resolution_audit

vars == <<nodes, jobs, audit>>

\* The bound job lifecycle starts in one initial, non-terminal status (unique
\* index uq_lifecycle_state_initial) that no transition leads back to.
ASSUME JobLifecycleAssumption ==
    /\ \E s \in Statuses : StateMatches(s, [initial |-> TRUE])
    /\ \A s, t \in Statuses :
          StateMatches(s, [initial |-> TRUE]) /\ StateMatches(t, [initial |-> TRUE]) => s = t
    /\ \A s \in Statuses : StateMatches(s, [initial |-> TRUE]) => StateMatches(s, [terminal |-> FALSE])
    /\ \A t \in Transitions : StateMatches(t.to_status, [initial |-> FALSE])

ASSUME BoundAssumption ==
    /\ MaxEpoch \in Nat
    /\ NULL \notin Nat
    /\ NULL \notin ExecutionIds \cup Keys

Jobs == Nodes \X Keys
NoRow == [row |-> NULL]
Epochs == 0..MaxEpoch
InitialStatus == CHOOSE s \in Statuses : StateMatches(s, [initial |-> TRUE])
ResultReasons == {"result_succeeded", "result_failed"}
Facts == {"epoch_mismatch", "cas_miss", "payload_mismatch", "idempotent_replay",
          "stale_result", "late_result", "terminalized_for_recovery"}

NodeRow == [next_node_seq : Nat, connection_epoch : Nat]
JobRow == [node_seq : Nat, request_payload : Payloads, status : Statuses,
           job_version : Nat, dispatch_generation : Nat,
           execution_id : ExecutionIds \cup {NULL},
           claimed_connection_epoch : Nat \cup {NULL},
           dispatch_started_at : BOOLEAN, execution_started_at : BOOLEAN,
           terminal_at : BOOLEAN,
           terminal_reason : ResultReasons \cup {"recovery", NULL}]

-----------------------------------------------------------------------------
(* Reading the tables. *)

Registered(n) == nodes[n] # NoRow
Exists(j) == jobs[j] # NoRow
JobsOf(n) == {j \in Jobs : j[1] = n /\ Exists(j)}
Claimed(j) == jobs[j].execution_id # NULL

\* What pnq_claim_next_job calls an active job: claimed and not terminal.
ActiveJobs(n) == {j \in JobsOf(n) : Claimed(j) /\ ~jobs[j].terminal_at}
Busy_StartedOnly(n) == \E j \in ActiveJobs(n) : jobs[j].execution_started_at
Busy(n) == ActiveJobs(n) # {}

\* What pnq_claim_next_job may take next, and the row ORDER BY node_seq puts first.
ClaimableJobs(n) ==
    {j \in JobsOf(n) : /\ ~Claimed(j)
                       /\ ~jobs[j].terminal_at
                       /\ StateMatches(jobs[j].status, [initial |-> TRUE])}
IsHead_AnyClaimable(n, j) == j \in ClaimableJobs(n)
IsHead(n, j) ==
    /\ j \in ClaimableJobs(n)
    /\ \A k \in ClaimableJobs(n) : jobs[j].node_seq <= jobs[k].node_seq

Audit(fact, n, k) == audit' = [fact |-> fact, node |-> n, key |-> k]
AuditJob(fact, j) == Audit(fact, j[1], j[2])

ClaimTarget == <<[terminal |-> FALSE], [automatic |-> TRUE]>>
StartTarget == <<[terminal |-> FALSE], [mark_started |-> TRUE]>>
ResultTarget(success) ==
    <<[terminal |-> TRUE, retryable |-> ~success, administrative |-> FALSE],
      [mark_completed |-> TRUE]>>
StuckTarget == <<[terminal |-> TRUE, administrative |-> TRUE], <<>> >>

\* The SET lists of the writers, given the row they write.
NewJob_NoGeneration(seq, payload) ==
    [node_seq |-> seq, request_payload |-> payload,
     status |-> InitialStatus, job_version |-> 1, dispatch_generation |-> NULL,
     execution_id |-> NULL, claimed_connection_epoch |-> NULL,
     dispatch_started_at |-> FALSE, execution_started_at |-> FALSE,
     terminal_at |-> FALSE, terminal_reason |-> NULL]
NewJob(seq, payload) ==
    [node_seq |-> seq, request_payload |-> payload,
     status |-> InitialStatus, job_version |-> 1, dispatch_generation |-> 0,
     execution_id |-> NULL, claimed_connection_epoch |-> NULL,
     dispatch_started_at |-> FALSE, execution_started_at |-> FALSE,
     terminal_at |-> FALSE, terminal_reason |-> NULL]
ClaimedRow(row, status, execution, epoch) ==
    [row EXCEPT !.status = status, !.execution_id = execution,
                !.claimed_connection_epoch = epoch, !.dispatch_started_at = TRUE,
                !.job_version = @ + 1, !.dispatch_generation = @ + 1]
StartedRow(row, status) ==
    [row EXCEPT !.status = status, !.execution_started_at = TRUE, !.job_version = @ + 1]
FinishedRow_NoTerminalAt(row, status, reason) ==
    [row EXCEPT !.status = status, !.terminal_reason = reason, !.job_version = @ + 1]
FinishedRow(row, status, reason) ==
    [row EXCEPT !.status = status, !.terminal_at = TRUE, !.terminal_reason = reason,
                !.job_version = @ + 1]

-----------------------------------------------------------------------------
(* The pnq_* functions. *)

\* pnq_register_node: an upsert that resets nothing the queue depends on.
RegisterNode(n) ==
    /\ nodes' = [nodes EXCEPT ![n] =
                    IF @ = NoRow THEN [next_node_seq |-> 1, connection_epoch |-> 0] ELSE @]
    /\ UNCHANGED <<jobs, audit>>

\* pnq_bump_connection_epoch: compare-and-swap; the loser is only audited.
BumpConnectionEpoch(n, expected) ==
    /\ Registered(n)
    /\ \/ /\ nodes[n].connection_epoch = expected
          /\ expected < MaxEpoch
          /\ nodes' = [nodes EXCEPT ![n].connection_epoch = @ + 1]
          /\ UNCHANGED audit
       \/ /\ nodes[n].connection_epoch # expected
          /\ Audit("epoch_mismatch", n, NULL)
          /\ UNCHANGED nodes
    /\ UNCHANGED jobs

AdvanceSequence(n) == nodes' = [nodes EXCEPT ![n].next_node_seq = @ + 1]

\* pnq_enqueue_job: at most one row per (node, request_key), whatever is replayed.
EnqueueJob(n, k, payload) ==
    LET j == <<n, k>> IN
    /\ Registered(n)
    /\ \/ /\ Exists(j)
          /\ AuditJob(IF jobs[j].request_payload # payload
                      THEN "payload_mismatch" ELSE "idempotent_replay", j)
          /\ UNCHANGED <<nodes, jobs>>
       \/ /\ ~Exists(j)
          /\ AdvanceSequence(n)
          /\ jobs' = [jobs EXCEPT ![j] = NewJob(nodes[n].next_node_seq, payload)]
          /\ UNCHANGED audit

\* pnq_claim_next_job on the current epoch, with no active job, takes the head.
ClaimHead(n, epoch, execution) ==
    /\ nodes[n].connection_epoch = epoch
    /\ ~Busy(n)
    /\ \A j \in Jobs : Exists(j) => jobs[j].execution_id # execution   \* UNIQUE
    /\ \E j \in Jobs :
          /\ IsHead(n, j)
          /\ HasTarget(jobs[j].status, ClaimTarget[1], ClaimTarget[2])
          /\ jobs' = [jobs EXCEPT ![j] =
                ClaimedRow(@, TransitionTarget(@.status, ClaimTarget[1], ClaimTarget[2]),
                           execution, epoch)]
    /\ UNCHANGED <<nodes, audit>>

\* pnq_claim_next_job returns NULL: stale epoch, a busy node, or nothing waiting.
ClaimNothing(n, epoch) ==
    /\ \/ /\ nodes[n].connection_epoch # epoch
          /\ Audit("epoch_mismatch", n, NULL)
       \/ /\ nodes[n].connection_epoch = epoch
          /\ Busy(n) \/ ClaimableJobs(n) = {}
          /\ UNCHANGED audit
    /\ UNCHANGED <<nodes, jobs>>

ClaimNextJob(n, epoch, execution) ==
    /\ Registered(n)
    /\ ClaimHead(n, epoch, execution) \/ ClaimNothing(n, epoch)

\* The compare-and-swap of pnq_start_execution's UPDATE.
StartMatches(j, epoch, version, generation, execution) ==
    /\ ~jobs[j].terminal_at
    /\ jobs[j].dispatch_started_at
    /\ ~jobs[j].execution_started_at
    /\ jobs[j].execution_id = execution
    /\ jobs[j].claimed_connection_epoch = epoch
    /\ jobs[j].job_version = version
    /\ jobs[j].dispatch_generation = generation

\* pnq_start_execution.
StartExecution(j, epoch, version, generation, execution) ==
    LET from == jobs[j].status IN
    /\ Exists(j)
    /\ \/ /\ nodes[j[1]].connection_epoch # epoch
          /\ AuditJob("epoch_mismatch", j)
          /\ UNCHANGED jobs
       \/ /\ nodes[j[1]].connection_epoch = epoch
          /\ IF HasTarget(from, StartTarget[1], StartTarget[2])
             THEN ~StartMatches(j, epoch, version, generation, execution)
             ELSE TransitionTarget(from, StartTarget[1], StartTarget[2]) = NULL
                  /\ jobs[j].execution_started_at
          /\ AuditJob("cas_miss", j)
          /\ UNCHANGED jobs
       \/ /\ nodes[j[1]].connection_epoch = epoch
          /\ HasTarget(from, StartTarget[1], StartTarget[2])
          /\ StartMatches(j, epoch, version, generation, execution)
          /\ jobs' = [jobs EXCEPT ![j] =
                StartedRow(@, TransitionTarget(from, StartTarget[1], StartTarget[2]))]
          /\ UNCHANGED audit
    /\ UNCHANGED nodes

\* The fence of pnq_record_result: the epoch that claimed the job must still be
\* the node's, and the job must be the running attempt the caller names.
EpochFence_ClaimOnly(j, epoch) == jobs[j].claimed_connection_epoch = epoch
EpochFence(j, epoch) ==
    /\ jobs[j].claimed_connection_epoch = epoch
    /\ nodes[j[1]].connection_epoch = epoch
AttemptRunning(j, generation, execution) ==
    /\ ~jobs[j].terminal_at
    /\ jobs[j].execution_started_at
    /\ jobs[j].execution_id = execution
    /\ jobs[j].dispatch_generation = generation

\* pnq_record_result.
RecordResult(j, execution, epoch, generation, success) ==
    LET from == jobs[j].status
        target == ResultTarget(success)
    IN
    /\ Exists(j)
    /\ \/ /\ ~EpochFence(j, epoch)
          /\ AuditJob("stale_result", j)
          /\ UNCHANGED jobs
       \/ /\ EpochFence(j, epoch)
          /\ ~AttemptRunning(j, generation, execution)
          /\ AuditJob(IF jobs[j].terminal_at THEN "late_result" ELSE "stale_result", j)
          /\ UNCHANGED jobs
       \/ /\ EpochFence(j, epoch)
          /\ AttemptRunning(j, generation, execution)
          /\ HasTarget(from, target[1], target[2])
          /\ jobs' = [jobs EXCEPT ![j] =
                FinishedRow(@, TransitionTarget(from, target[1], target[2]),
                            IF success THEN "result_succeeded" ELSE "result_failed")]
          /\ UNCHANGED audit
    /\ UNCHANGED nodes

\* pnq_mark_stuck: no epoch, generation or version is checked, only terminal_at.
MarkStuck_RestampsReason(j) ==
    /\ Exists(j)
    /\ jobs' = [jobs EXCEPT ![j].terminal_reason = "recovery", ![j].terminal_at = TRUE]
    /\ UNCHANGED <<nodes, audit>>
MarkStuck(j) ==
    LET from == jobs[j].status IN
    /\ Exists(j)
    /\ \/ /\ jobs[j].terminal_at
          /\ UNCHANGED <<jobs, audit>>
       \/ /\ ~jobs[j].terminal_at
          /\ HasTarget(from, StuckTarget[1], StuckTarget[2])
          /\ jobs' = [jobs EXCEPT ![j] =
                FinishedRow(@, TransitionTarget(from, StuckTarget[1], StuckTarget[2]), "recovery")]
          /\ AuditJob("terminalized_for_recovery", j)
    /\ UNCHANGED nodes

-----------------------------------------------------------------------------
Init ==
    /\ nodes = [n \in Nodes |-> NoRow]
    /\ jobs = [j \in Jobs |-> NoRow]
    /\ audit = NoRow

\* Callers may present any epoch, version, generation and execution id: a
\* version or generation beyond the ones below belongs to no row.
Next ==
    \/ \E n \in Nodes : RegisterNode(n)
    \/ \E n \in Nodes, e \in Epochs : BumpConnectionEpoch(n, e)
    \/ \E n \in Nodes, k \in Keys, p \in Payloads : EnqueueJob(n, k, p)
    \/ \E n \in Nodes, e \in Epochs, x \in ExecutionIds : ClaimNextJob(n, e, x)
    \/ \E j \in Jobs, e \in Epochs, v \in 1..4, g \in 0..1, x \in ExecutionIds :
          StartExecution(j, e, v, g, x)
    \/ \E j \in Jobs, x \in ExecutionIds, e \in Epochs, g \in 0..1, s \in BOOLEAN :
          RecordResult(j, x, e, g, s)
    \/ \E j \in Jobs : MarkStuck(j)

Spec == Init /\ [][Next]_vars

-----------------------------------------------------------------------------
(* What the contract promises. *)

\* Every column keeps its type (the CHECK constraints of migration 082).
TypeOK ==
    /\ nodes \in [Nodes -> NodeRow \cup {NoRow}]
    /\ jobs \in [Jobs -> JobRow \cup {NoRow}]
    /\ audit \in [fact : Facts, node : Nodes, key : Keys \cup {NULL}] \cup {NoRow}

\* At most one claimed, unfinished job per phone.  The partial unique index that
\* used to enforce it is dropped by the migration, so only the node lock and the
\* active check of pnq_claim_next_job stand behind it.
OneActivePerNode ==
    \A n \in Nodes : \A j, k \in ActiveJobs(n) : j = k

\* FIFO: when a job has been claimed, every earlier one of its phone has been
\* claimed too or was given up; pnq_mark_stuck may remove a job from the middle.
NoOvertaking ==
    \A n \in Nodes : \A j, k \in JobsOf(n) :
        jobs[j].node_seq < jobs[k].node_seq /\ Claimed(k) => Claimed(j) \/ jobs[j].terminal_at

\* The status and the timestamps are written by different functions and read by
\* different callers: the claim reads execution_id and terminal_at, the deadline
\* sweep reads the lifecycle flags.  They must agree on what is active.
StatusAgreesWithTimestamps ==
    \A j \in Jobs : Exists(j) =>
        /\ jobs[j].terminal_at <=> StateMatches(jobs[j].status, [terminal |-> TRUE])
        /\ (Claimed(j) /\ ~jobs[j].terminal_at)
              <=> StateMatches(jobs[j].status, [initial |-> FALSE, terminal |-> FALSE])

\* A finished row is never written again: a late result, a second result or a
\* sweep that raced the result leaves it as it is.
TerminalIsFinal ==
    [][\A j \in Jobs : Exists(j) /\ jobs[j].terminal_at => jobs'[j] = jobs[j]]_vars

\* A job is dispatched at most once: execution_id, claiming epoch and generation
\* never change after the claim.
ClaimedAtMostOnce ==
    [][\A j \in Jobs : Exists(j) /\ Claimed(j) =>
          /\ jobs'[j].execution_id = jobs[j].execution_id
          /\ jobs'[j].claimed_connection_epoch = jobs[j].claimed_connection_epoch
          /\ jobs'[j].dispatch_generation = jobs[j].dispatch_generation]_vars

\* Every write of a row raises job_version by one, so a compare-and-swap on the
\* version detects any write that came between.
VersionCountsWrites ==
    [][\A j \in Jobs : Exists(j) /\ jobs'[j] # jobs[j] =>
          jobs'[j].job_version = jobs[j].job_version + 1]_vars

\* Once the phone has reconnected, an attempt of the old connection can only be
\* written off: it neither starts nor reports a result.
FencedAttemptOnlyRecovers ==
    [][\A j \in Jobs :
          /\ Exists(j) /\ Claimed(j)
          /\ jobs[j].claimed_connection_epoch # nodes[j[1]].connection_epoch
          /\ jobs'[j] # jobs[j]
          => jobs'[j].terminal_reason = "recovery"]_vars
==============================================================================
