# A verification development for slavegate-server

slavegate-server drives a fleet of Android phones: callers queue jobs and
workflows for a device, the server sends frames to the phone over a WebSocket,
and the phone answers when it is done. A phone can do one thing at a time, so the
heart of the server is *who owns the phone now*: the queue in front of each
device, the claim of its slot, the fencing of answers that come late, and what
happens to all of it when a connection, a timer, a caller or the server process
goes away in the middle.

This directory models that part, checks it with TLC on small instances, and
proves its central promises with TLAPS for every instance.

Contents

1. [The system](#1-the-system)
2. [Modules, and how they follow the code](#2-modules-and-how-they-follow-the-code)
3. [Runs and bounds](#3-runs-and-bounds)
4. [Fairness](#4-fairness)
5. [Proofs](#5-proofs)
6. [What the runs found](#6-what-the-runs-found)
7. [What is not modelled](#7-what-is-not-modelled)
8. [Plan](#8-plan)

To run: `tlc -config MCQueueV2.cfg MCQueueV2.tla` and the other pairs of section 3
(`arbiter_safety` is `DeviceArbiterRefinement.tla` with `MCDeviceArbiter.cfg`);
`tlapm QueueV2Proofs.tla`, and likewise the other modules whose names end in `Proofs`.

---

## 1. The system

All paths below are relative to the repository; the server's own code is in `src/`.

### 1.1 The parts that own a phone

**Lifecycle registry** (`src/db/migrations/105, 110, 111`,
`src/modules/lifecycle/`). No status name is written in the code. An operator
configures, per resource, a table of states with flags (`initial`, `terminal`,
`retryable`, `administrative`, `dispatchable`, `manual`) and a table of transitions
with flags (`automatic`, `mark_started`, `mark_completed`, `external_allowed`,
`manual_allowed`, `clear_completed`, `clear_failure`, `reset_retry`). Every queue asks the registry "the one transition from here
to a state with these flags". None: the caller leaves the row alone, or refuses.
Two: an exception that rolls the transaction back.
*Correct when* the callers' questions have at most one answer, and the code,
which reads timestamps in one place and flags in another, reads the same thing in
both.

**Queue v2 persistence contract** (`src/db/migrations/082_pnq_queue_v2_contract.sql`).
*State*: `pnq_nodes` (a phone's next sequence number and connection epoch),
`pnq_jobs`, the append-only `pnq_resolution_audit`. *Operations*: the `pnq_*`
functions: register a node, bump its epoch, enqueue, claim the head, start,
record a result, mark stuck. Each locks the row it decides on. *Hard*: the
partial unique index on active jobs is dropped by the same migration, so that one
active job per phone rests on the node's row lock and a count; results, sweeps
and replays race for the terminal write; a reconnect fences attempts that still
run. *Correct when* there is one active job per phone, first come first served, a
finished row stays as it is, a replay changes nothing, and versions and epochs
detect every intervening write.

**Queue v2 shadow runtime** (`src/modules/device-execution/pnq-v2-runtime.*.ts`,
driven from `src/ws/direct-ws.server.ts` and `src/transport/transport.ts`).
*State*: `pnq_legacy_job_map`, the socket objects with the epoch each was given,
observations in flight. *Operations*: authentication registers the node and bumps
its epoch; admission enqueues and maps; dispatch claims, starts and records the
attempt; a result is recorded under the attempt of its map row; a periodic sweep
marks expired jobs. *Hard*: every observation is detached from the handler that
began it, so its database calls interleave with all others and any of them may be
lost. *Correct when* no two sockets share an epoch, a map row names its own job's
attempt, no job is started by another one's dispatch, and a claimed job is
finished in the end.

**Device execution arbiter** (`src/modules/device-execution/device-execution-arbiter.ts`).
*State*: `device_execution_roots` (who may own the phone: a standalone job or a
workflow), `device_execution_operations` (jobs, workflows and children of
workflows), both with timestamps, a lifecycle status and an owner generation.
*Operations*: admission, the egress call (a prepare transaction, the send, a complete
transaction), acceptance of results, ambiguity by timeout or disconnect,
cancellation, the end of a workflow, and repairs at startup and by a watchdog.
*Hard*: nearly everything. The send lies between two transactions. The one-root
rule is a read of other rows under an advisory lock (migration 081 drops its
index). A result is matched against four generations written by different calls.
Roots and operations move by separate updates whose transitions are looked up
separately. *Correct when* one root owns the phone, in the order of the queue;
a job is sent once; a frame on the phone is never forgotten; an outcome is the
phone's word; and an ambiguous root stays closed.

**WebSocket servers and transport** (`src/ws/`, `src/transport/`). *State*: the
registry of live sockets by device, the waiters of frames sent (`pendingJobs`),
timers, the replay of queued envelopes. They call the arbiter and the shadow
from connect, disconnect, result and timer callbacks.

**Dispatcher** (`src/modules/dispatcher/`). *State*: the `jobs` table. Creates, sends,
cancels and expires jobs; a cancellation or timeout first ends the job's row and
then tells the arbiter, in two transactions.

**Workflow executor** (`src/modules/workflows/workflow.executor.ts`,
`workflow-cancellation.service.ts`). *State*: the `workflows` table and one run per
workflow. Admits the root, marks the row running, runs steps as child jobs, ends the
row and then the root; a cancellation takes a queued workflow and its root away.

**Generated ("edge") workflows** (`generated-workflow-execution.service.ts`,
`edge-workflow-lifecycle.service.ts`, `workflow.service.ts`, and `_handleWorkflowStatus` in
`src/ws/direct-ws.server.ts`). *State*: the `workflows` row with its checkpoint, an
`edge_workflow` root, the handle that admits the phone's statuses, timers. The phone
runs the whole workflow and reports its progress. *Operations*: dispatch by the
task, replay by the queue pump, status handlers, an acknowledgement timer per
workflow, a periodic sweep over stale rows, cancellation, disconnect, restart.
*Hard*: status handlers are not awaited; row and root are written in separate
transactions and in different orders by different actors; timers and handles die with
the process. *Correct when* the phone's verdict reaches the row, a watchdog fails
only a phone that fell silent, every running workflow ends, and a failed one gives its
phone back.

### 1.2 The parts that decide what runs

**Run admission** (`queueHumanAgencyWorkflowRun` in `src/api/routes.ts`,
`workflow-safety-admission.service.ts`, migration 120). *State*:
`workflow_safety_admission_ledger`, `agency_workflow_runs`, the policy, the plan cache.
*Operations*: one transaction that takes the request's advisory lock, looks for a run
of the idempotency key, takes the scope's lock, counts the ledger against the rolling
limits, inserts an admission, looks again, and inserts run and task; and a check at
dispatch. *Hard*: retries of lost answers, two locks, `NOW()` fixed before the wait for
them, a policy and a plan that change between queueing and dispatch. *Correct when*
a key has one run, no limit is exceeded, no admission is left without its run, and what
is dispatched is what was admitted.

**Segment builder and workflow segments** (`src/modules/segment-builder/`,
`src/modules/workflow-segments/`). *State*: a build job with its lease, candidate and
canary; the segments' and the composition's versions; one execution binding per request
key. *Operations*: a hook call asks an external agent; the agent claims, sends
heartbeats, submits a candidate and asks for a canary run; whoever reads the job
afterwards promotes the candidate; sweeps dispatch jobs again whose lease ran out and fail
canaries whose phone is offline; a failed job can be reopened. *Hard*: every handler spans
several transactions, several sessions pass for the one agent, a hook can reach the agent
and still time out. *Correct when* a job counts as completed only with its candidate
promoted, nothing takes a job from an agent at work, no sweep fails a canary that
runs, a job is reopened once, and a promotion rests on the candidate's own run.

**Task runner and task lifecycle** (`src/modules/task-runner/task-runner.service.ts`,
`src/modules/task-lifecycle/`). *State*: the `tasks` rows; in memory a lock per phone
(`deviceLocks`) and the time its last task ended (`deviceLastTaskTime`). *Operations*: a
poll cycle reads a batch of due tasks, those to be retried after a back-off among them, and
starts an execution for each phone that is free, rested and on line; `executeTaskNow`
starts one by hand; an execution moves the row to running, does its work, records success or
failure with a new retry count, and frees the phone in a `finally`; failed tasks can be requeued,
tasks closed by hand. *Hard*: cycles are not awaited by the interval and overlap; the locks are
looked at and taken at different awaits; the retry count is written from the row a cycle
had read; a restart forgets locks and gaps but not rows. *Correct when* one execution at a time
is at work on a phone, no task is started more often than its retry budget, and no queued task is
passed over for ever.

```
 callers --> task runner --> workflow runs, generated workflows (EDGE WORKFLOW)
 callers --> dispatcher --------+                     +--> lifecycle registry
             workflow executor -+--> ARBITER (roots, operations)
                                |        | prepare / complete
                                v        v
                           transport --> direct WebSocket server <--> phone
                                             |  connect, dispatch, result
                                             v
                                   SHADOW RUNTIME --> pnq_* contract (QUEUE V2)
```

Arbiter and shadow never read each other: the shadow repeats in observation what the
arbiter decides, over tables of its own.

### 1.3 The rest of the server

Listed one by one in `PROJECT.json`. Incidents, model configuration, compile jobs and canary roll-outs keep rows
with lifecycles, leases or compare-and-swaps and are candidates of the plan. UI graph, compilers,
registries, prompts, app mapping and vision transform documents or call external
services. Devices, authentication, OTA, accounts, observability and the dashboard are
row updates, files and presentation.

### 1.4 What is hard to test here

`PROJECT.json` lists the hazards at their lines with the properties that would notice.
The main families: two actors between a read and a write (the one-root rule, the
claim, detached observations); a send between two transactions; answers after
timeouts and reconnects; crashes between two steps that belong together; rows that
are judged by their timestamps in one place and by their status in another; counts and
looks that come before the lock or the insert they justify; one row shared by
attempts that do not know of each other.

---

## 2. Modules, and how they follow the code

| Module | Models | Extends or uses |
|---|---|---|
| `Lifecycle` | the registry's selector functions, over a configuration given as constants | |
| `LifecycleRows`, `PnqFixture`, `DeviceFixture`, `WorkflowFixture`, `SegmentFixture`, `TaskFixture` | the configurations the repository's test fixtures insert | |
| `PhoneLane` | abstract: a line (who waits, and in which order), a slot and one outcome per request | |
| `QueueV2` | migration 082, one action per `pnq_*` function | `Lifecycle` |
| `QueueV2Refinement` | the mapping under which the contract implements `PhoneLane` | `QueueV2`, `INSTANCE PhoneLane` |
| `PnqShadow` | the shadow runtime and what drives it | `INSTANCE QueueV2` |
| `DeviceArbiter` | the arbiter, the executor's and the dispatcher's calls, the waiters, the phone | `INSTANCE Lifecycle`, twice |
| `DeviceArbiterRefinement` | the mapping under which the arbiter implements `PhoneLane` | `DeviceArbiter`, `INSTANCE PhoneLane` |
| `EdgeWorkflow` | generated workflows on a phone, with their watchdogs and status handlers | `INSTANCE Lifecycle` |
| `AtomicAdmission` | abstract: runs and admissions appear one at a time, a run together with its admission | |
| `RunAdmission` | the transaction that queues a run, the safety ledger, the check at dispatch | `INSTANCE AtomicAdmission` |
| `SegmentBuild` | one segment build job, its canary runs, bindings and promotion | `INSTANCE Lifecycle` |
| `TaskRunner` | poll cycles, executions, device locks and gaps, the tasks rows | `INSTANCE Lifecycle` |
| `DeviceArbiterProofs`, `EdgeWorkflowProofs`, `RunAdmissionProofs`, `SegmentBuildProofs`, `TaskRunnerProofs` | theorems | the module they are about, TLAPS |
| `QueueV2Proofs` | theorems about the contract and its refinement | `QueueV2Refinement` |
| `DeviceArbiterFenceProofs` | theorems about permits, frames, ambiguous roots and the refinement | `DeviceArbiterProofs`, `DeviceArbiterRefinement` |
| `PnqShadowProofs` | theorems about the shadow, with those of the contract it drives | `PnqShadow`, `INSTANCE QueueV2Proofs` |
| `MC*` | constants and symmetry for TLC | |

Operators with an underscore in their names (`Busy_StartedOnly`, `MaySend_AnyQueued`, ...)
are not part of the specifications. Each is the operator after it with a plausible
slip, and is used to see that a property would notice that slip.

### Lifecycle

`StateMatches`, `TransitionTarget` and `AmbiguousTransition` are the SQL functions
`lifecycle_state_matches` and `lifecycle_transition_target`. A selector is a record of
the flags it names. The configuration is a constant: what is proved about a queue is
proved for every configuration that meets the stated assumption, which is the form in
which the repository ships (production configurations are data).

### PhoneLane

What callers may count on, and nothing of how: `Submit` joins a line once and behind all who wait,
`Dispatch` takes the front into a free slot, `Finish` and `GiveUp` give an outcome, once. A line is
the set of those who wait and the relation *came before*, which says the same as a sequence and
lets both refinements be proved. `Repairs` distinguishes the two that implement it. In the contract a
call ends one job at most, and the constant is FALSE. In the arbiter one pass of
`reconcileTerminalWorkflowRoots` or of the startup ends the roots of several workflows, the one in the slot and
some that wait, and the constant is TRUE: `Repair` ends and gives up, but lets nobody in and reorders nothing.

### QueueV2

A call of a `pnq_*` function is one step, because it holds the row lock it decides
under; a call that raises rolls back and is no step. Arguments are arbitrary: any
epoch up to the bound, any version, generation and execution id that a caller could
hold. Timestamps are "set or not". The audit table, which is only appended to, is its
newest row. Deadlines are not read by any of these functions and belong to the
shadow, which reads them.

### PnqShadow

Each handler is a small program counter per socket (`AuthSteps`), per job
(`EnqueueSteps`) and per attempt (`AttemptSteps`); its steps are its database calls.
`AuthFails`, `EnqueueFails` and `AttemptEnds` are failed calls or lost answers, of any
call. `Restart` forgets everything in memory. A job's two deadlines that the code reads
are a position on a line, which `DeadlinePasses` advances. A device may answer late,
repeatedly, or over another socket than the one that sent its frame.

### DeviceArbiter

One device. A method of the arbiter is one step (one transaction under the device's
advisory lock); an egress call is `PrepareEgress`, `WireDispatch`,
`CompleteEgress`, with anything in between. A job's root and operation bear the same
name, a child's root is its workflow.

| Action | Code |
|---|---|
| `AdmitJob`, `AdmitWorkflow` | `observeAdmission` |
| `PrepareEgress` | the first transaction of `runStandaloneJobEgress`, as called by dispatcher, executor and queue replay |
| `WireDispatch` | `registerWaiter`, then the send |
| `CompleteEgress` | the second transaction, and the transport's removal of an unsent waiter |
| `AcceptJobResult` | `acceptJobResult`; `CurrentDispatchOwner` is its four-way comparison |
| `EndJobRow`, `ObserveCancelled`, `MarkTimedOut` | the dispatcher's `cancelJob` and timeout, in two transactions |
| `WaiterLost` | a disconnect, or a standalone job's waiter timeout |
| `ExpireServerWorkflowChild` | the timeout of a child |
| `RunWorkflow` ... `FinishServerWorkflowRoot` | `runWorkflow` as it drives the root |
| `CancelQueuedPersistedWorkflow` | the cancellation of a queued workflow |
| `ReconcileTerminalWorkflowRoots`, `Restart` | watchdog and startup repairs |

The mode is the *enforced* one. `device-execution-authority.ts` ships with
`observe_only`, in which the arbiter records what others do; the enforced mode is the
one with promises to keep. Repairs read the `jobs` table for evidence; a set of settled
and a set of never-started children stands for what they find. A row whose
`*_at` columns matter keeps only which of them are set. Where the code looks a
transition up for one child result and finds two, it throws: `ChildResultFails`.

### EdgeWorkflow

One phone. `Accept` ... `MarkFailed` are `dispatchGeneratedWorkflowTemplate`; `Prepare`,
`Send`, `RecordSent` and `RecordUnsent` are `runObservedEgress` with its send between
two transactions, for the dispatching task and for each pump. A status of the phone
starts a handler, which goes through `Resolve`, `ObserveTerminal` (the arbiter) and
`Persist` (the row), with anything in between. `AckTimeout`, `SweepReads`/`SweepFails`, then
`Release` and `SendCancel` are the watchdogs. Time is the set `aged` of rows whose
deadline has passed. Only what the actors tell apart is kept of a root: the lane of
other roots is `occupied`, a job that holds the phone for a while.

### RunAdmission

One step per lock that is taken and per decision under it; a ROLLBACK leaves nothing, a
COMMIT publishes the admission and the run at once. A request's lock is an argument of
its own (`LockOf`), because the code derives it from more than the idempotency key: two
retries of one key may hold different locks. `began` is PostgreSQL's `NOW()`.
A policy may keep a ledger or not, and may be replaced between queueing and dispatch.

`AtomicAdmission` is what this amounts to without transactions: `Queue` adds a run with the admission its plan
needs, `Cover` an admission to a run that was queued when none was needed, each only if its key has none and the
limits leave room. Which runs and rows come is left open, so the specification is a promise about the two tables.

### SegmentBuild

One job. A handler's position between two of its transactions is a variable of its own
(`dispatches`, `retries`, `submits`, `canary`, `poll`, `expiring`). The job row moves through
`Moved`, which is `transitionSegmentBuildJob`: it asks the lifecycle for the outcomes a
selector leaves and writes when there is exactly one, whatever the caller had in mind.
A version stands for a composition with its segments and its execution key. Leases
and deadlines may pass at any time; a device may be off line or on line at each look at it.
The tests' mock answers selectors with fixed statuses, and `SegmentFixture` is the
lifecycle it thereby describes.

### TaskRunner

| Action | Code |
|---|---|
| `PollReads`, `PollLaunches` | the query of `runPollCycle`, and its loop, which awaits nothing: it ends with every execution started and its lock taken |
| `NowChecks`, `NowLocks`, `AccountQueryFails` | `executeTaskNow` up to its `try`: the checks, and the lock after the account's query |
| `StartsRow`, `StartRefused` | the move of the row to running |
| `Succeeds`, `Fails`, `Throws`, `Leaves` | the result, the `catch` and the `finally` |
| `CloseTask`, `RetryFailedTasks` | `transitionTaskManually` and a run's administrative close; `retryConfiguredTasks` |
| `GapPasses`, `Connects`, `Crash` | time, the phone's connection, the process |

An execution is a slot of its task with the phase it has reached. What the task does to the phone
is the matter of `EdgeWorkflow`; here it is the phase *working*, which may end in any of the three
ways, and the tail after the result may throw too, which sends `executeTask` to its `catch` with
a row it has already finished. `Batches` is `ORDER BY ... LIMIT` with ties in any order, `Heads` is what
the loop can launch of a batch. `transitionTask` writes nothing unless the transitions that fit
agree (`TargetsOf`). `attempts` counts the starts by poll cycles since the last requeue,
`raced` marks the phones on which `executeTaskNow` found the lock taken after its query; both are
history and guard nothing. A query is taken to answer within the minimum gap (a minute), so
a cycle that read a phone's tasks before the last one ended finds that phone at rest.
`executeTaskNow` is exported and tested but has no caller in the server; it is modelled as part
of the module's interface.

---

## 3. Runs and bounds

| Run | Instance | Asks |
|---|---|---|
| `queue_contract` | 1 phone, 3 requests, 3 execution ids, 1 reconnect | Whatever callers present, do the functions keep the promises, and do they implement `PhoneLane`? |
| `shadow_safety` | 1 phone, 2 jobs, 2 attempts, 2 sockets, 2 epochs | Do overlapping detached handlers, lost answers and restarts ever mix up sockets, attempts or jobs? |
| `shadow_liveness` | 1 phone, 2 jobs, 2 attempts, 1 socket | Is every claimed job finished in the end? |
| `arbiter_safety` | a job, a workflow, a child | Does the device keep one owner and a job its single send; is every frame and outcome accounted for; do the ledgers implement `PhoneLane`? |
| `arbiter_siblings` | a workflow with two children | Is the fence stable between siblings, and does an ambiguous root stay closed to both? |
| `edge_workflow` | 1 workflow, 1 pump, 3 reports, 1 disconnect, 1 restart | Does the phone's verdict reach the row, do watchdogs fail only silence, does a running workflow end and give the phone back? |
| `run_admission` | 3 calls (one a retry under another lock), 2 keys, 2 policies, 2 plans, 2 ticks | Do the tables look as if runs were admitted one at a time (`AtomicAdmission`): one run per key, limits kept, no admission without its run? No exchanged plan, no call stuck? |
| `segment_build` | 2 versions, 1 canary run, 1 caller, 2 retriers, 1 restart, 2 handlers at a time | Is a completed job promoted, is an agent's work left alone, is a job reopened once? |
| `task_runner` | 2 tasks of 1 phone (one with an account and never retried), 1 cycle at a time, batches of 1, 2 retries | One execution per phone, no start beyond the retry budget, no queued task passed over for ever? |
| `arbiter_one_root`, `edge_cancel`, `segment_canary` | as small as the question allows | Section 6 |

Why these bounds.

*Queue.* Three requests is the least with a job in the slot, a head, and a job behind
the head; order needs all three. Distinct phones share no row, so one phone suffices.
One reconnect makes an epoch stale, and three execution ids let every request be
claimed while a used id is presented again.

*Shadow.* Mixing up needs two of a kind: two sockets (one replaced, one live), two
jobs (a lane's head that is not the job dispatched), two attempts (overlapping, or a
second dispatch of one job). `MaxEpoch = 2` allows both sockets their bump. The
liveness run keeps a single socket, which may still disconnect, fail anywhere and lose
answers; what makes the sweep's promise hard is not the number of sockets.

*Arbiter.* A root in the slot and one behind it is the least with competition; the three
kinds of operation (job, workflow, child) differ in code, and one of each is present.
Generations are compared between siblings, hence two children. Nothing is
unbounded: the generation rises once per root, `fifo` by one per root, and no other
counter exists.

*Edge workflow.* The promises are about one workflow and its watchers; the competition
for the phone is another root (`occupied`) and belongs to the arbiter. `MaxReports = 3` is a
progress report, a verdict and one that overlaps either. The dispatching task and a pump are
two that send at once; the three safety properties are proved for any number of pumps. One
disconnect and one restart each fall anywhere.

*Run admission.* Two calls of one key with different locks and a third of another key
in the same scope: the least in which the index, the locks and the count are each the only
thing that stops a second run or a third unit. Two limits: one run per tick, three units in
two ticks at two units each.

*Segment build.* Two versions are the least in which one candidate replaces another.
`MaxHandlers = 2` bounds the overlap to pairs: every property is about two handlers that
met. Two retriers race for the reopening. `segment_canary` needs two runs, and
`segment_build` has one of them only: with two its pairs of handlers would not fit.

*Task runner.* Two tasks of one phone are the least that compete for it, and a batch of one is
the smallest LIMIT, so that each cycle passes a task over. One of the two has what differs between tasks:
an account, hence an await between check and lock, and no retries. `MaxRetries = 2` has a
retry that may be repeated and a last one. `Slots = {1}` bounds the executions of one
task at a time: the second of a pair is the other task's. One poll cycle is in flight at
a time here; with two the state space is three times as large, and the two safety
properties are proved for any number. Restarts, disconnects, requeues and calls by hand are not bounded.

Deadlock checking is on for queue, shadow, arbiter and task runner: there a step is always possible (an
enqueue that is a replay, an admission that is repeated). It is off in
`edge_workflow`, `run_admission` and `segment_build` and their violation runs, where the
bounded workflows, calls and handlers come to an end; that none is stuck before its end is
what `RunningEnds` and `EveryCallAnswered` say.

Symmetry is used in the queue, the shadow, the siblings and the segment runs, in safety runs only,
over names no definition of the specification tells apart.

The `MC` modules give each table of a fixture a name of its own, because TLC keeps the value of a
definition it reaches by name, and works the right-hand side of a `<-` out again at each use.

---

## 4. Fairness

Safety runs assume none. `shadow_liveness` uses `FairSpec`: weak fairness of
`DeadlinePasses` (clocks move) and of `MarkExpiredActiveStuck` for each job. The
latter is the body of `startPeriodicSweep`: a `setInterval` that runs for as long as the
server is up and visits every expired row; a row that stays expired is visited again,
so weak fairness is what the code gives. `Restart` may occur any number of times and
does not disturb it: the rows are in the database, and the startup runs the same sweep
first. Nothing else is fair. Devices need never connect or answer, handlers may
die at any step, and no dispatch need be made. That is why a job that is never claimed
may wait for ever: the sweep only reads rows past their initial status
(`pnq-v2-runtime.repository.ts:174`), so `queue_deadline_at`, which
`docs/PNQ-003-QUEUE-V2-PERSISTENCE-CONTRACT.md:53` calls the latest time a job may
wait, ends nobody's wait. The promise checked is therefore about claimed jobs.

`edge_workflow` uses weak fairness of the server's own steps: a handler that began goes on
(each is an awaited chain of calls), the process is restarted, a deadline passes, the progress
sweep (`setInterval`) reads and then fails stale rows, the release that follows is
made, and an egress goes on once begun. Neither the phone, nor a connection, nor an
acknowledgement timer is fair: timers die with the process, and it is the sweep over the
rows that ends a workflow. Fairness of a disjunction (`Handling`) does not promise any one
handler its turn, and no more is needed: handlers are bounded.

`run_admission` uses weak fairness of each call's next step: PostgreSQL goes on with a
transaction whose lock is free. `Fail` is not fair. A lock that is handed to others for ever
would need unboundedly many calls, and there are finitely many. `EveryCallAnswered` says that from some
time on every call is idle or done, for good: a call that is made is answered.

`task_runner` uses weak fairness of each poll cycle's read and launch (`setInterval`), of each
execution's next step (an awaited chain with time limits of its own) and of the passing of a gap, and
strong fairness of `StartsRow`: a start that is tried again and again does not always meet a failing
database. `QueuedTaskStarts` is conditional: from some time on the phones stay connected, the server
stays up, and nobody calls `executeTaskNow` or `retryFailedTasks` any more. Without the second kind of
condition a flood of requeued or manual executions could keep the phone; with them what is left to
show is that batches, skips, retries and gaps do not.

`segment_build` assumes no fairness and claims no liveness: a job whose agent never
answers is not ended by anything.

---

## 5. Proofs

### 5.1 Assumptions

All are named `ASSUME`s in the module that declares the constants, and TLC evaluates
them on the fixtures.

* `LifecycleAssumption`: rows of the two tables are well formed, and NULL is no status.
* `JobLifecycleAssumption`: the queue's lifecycle has one initial status
  (`uq_lifecycle_state_initial`), which is not terminal and to which no transition
  leads.
* `DeviceLifecycleAssumption`: the same for roots and operations; terminal states are
  left by nothing; the terminal statuses the code copies from roots to operations
  exist in both with the same flags; a root in the queue cannot become ambiguous.
* `SelectorAssumption`: the selectors the arbiter uses without handling an exception
  match at most one transition. The one selector whose doubling the code can meet, a
  child's result, is left out of it on purpose.
* `FenceAssumption`: a send is prepared only from an operation's initial status; whatever is in
  flight can be blocked; nothing automatic and no result leads away from, and no child's result to, a
  status that waits for an operator; cancelling an operation before its send gives it no outcome.
* `EdgeAssumption`, `EndAssumption`, `VerdictAssumption`: a workflow starts in a status that is not an
  end; there is one status for each kind of end; an ended row neither runs nor fails again, and a
  verdict the phone may give it may still give while the row runs or when only the server failed it.
  An operator's configuration without it would drop verdicts.
* `ShadowAssumption`, `QueueAssumption`: a job has its phone, NULL is no socket; and what `QueueV2` asks.
* `AdmissionAssumption`: keys, locks and scopes are functions of the calls, a run costs at
  least one unit, NULL is none of the values it stands for the absence of.
* `BuildLifecycleAssumption`: the registry's rows are well formed, a job does not start in a
  terminal state, and no transition leads back to the initial state from a terminal state
  or from a state an agent works in.
* `TaskAssumption`: the lifecycle's rows are well formed and every task has its phone.
* `RetryLifecycleAssumption`: a task starts out of a dispatchable or retryable status and into one
  that is neither; only a start, a requeue or a close leads out of those, only a failure leads into a
  retryable one, and only transitions into a dispatchable one reset the retry count. It is what an
  operator's configuration must have for a retry budget to mean anything.
* `NameAssumption`, `BoundAssumption`: names of different kinds differ and NULL is none of them; finitely
  many operations; a bound is a number.

### 5.2 QueueV2Proofs

Each action is first reduced to one of a few kinds of step: nothing but the audit
changes, a node is registered or bumped, or one job's row moves in one of five ways
(enqueue, claim, start, finish by a result, finish by recovery). Everything after
that argues about kinds of steps and not about SQL.

The inductive invariant `IInv` is the type invariant with `SequenceBelowNext`, `NumbersDiffer`,
`StatusAgreesWithTimestamps`, `OneActivePerNode`, `NoOvertaking` and
`ClaimNotAheadOfNode`. They need each other: a claim looks at the lifecycle flag to find
its head and at the columns to find an active job, so *one active job* needs
*status agrees with timestamps*; *no overtaking* needs that a new job is numbered
after all others.

The refinement asks of each kind of step which step of the lane it is. A claim is the interesting one: that
its job is the front of the line is `IsHead` together with `NumbersDiffer` (of two waiting jobs one is strictly
first), and that the slot is free is `Busy`. A start, a node's registration or a bump is a stutter; a
recovery is a `Finish` or a `GiveUp`, as its job was claimed or not.

| Theorem | States |
|---|---|
| `TypeCorrect` | `TypeOK` always |
| `InvariantHolds` | `IInv` always |
| `OneActiveAlways` | at most one claimed, unfinished job per phone |
| `FifoAlways` | no job is claimed while an earlier one of its phone waits |
| `StatusAlwaysAgrees` | flags and columns name the same active jobs |
| `TerminalFrozen` | a finished row is never written |
| `FencedAttempts` | an attempt of an old connection can only be written off |
| `VersionsCount` | a write raises `job_version` by one |
| `ClaimsAreFinal` | execution id, claiming epoch and generation are set once |
| `QueueImplementsLane` | the contract implements `PhoneLane`, for any phones, jobs, callers and reconnects |

### 5.3 DeviceArbiterProofs

Every action is reduced to what it does to a single row of a ledger: it is unchanged,
created in its initial status, or moved along a configured transition
(`RootChange`, `OpChange`). Types follow from these moves.

`OneActiveRoot` is not inductive. A step of `PrepareEgress` is the only one that takes a
root out of the queue to a live status, and its guard read that no *other* root was
active. But the code does not ask the lifecycle whether the root itself is still
queued: it reads timestamps (`InitialPhase`, `Dispatching`, `Dispatched`), while the
slot is counted by lifecycle flags. So the invariant carries `PhaseAgrees`: a root in
the initial status has neither dispatch timestamp. Otherwise a later call, such as a
child's result, could take a queued root for a dispatching one and activate it beside
the owner. It also carries `Grounded`: whatever is in flight (calls, waiters, frames)
has its rows in the ledgers. Without it no type of a row read through a frame is known.

`ArbiterInv == TypeOK /\ Grounded /\ PhaseAgrees /\ OneActiveRoot`.

| Theorem | States |
|---|---|
| `ArbiterInvariant` | `ArbiterInv` always |
| `ArbiterTypeCorrect` | `TypeOK` always: in particular no update writes a NULL status |
| `OneActiveRootAlways` | at most one root holds the device, for any number of jobs, workflows and children |

### 5.4 DeviceArbiterFenceProofs

These are the promises about what is on its way: a permit whose call has not sent, a frame on the
phone, a waiter, an ambiguous root. None is inductive, and they need each other.

`FenceInv == ArbiterInv /\ Fenced`, where `Fenced` has

* `WellFormed`: the timestamps of a row agree with the flags of its status. The code decides by the
  one in some places and by the other elsewhere.
* `HandlesCurrent`: every permit in a call, a waiter or a frame carries the generation of its
  operation and its root, and neither of them can be prepared again. This is why a generation is
  enough of a fence: a root that left the queue is not numbered a second time.
* `OneSend`: an operation has one call and one frame, and a call that has not sent has none.
* `JobsHeld`: until the phone has answered, a standalone job's root is open or cancelled.
* `FrameIsAccountedFor`, `OutcomeIsThePhones`: as the run checks them.

The argument does not follow the SQL either. Each action is reduced to what it does to one root
(`RootFollows`), to one operation (`OpFollows`) and to the phone and the waiters (`Told`); steps that
touch nothing in flight are `Quiet`. The invariant is then shown for the reduced forms, and only
`PrepareEgress`, `WireDispatch`, `CompleteEgress` and the phone's answers need arguments of their own.

| Theorem | States |
|---|---|
| `FenceInvariant` | `FenceInv` always |
| `SentOnceAlways` | a call that has yet to send is alone, and the phone has not seen its operation |
| `HandleStaysCurrentAlways` | the generation a frame carries stays that of its operation and its root |
| `JobFrameHoldsDeviceAlways` | while the phone works on a job the device is that job's, unless it was cancelled |
| `FrameIsAccountedForAlways` | a sent frame has a waiter or an ambiguous root until it has ended |
| `OutcomeIsThePhonesAlways` | no timer, sweep or repair invents an outcome |
| `AmbiguousFailsClosedAlways` | an ambiguous root keeps its row, and nothing is prepared for it |
| `ArbiterImplementsLane` | the arbiter implements `PhoneLane`, for any jobs, workflows and children |
| `RootEndsOnce` | a root's outcome never changes once it is there (`OutcomeIsFinal`, from the refinement) |

The refinement says the most: every step of the arbiter submits a root (`Submitted`), lets one into the slot
(`Entered`), or only ends and gives up (`StepsOfTheLine`), and these are steps of the lane (`LaneSubmits`,
`LaneDispatches`, `LaneRepairs`). Entering needs what the code reads and more. The slot is free because
no *other* root was active and, by `PhaseAgrees`, the root itself was not. It is at the front because
`MaySend` asks for the oldest in the queue, and by `Numbered` the numbers of admitted roots differ and none is above their
count, so that a newcomer's is above all. Its outcome is still open because an ended root is not
queued. A root's outcome is read off its row: *given up* is an administrative status or
generation 0, and `WellFormed` has for it that an open root without a dispatch timestamp is in its initial
status and has generation 0. That no outcome changes once it is there is *terminal states are left by nothing*.

### 5.5 EdgeWorkflowProofs

Three layers, each on top of the one before.

`Typed` adds to `TypeOK` that nothing is in flight for a workflow that has not begun, and that only
terminal reports are taken to the arbiter.

`Stamped` is for the watchdogs: a report is handled once (`HandledOnce`), a checkpoint's stamp belongs
to a report that is no longer waiting (`StampsSpent`), and the deadline a sweep saw has passed for
the checkpoint that the row still has (`SweepIsRight`). The last is the compare-and-swap of
the sweep: its update names the checkpoint it read.

`Agreed` is for the verdict, in a process that has not stopped since: a root that has ended has its end in
the row, or in a handler on its way there which the row will not refuse (`EndOnItsWay`); before the root has
ended, only the server's failure or a cancellation ends the row (`EndedBeforeRoot`), and a verdict on its
way to the root will be taken by the row after it (`VerdictStands`, `VerdictObserved`). A handler may find the row failed by the server meanwhile;
that it still writes its verdict is the third clause of `VerdictAssumption`.

| Theorem | States |
|---|---|
| `EdgeTypeCorrect` | `TypeOK` always; a frame went exactly to the phones that have the workflow |
| `SilenceOnly` | an acknowledged row is failed only past the deadline of the very checkpoint it carries |
| `VerdictReachesRow` | the verdict that ended the root is in the row once its handler is through, or the row was cancelled |

They hold for any number of workflows, pumps, reports, disconnects and restarts.

### 5.6 PnqShadowProofs

A handler of the shadow reads in one database call and uses what it read in the next, with other
handlers, reconnects and restarts between. `ShadowInv` says that what was read means the same when it is used:

* `SocketInv`: no socket holds or has read an epoch beyond the node's (`EpochsReached`); a socket that
  is still registered came after every other had taken its epoch, so what it read is newer
  (`RegisteredIsAhead`); therefore two sockets never hold one epoch;
* `ClaimInv`: a uuid is in one row at most (`OneRowPerExecution`), in none before its own claim
  (`UnclaimedIsFresh`); an attempt past its claim, and a row of the map, name a claim that is in the job's
  row with that generation and that epoch (`AttemptsBacked`, `MapBacked`); and a started job was
  started by its own attempt (`StartedByAttempt`).

The shadow changes the tables by the contract's functions only, so a step of it is a step of `QueueV2` or
leaves the tables alone. The proof that it is makes the contract's theorems available:
`QueueV2Proofs` is instantiated, its assumptions are `QueueAssumption`, and its definitions
agree with those of the instance the model drives (`SameContract`).

| Theorem | States |
|---|---|
| `ShadowInvariant` | `ShadowInv` always |
| `ShadowTypeCorrect` | `TypeOK` always: no handler goes on with a row that is not there |
| `EpochNamesOneSocketAlways` | two sockets of a phone never hold one epoch |
| `MapNamesTheClaimAlways` | a row of the map names the claim of its own job |
| `StartedByItsOwnDispatchAlways` | a job is started by its own dispatch only |
| `ShadowImplementsContract` | the shadow's specification implies `QueueV2`'s |
| `ShadowKeepsContract` | hence one active job per phone, claims in order, and status that agrees with timestamps |
| `ShadowImplementsLane` | and hence `PhoneLane`, by `QueueImplementsLane` |

### 5.7 RunAdmissionProofs

A call's step changes its own transaction and, when it ends, the tables; so the proof
speaks of one call that steps and the others that do not (`UpdateEffect`, `TableStep`).

`LimitsHold` is not inductive: a call counts under the lock and inserts in a later
step, and counts from a time fixed before it waited. The invariant therefore says of
each call that holds a scope's lock that it alone does (`ScopeLocked`), that the row it has
in hand is its own key's and scope's and stamped with its own time (`RowIsOwn`), and that
if the row is fresh, *adding it to the ledger as it is now* keeps every window of every limit
(`FreshIsAdmissible`). The window of a limit that a new row completes begins no
earlier than the window the call counted, and the count had no upper bound, so rows with
later stamps are counted too (`WindowWithinUsage`). That closes the argument.
`OneRowPerKey` and `RunHasItsPlan` carry the admission's plan to its run, for the dispatch.

`IInv` is their conjunction with `TypeOK`, `OneRunPerKey`, `LimitsHold`, `AdmissionHasItsRun` and `DispatchedAsQueued`.

The refinement of `AtomicAdmission` has the tables themselves as its mapping, so only commits are steps of it. A
call's reads, waits, rollbacks and retries leave the tables alone and are stutters. A commit that publishes a
row is `Queue` with a fresh admission, or `Cover` when the run was there already; that the row still fits, long after
it was counted, is `LimitsHold` after the step, and that its key had none is `FreshIsAdmissible`. A commit of a
run alone is `Queue` without an admission. It must not rely on a row it found: by `ReliedOn` such a row is in the ledger, by
`AdmissionHasItsRun` its key then has a run, and the unique index would have refused this one.

| Theorem | States |
|---|---|
| `TypeCorrect` | `TypeOK` always |
| `OneRun` | one run per idempotency key |
| `LimitsNeverExceeded` | no rolling limit is exceeded |
| `NoAdmissionWithoutRun` | no admission without its run (which `AdmissionsAreAtomic` implies again) |
| `DispatchMatchesQueue` | under a ledger a run is sent with the plan it was queued with |
| `AdmissionsAreAtomic` | the transaction implements `AtomicAdmission` |

They hold for any number of calls, keys, scopes, policies, plans and limits.

### 5.8 SegmentBuildProofs

Every handler's step is reduced to what it does to the job's row (`NextJobStep`): the status
stays, it follows a transition that does not complete the job, a poll completes it, or a
retrier reopens it. `CompletedIsPromoted` is then a fact about the one poll that completes the
job, and it is not inductive: the poll promotes the segments, promotes the composition and
writes the activation in transactions of their own, with restarts and other handlers between
them, and completes the job in a fourth. Two facts carry it over:

* promotion is monotone (`Monotone`): an artifact that was promoted is promoted or retired
  ever after, since a later promotion retires it and nothing sends it back;
* the poll's phase says what its own candidate has been through (`PollInv`), and a job with a
  canary under way or recorded has a candidate (`CandidateInv`).

`IInv == TypeOK /\ CandidateInv /\ PollInv /\ CompletedIsPromoted`.

| Theorem | States |
|---|---|
| `TypeCorrect` | `TypeOK` always |
| `CompletedAlwaysPromoted` | a completed job's candidate was promoted in both its parts, and the capability is active |
| `ClaimsNotUndone` | no step takes a job from the agent that works on it back to the queue |
| `ReopenedAtMostOnce` | an ended job is reopened at most once |
| `RunningCanaryKept` | the offline sweep writes off no canary that has started |

### 5.9 TaskRunnerProofs

`OneTaskPerDevice` is not inductive. `LockInv` adds that whoever is past its lock holds it as long as
the phone was not raced for (`HoldsLock`), and that a cycle has read at most one task of a phone it may launch
(`OneHead`): a launch meets a free lock, so nobody else is at work there.

`RetryBudget` speaks of a row, but the count that limits it is written by an execution from what a cycle
had read. `BudgetInv` follows the number through: of a row (`RowBudget`), of an execution not yet done
(`ExecBudget`) and of a cycle that has read and not yet launched (`PollBudget`) it says how many starts the
retry count accounts for (`Spent`, `NextOf`). Between a cycle's read and the launch the row may only have been
closed or requeued: an execution under way holds the lock and one that ends puts the phone at rest, and either
way the cycle passes the phone over; and after a requeue `attempts` begins anew.

| Theorem | States |
|---|---|
| `TypeCorrect` | `TypeOK` always (no run repeats it) |
| `OneTaskPerDeviceHolds` | one execution at a time is between lock and `finally` on a phone |
| `RetryBudgetHolds` | poll cycles start a task at most `MaxRetries` times between requeues, and once if it must not be retried |

They hold for any number of tasks, phones, cycles, executions per task and retries.

### 5.10 Only model-checked

`ActiveEventuallyFinished`, `RunningEnds`, `WatchdogFreesPhone`, `EveryCallAnswered` and
`QueuedTaskStarts`: liveness under fairness, and the ENABLED in it, is beyond the prover. Every
invariant, action property and refinement of a passing run is a theorem. What stays with TLC too is that
`Lifecycle`'s constants meet the assumptions on the repository's fixtures.

---

## 6. What the runs found

Three runs end in a counterexample to what a document, comment or test says.

* `arbiter_one_root`. `finishServerWorkflowRoot` and the startup's repair end a
  workflow's root without asking whether a child still runs on the phone; the next root
  is sent beside it.
* `edge_cancel`. Cancelling a queued workflow promises to end its row and its root in one
  transaction. For a generated workflow the root is looked up under the wrong kind
  (`device-execution-arbiter.ts:2799`), only the row ends, and the pump later sends the
  cancelled workflow.
* `segment_canary`. A canary's outcome is recorded on the binding of its request key,
  which by then may hold a newer candidate: the new version is promoted on the old one's
  run, although canary evidence "must prove a passed execution".

Others were met and have no run of their own.

* A replaced socket's registration and epoch bump are not cancelled; they may run after the
  live socket took its epoch and fence the live one
  (`direct-ws.server.ts:1385`).
* A phone that reconnects while it works can no longer finish its shadow job: the result is
  rejected as stale, although `docs/stories/PNQ-003-controlled-rollback-and-queue-v2.md:61`
  lets a legitimate result reconcile its execution from an old epoch. The sweep's timeout
  does release the slot, against line 60 there.
* `queue_deadline_at` is never enforced on a waiting job (section 4).
* The repair of an ended workflow's blocked root asks that the workflow's own operation
  carry the root's generation; it is registered with generation 0 and never raised, so the
  root keeps the device after a restart (`device-execution-arbiter.ts:3266`).
* A workflow that ends before its first send leaves its root queued: no automatic
  transition leads from there to an outcome, and the refusal is ignored.
* A child that answers before its send is recorded meets two matching transitions, and
  the exception discards its answer (`device-execution-arbiter.ts:2316`; the test at
  `device-execution-arbiter.test.ts:1156` expects the early answer to be taken).
* A workflow whose admission is queued behind another root leaves its row queued and yet
  goes on to its steps (`workflow.executor.ts:816`).
* Two pumps can send one generated workflow's START twice (`transport.ts:458`): a root
  that is dispatching counts as ready.
* The phone's first status can overtake the dispatcher's `markRunning`, whose caller then
  fails the task of a workflow that runs (`generated-workflow-execution.service.ts:233`).
* After a watchdog has failed a workflow and released its root, the phone's late verdict
  is refused by the arbiter and dropped (`direct-ws.server.ts:1728`).
* A candidate submitted by an agent whose job cannot move any more leaves its versions
  behind, and the same candidate cannot be submitted again
  (`segment-build-job.service.ts:1367`).
* A build job whose hook call died with the process is dispatched without a lease, and
  nothing dispatches it again (`segment-build-job.service.ts:877`). One failing hook call
  ends the lease sweep's batch (line 885).
* `executeTaskNow` awaits the account between its look at the device lock and taking it, so an execution
  of a poll cycle and one by hand can be on a phone at once (`task-runner.service.ts:1743`, where line 10
  promises one task per device); the exemption in `OneTaskPerDevice` is exactly that.
* A failure of `executeTaskNow` leaves `retry_count` as it was: a generated workflow that failed this
  way is picked up again by the next cycles, though it must not be re-run (`task-runner.service.ts:1275`).
  An exception in it leaves the row running, and nothing ends it.
* A task that was running when the server stopped stays running: no repair at startup reads `tasks`.
* One pass of the watchdog or one startup may end several roots of a phone, those that wait and the
  one in the slot. The lane without `Repair` is therefore not implemented by the arbiter as soon as
  there are two workflows; with the one workflow of `arbiter_safety` nothing shows it, the proof did.
* The poll's LIMIT counts rows of phones that are off line: enough tasks of such a phone fill every batch, and
  the tasks of all others wait until it comes back (`task-runner.service.ts:1150`). `QueuedTaskStarts` therefore
  speaks of connected phones.
* Of two executions of one task that share the phone this way, the first to throw fails, in its `catch`, the
  row the other one has started.
* `transitionTaskManually` reads the status without a lock (`task-lifecycle.service.ts:187`): a manual move
  that waits for a concurrent result overwrites it.

---

## 7. What is not modelled

*In the arbiter*: the observe-only paths (`observeDispatch`, `runObservedEgress` outside
generated workflows), `markCorruptQueueHead`, `claimNextRoot` and
`cancelQueuedServerWorkflowRoot` (no production caller), rejections for a wrong device, the
legacy allowance for results without a handle.

*In the executor*: steps, checkpoints, step retries and the DAG. They decide when a
child is sent, which the model allows at any time while the run is in its steps.

*In the shadow*: payload redaction and the feature switch, which change no state that
matters here.

*In generated workflows*: the validation of templates and variables, the content of
checkpoints, several phones, the generations of edge roots (they only grow when a
queued root is sent, and nothing holds a handle before that).

*In run admission*: which fields make up the identity, the hash and the scope of a
request; several safety classes; the operator's approval beyond being granted or not.

*In the segment builder*: configuration and bootstrap routes, the agent's tokens, the
checks of a candidate's content, the rollback of a promoted version, `fail` with
`blocked` (it asks for a non-terminal manual state while `reconcileBlockedForRetry` asks
for a terminal one; the tests' lifecycle has no state of the first kind). A second handler
of `/canary` or of the job's read at the same time as a first is left out.

*In the task runner*: `stopTaskRunner`, the routines' handlers with their self-healing attempts, repairs,
incidents, agency runs (section 1.2's other modules have them), task rows created while the runner is at work,
tasks scheduled for later, the unlocked read of `transitionTaskManually`.

*Locks*: a transaction is atomic because of the lock it holds. Two lock orders that
could wait on each other (results lock node then job, the sweep holds a job and needs
the node for its audit row) are resolved by PostgreSQL with an aborted transaction,
which the model sees as a call that did not happen.

*The rest of the server*: listed with reasons in `PROJECT.json`, section 1.3 in short.

---

## 8. Plan

Done: `Lifecycle`, `PhoneLane`, `QueueV2` with its refinement, `PnqShadow` over it,
`DeviceArbiter` with its refinement and repairs, `EdgeWorkflow` with the queue pump,
`RunAdmission`, `SegmentBuild` and `TaskRunner` (with the task lifecycle), and the proofs of all their
safety properties and of all refinements.

Next, in this order:

1. *Incidents*: exhausted tasks, and incidents superseded by later successes, over `TaskRunner`.
2. *Dispatcher*: the jobs row's lifecycle, `JOB_STARTED`, cancellation in two
   transactions, expiry of queued jobs.
3. *Registry of the WebSocket servers*: `/ws` and `/ws-direct` share devices; closes of
   replaced sockets; pending maps; composed with the arbiter's `WaiterLost`.
4. *Leases of compile jobs*, with an abstract lease for them and for segment builds.
5. *Compare-and-swap configuration*: model credentials; canary roll-outs.
6. *Locks*: a module at the level of row locks for the order of node and job.
