------------------------------ MODULE TaskRunner ------------------------------
(***************************************************************************)
(* The task runner: poll cycles that overlap, the executions they start,    *)
(* executeTaskNow beside them, the per-device locks and gaps it keeps in     *)
(* memory, and the operations on the tasks table (task-lifecycle).           *)
(*                                                                         *)
(* One execution is one call of executeTask or executeTaskNow.  Its phases   *)
(* are the awaits at which the others get in between.  What a task does to a  *)
(* phone is EdgeWorkflow's and RunAdmission's matter; here it is one phase    *)
(* that ends in success, failure or an exception.                            *)
(***************************************************************************)
EXTENDS Integers, FiniteSets

CONSTANTS
    Tasks, Devices, DeviceOf,   \* the rows of tasks and their device_id
    AccountTasks,  \* tasks with an account_id: executeTaskNow queries the account
    NoRetry,       \* generated_workflow tasks, and those with disableTaskRetry
    ScheduledTime, SortOrder,   \* of a task; of a status
    Statuses, StateDefinitions, Transitions,   \* the lifecycle of tasks
    Polls,         \* poll cycles in flight: the interval's and pollTaskRunnerNow's
    Slots,         \* bound: executions of one task at the same time
    BatchSize, MaxRetries,      \* TaskRunnerConfig
    NULL

L == INSTANCE Lifecycle

ASSUME TaskAssumption ==
    /\ L!LifecycleAssumption
    /\ DeviceOf \in [Tasks -> Devices]
    /\ MaxRetries \in Nat

VARIABLES
    tasks,      \* rows of tasks: status and retry_count
    attempts,   \* history: starts by the poll since the row was last requeued
    execs,      \* execs[t][s]: the executions of task t
    polls,      \* polls[p]: the rows a cycle may launch, with the retry_count read
    locks,      \* deviceLocks
    resting,    \* devices whose minimum gap since deviceLastTaskTime has not passed
    raced,      \* history: devices whose lock an executeTaskNow took from another execution
    online      \* devices with a connection

memory == <<execs, polls, locks, resting>>
history == <<attempts, raced>>
vars == <<tasks, history, memory, online>>

Task == [status : Statuses, retry : Nat]
Phases == {"idle", "account", "starting", "working", "tail", "leaving"}
Exec == [phase : Phases, auto : BOOLEAN, retry : Nat]
Poll == [Tasks -> Nat \cup {NULL}]

Idle == [phase |-> "idle", auto |-> FALSE, retry |-> 0]
NoPoll == [t \in Tasks |-> NULL]

Flags(s) == StateDefinitions[s]
\* Every task is due: its scheduled_time only orders it.
Runnable(t) == Flags(tasks[t].status).dispatchable
Retryable(t) == Flags(tasks[t].status).retryable /\ tasks[t].retry < MaxRetries

\* transitionTask: the row moves when the transitions that fit differ in nothing but
\* their action (SELECT DISTINCT), else nothing is written.
Effect(e) == <<e.to_status, e.mark_started, e.mark_completed, e.clear_completed,
               e.clear_failure, e.reset_retry>>
TargetsOf(target, edge) ==
    [s \in Statuses |->
        IF \A e, f \in L!MatchingTransitions(s, target, edge) : Effect(e) = Effect(f)
        THEN L!TransitionTarget(s, target, edge) ELSE NULL]
Start == TargetsOf([terminal |-> FALSE, administrative |-> FALSE, dispatchable |-> FALSE],
                   [mark_started |-> TRUE, mark_completed |-> FALSE])
Success == TargetsOf([terminal |-> TRUE, retryable |-> FALSE, administrative |-> FALSE],
                     [mark_completed |-> TRUE, clear_failure |-> TRUE])
Failure == TargetsOf([terminal |-> TRUE, retryable |-> TRUE, administrative |-> FALSE],
                     [mark_completed |-> TRUE, clear_failure |-> FALSE])
Requeue == TargetsOf([initial |-> TRUE, dispatchable |-> TRUE],
                     [reset_retry |-> TRUE, clear_completed |-> TRUE, clear_failure |-> TRUE])
Close == TargetsOf([terminal |-> TRUE, administrative |-> TRUE], [manual_allowed |-> TRUE])
ByHand(s) == L!MatchingTransitions(s, [manual |-> TRUE], [manual_allowed |-> TRUE])
CanMove(t, move) == move[tasks[t].status] # NULL
Target(t, move) == move[tasks[t].status]

\* What the retry budget asks of the lifecycle: a task starts out of a status the poll
\* offers it in and into one it does not; only a start, a requeue and a close lead out of
\* those, only a failure into a retryable and only a requeue into a dispatchable one, and no
\* other transition resets retry_count.
Offered(s) == Flags(s).dispatchable \/ Flags(s).retryable
ASSUME RetryLifecycleAssumption ==
    /\ MaxRetries > 0
    /\ \A s \in Statuses :
          /\ Start[s] # NULL => Offered(s) /\ ~Offered(Start[s])
          /\ Success[s] # NULL => ~Offered(Success[s])
          /\ Failure[s] # NULL => ~Offered(s) /\ ~Flags(Failure[s]).dispatchable
          /\ Close[s] # NULL => ~Offered(Close[s])
          /\ \A e \in ByHand(s) : ~Offered(e.to_status)
    /\ \A e \in Transitions : e.reset_retry => Flags(e.to_status).dispatchable

Init ==
    /\ \E s \in Statuses :
          /\ Flags(s).initial
          /\ tasks = [t \in Tasks |-> [status |-> s, retry |-> 0]]
    /\ attempts = [t \in Tasks |-> 0]
    /\ execs = [t \in Tasks |-> [s \in Slots |-> Idle]]
    /\ polls = [p \in Polls |-> NoPoll]
    /\ locks = [d \in Devices |-> FALSE]
    /\ resting = {} /\ raced = {}
    /\ online = Devices

-----------------------------------------------------------------------------
(* Poll cycles *)

\* ORDER BY status_def.sort_order, tasks.scheduled_time; ties come in any order.
Before(t, u) ==
    LET order(v) == SortOrder[tasks[v].status]
    IN  \/ order(t) < order(u)
        \/ order(t) = order(u) /\ ScheduledTime[t] < ScheduledTime[u]
FirstOf(rows, chosen) == \A t \in chosen, u \in rows \ chosen : ~Before(u, t)

\* What a LIMIT keeps of the rows found.
Batches(found) ==
    {batch \in SUBSET found : /\ FirstOf(found, batch)
                             /\ \/ Cardinality(batch) = BatchSize
                                \/ batch = found /\ Cardinality(batch) < BatchSize}

\* The loop launches at most the first row of each device: it locks the device for the
\* others, and a reason to skip it is a reason to skip them.
OfDevice(rows, d) == {t \in rows : DeviceOf[t] = d}
Heads(batch) ==
    {heads \in SUBSET batch : \A d \in Devices :
        LET rows == OfDevice(batch, d)
            head == OfDevice(heads, d)
        IN  /\ FirstOf(rows, head)
            /\ rows # {} => \E t \in rows : head = {t}}

\* The query of runPollCycle: dispatchable rows, and retryable ones whose back-off has passed.
PollReads(p) ==
    /\ polls[p] = NoPoll
    /\ \E waited \in SUBSET {t \in Tasks : Retryable(t)} :
       \E batch \in Batches(waited \cup {t \in Tasks : Runnable(t)}) :
       \E heads \in Heads(batch) :
          /\ batch # {}
          /\ polls' = [polls EXCEPT ![p] =
                [t \in Tasks |-> IF t \in heads THEN tasks[t].retry ELSE NULL]]
    /\ UNCHANGED <<tasks, history, execs, locks, resting, online>>

\* The loop skips a device that is locked, resting or offline.
Open_LockIgnored(d) == d \notin resting /\ d \in online
Open(d) == ~locks[d] /\ d \notin resting /\ d \in online
Launched(p) == {t \in Tasks : polls[p][t] # NULL /\ Open(DeviceOf[t])}

Free(t) == {s \in Slots : execs[t][s] = Idle}
FirstFree(t) == CHOOSE s \in Free(t) : TRUE

PollLaunches(p) ==
    /\ polls[p] # NoPoll
    /\ \A t \in Launched(p) : Free(t) # {}
    /\ execs' = [t \in Tasks |->
          IF t \in Launched(p)
          THEN [execs[t] EXCEPT ![FirstFree(t)] =
                  [phase |-> "starting", auto |-> TRUE, retry |-> polls[p][t]]]
          ELSE execs[t]]
    /\ locks' = [d \in Devices |-> locks[d] \/ \E t \in Launched(p) : DeviceOf[t] = d]
    /\ polls' = [polls EXCEPT ![p] = NoPoll]
    /\ UNCHANGED <<tasks, history, resting, online>>

-----------------------------------------------------------------------------
(* executeTaskNow up to its try block *)

\* The checks; without an account no await lies between them and the lock.
NowChecks(t) ==
    /\ ~locks[DeviceOf[t]] /\ DeviceOf[t] \in online
    /\ \E s \in Free(t) :
          execs' = [execs EXCEPT ![t][s].phase = IF t \in AccountTasks THEN "account"
                                                 ELSE "starting"]
    /\ locks' = IF t \in AccountTasks THEN locks ELSE [locks EXCEPT ![DeviceOf[t]] = TRUE]
    /\ UNCHANGED <<tasks, history, polls, resting, online>>

NowLocks(t, s) ==
    /\ execs[t][s].phase = "account"
    /\ execs' = [execs EXCEPT ![t][s].phase = "starting"]
    /\ locks' = [locks EXCEPT ![DeviceOf[t]] = TRUE]
    /\ raced' = IF locks[DeviceOf[t]] THEN raced \cup {DeviceOf[t]} ELSE raced
    /\ UNCHANGED <<tasks, attempts, polls, resting, online>>

\* The query is ahead of the try block: its failure leaves lock and gap alone.
AccountQueryFails(t, s) ==
    /\ execs[t][s].phase = "account"
    /\ execs' = [execs EXCEPT ![t][s] = Idle]
    /\ UNCHANGED <<tasks, history, polls, locks, resting, online>>

-----------------------------------------------------------------------------
(* The body both share *)

GoesOn(t, s, from, to) ==
    /\ execs[t][s].phase \in from
    /\ execs' = [execs EXCEPT ![t][s].phase = to]

StartsRow(t, s) ==
    /\ CanMove(t, Start)
    /\ GoesOn(t, s, {"starting"}, "working")
    /\ tasks' = [tasks EXCEPT ![t].status = Target(t, Start)]
    /\ attempts' = IF execs[t][s].auto THEN [attempts EXCEPT ![t] = @ + 1] ELSE attempts
    /\ UNCHANGED <<raced, polls, locks, resting, online>>

StartRefused(t, s) ==
    /\ ~CanMove(t, Start)
    /\ GoesOn(t, s, {"starting"}, "leaving")
    /\ UNCHANGED <<tasks, history, polls, locks, resting, online>>

\* The retry_count an execution writes with a failure: from the row the poll had read,
\* and none at all when executeTaskNow fails.
NextRetry_AnyTask(t, s) ==
    IF execs[t][s].auto THEN execs[t][s].retry + 1 ELSE tasks[t].retry
NextRetry(t, s) ==
    IF ~execs[t][s].auto THEN tasks[t].retry
    ELSE IF t \in NoRetry THEN MaxRetries
    ELSE execs[t][s].retry + 1

RecordsSuccess(t) ==
    tasks' = IF CanMove(t, Success)
             THEN [tasks EXCEPT ![t].status = Target(t, Success)]
             ELSE tasks
RecordsFailure(t, s) ==
    tasks' = IF CanMove(t, Failure)
             THEN [tasks EXCEPT ![t] = [status |-> Target(t, Failure),
                                        retry |-> NextRetry(t, s)]]
             ELSE tasks

\* The result of the work is recorded; the tail (agency run, learning, log, incident) follows.
Succeeds(t, s) ==
    /\ GoesOn(t, s, {"working"}, "tail")
    /\ RecordsSuccess(t)
    /\ UNCHANGED <<history, polls, locks, resting, online>>

Fails(t, s) ==
    /\ GoesOn(t, s, {"working"}, "tail")
    /\ RecordsFailure(t, s)
    /\ UNCHANGED <<history, polls, locks, resting, online>>

\* Anything between the lock and the end throws.  executeTask's catch fails the row, whoever
\* runs it by then, unless its own update throws too; executeTaskNow's leaves the row as it is.
Throws(t, s) ==
    /\ GoesOn(t, s, {"starting", "working", "tail"}, "leaving")
    /\ \/ execs[t][s].auto /\ RecordsFailure(t, s)
       \/ UNCHANGED tasks
    /\ UNCHANGED <<history, polls, locks, resting, online>>

\* The finally block.  A query answers within the minimum gap: a cycle that has read by now
\* finds the device at rest.
Leaves_KeepsLock(t, s) ==
    /\ execs[t][s].phase \in {"tail", "leaving"}
    /\ execs' = [execs EXCEPT ![t][s] = Idle]
    /\ resting' = resting \cup {DeviceOf[t]}
    /\ UNCHANGED <<tasks, history, polls, locks, online>>
Leaves(t, s) ==
    LET d == DeviceOf[t] IN
    /\ execs[t][s].phase \in {"tail", "leaving"}
    /\ execs' = [execs EXCEPT ![t][s] = Idle]
    /\ locks' = [locks EXCEPT ![d] = FALSE]
    /\ resting' = resting \cup {d}
    /\ polls' = [p \in Polls |->
                   [u \in Tasks |-> IF DeviceOf[u] = d THEN NULL ELSE polls[p][u]]]
    /\ UNCHANGED <<tasks, history, online>>

-----------------------------------------------------------------------------
(* The tasks table's other writers, and the world *)

\* PATCH /tasks/:id (transitionTaskManually), or the administrative close of a run.
CloseTask(t) ==
    /\ \/ \E e \in ByHand(tasks[t].status) :
             tasks' = [tasks EXCEPT ![t].status = e.to_status]
       \/ /\ CanMove(t, Close)
          /\ tasks' = [tasks EXCEPT ![t].status = Target(t, Close)]
    /\ UNCHANGED <<history, memory, online>>

\* retryConfiguredTasks skips rows another transaction has locked.
RetryFailedTasks ==
    /\ \E found \in SUBSET {t \in Tasks : /\ Flags(tasks[t].status).retryable
                                          /\ CanMove(t, Requeue)} :
          /\ tasks' = [t \in Tasks |->
                IF t \in found THEN [status |-> Target(t, Requeue), retry |-> 0]
                ELSE tasks[t]]
          /\ attempts' = [t \in Tasks |-> IF t \in found THEN 0 ELSE attempts[t]]
    /\ UNCHANGED <<raced, memory, online>>

GapPasses(d) ==
    /\ d \in resting
    /\ resting' = resting \ {d}
    /\ UNCHANGED <<tasks, history, execs, polls, locks, online>>

Connects(d) ==
    /\ online' = IF d \in online THEN online \ {d} ELSE online \cup {d}
    /\ UNCHANGED <<tasks, history, memory>>

Crash ==
    /\ execs' = [t \in Tasks |-> [s \in Slots |-> Idle]]
    /\ polls' = [p \in Polls |-> NoPoll]
    /\ locks' = [d \in Devices |-> FALSE]
    /\ resting' = {}
    /\ UNCHANGED <<tasks, history, online>>

ExecStep(t, s) ==
    \/ NowLocks(t, s) \/ AccountQueryFails(t, s) \/ StartsRow(t, s) \/ StartRefused(t, s)
    \/ Succeeds(t, s) \/ Fails(t, s) \/ Throws(t, s) \/ Leaves(t, s)

Next ==
    \/ \E p \in Polls : PollReads(p) \/ PollLaunches(p)
    \/ \E t \in Tasks : NowChecks(t) \/ CloseTask(t)
    \/ \E t \in Tasks, s \in Slots : ExecStep(t, s)
    \/ RetryFailedTasks
    \/ \E d \in Devices : GapPasses(d) \/ Connects(d)
    \/ Crash

Spec == Init /\ [][Next]_vars

\* The interval keeps polling, a query is answered, an execution ends, time passes; a start
\* that is tried again and again is not always met by a failing database.
Fairness ==
    /\ \A p \in Polls : WF_vars(PollReads(p)) /\ WF_vars(PollLaunches(p))
    /\ \A t \in Tasks, s \in Slots : WF_vars(ExecStep(t, s)) /\ SF_vars(StartsRow(t, s))
    /\ \A d \in Devices : WF_vars(GapPasses(d))
FairSpec == Spec /\ Fairness

-----------------------------------------------------------------------------
(* Properties *)

TypeOK ==
    /\ tasks \in [Tasks -> Task]
    /\ attempts \in [Tasks -> Nat]
    /\ execs \in [Tasks -> [Slots -> Exec]]
    /\ polls \in [Polls -> Poll]
    /\ locks \in [Devices -> BOOLEAN] /\ raced \subseteq Devices
    /\ resting \subseteq Devices /\ online \subseteq Devices

AtWork(t, s) == execs[t][s].phase \notin {"idle", "account"}

\* "Device lock (1 task per device simultan)": of the executions poll cycles and
\* executeTaskNow start, one at a time is between its lock and its finally on a device, as
\* long as executeTaskNow has no account to query between its check and its lock.
OneTaskPerDevice ==
    \A t, u \in Tasks, s, r \in Slots :
        /\ AtWork(t, s) /\ AtWork(u, r)
        /\ DeviceOf[t] = DeviceOf[u] /\ DeviceOf[t] \notin raced
        => t = u /\ s = r

\* Between two requeues the poll starts a task at most maxRetries times, and once if the
\* task must not be retried, whatever rows its cycles had read, whoever executed the task
\* besides and wherever the server restarted.
RetryBudget ==
    \A t \in Tasks : DeviceOf[t] \notin raced =>
        attempts[t] <= IF t \in NoRetry THEN 1 ELSE MaxRetries

\* Once every phone stays connected, the server stays up and nobody calls executeTaskNow
\* or retryFailedTasks any more, no queued task waits for ever behind the executions,
\* retries, gaps and refused starts of others.
Disturbs == Crash \/ RetryFailedTasks \/ \E t \in Tasks : NowChecks(t)
QueuedTaskStarts ==
    <>[](online = Devices) /\ <>[][~Disturbs]_vars =>
        \A t \in Tasks : [](Runnable(t) => <>~Runnable(t))
==============================================================================
