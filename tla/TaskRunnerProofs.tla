--------------------------- MODULE TaskRunnerProofs ---------------------------
(***************************************************************************)
(* Proofs about TaskRunner, for every set of tasks, devices, poll cycles and *)
(* parallel executions, every configuration and every task lifecycle.        *)
(*                                                                         *)
(* The lock of a device is a map entry that anybody may clear, so "one task  *)
(* per device" needs two facts beside it: an execution at work on a device   *)
(* no race has touched holds the lock (HoldsLock), and a poll cycle carries   *)
(* at most one row of a device (OneHead).                                    *)
(***************************************************************************)
EXTENDS TaskRunner, TLAPS

-----------------------------------------------------------------------------
(* What transitionTask writes. *)

LEMMA TargetIsStatus ==
    ASSUME NEW target, NEW edge, NEW s \in Statuses, TargetsOf(target, edge)[s] # NULL
    PROVE  TargetsOf(target, edge)[s] \in Statuses
<1> DEFINE matching == L!MatchingTransitions(s, target, edge)
<1>1. TargetsOf(target, edge)[s] = L!TransitionTarget(s, target, edge)
  BY DEF TargetsOf
<1>2. matching # {}
  BY <1>1 DEF L!TransitionTarget
<1>3. L!TransitionTarget(s, target, edge) = (CHOOSE t \in matching : TRUE).to_status
  BY <1>2 DEF L!TransitionTarget
<1>4. \A t \in matching : t.to_status \in Statuses
  BY TaskAssumption DEF L!LifecycleAssumption, L!MatchingTransitions, L!TransitionRow
<1>5. (CHOOSE t \in matching : TRUE) \in matching
  BY <1>2
<1> QED BY <1>1, <1>3, <1>4, <1>5

LEMMA MovesToStatus ==
    ASSUME TypeOK, NEW t \in Tasks
    PROVE  /\ CanMove(t, Start) => Target(t, Start) \in Statuses
           /\ CanMove(t, Success) => Target(t, Success) \in Statuses
           /\ CanMove(t, Failure) => Target(t, Failure) \in Statuses
           /\ CanMove(t, Requeue) => Target(t, Requeue) \in Statuses
           /\ CanMove(t, Close) => Target(t, Close) \in Statuses
<1>1. tasks[t].status \in Statuses
  BY DEF TypeOK, Task
<1> QED
  BY <1>1, TargetIsStatus, Zenon DEF CanMove, Target, Start, Success, Failure, Requeue, Close

LEMMA IdleIsTyped == Idle \in Exec /\ NoPoll \in Poll
  BY DEF Idle, Exec, Phases, NoPoll, Poll

\* Moving one execution to another phase keeps the executions typed ...
LEMMA PhaseIsTyped ==
    ASSUME TypeOK, NEW t \in Tasks, NEW s \in Slots, NEW to \in Phases
    PROVE  [execs EXCEPT ![t][s].phase = to] \in [Tasks -> [Slots -> Exec]]
<1>1. execs[t][s] \in Exec
  BY DEF TypeOK
<1>2. [execs[t][s] EXCEPT !.phase = to] \in Exec
  BY <1>1 DEF Exec
<1> QED BY <1>2 DEF TypeOK

LEMMA GoesOnIsTyped ==
    ASSUME TypeOK, NEW t \in Tasks, NEW s \in Slots, NEW from, NEW to \in Phases,
           GoesOn(t, s, from, to)
    PROVE  execs' \in [Tasks -> [Slots -> Exec]]
  BY PhaseIsTyped DEF GoesOn

\* ... and touches that execution only.
PhaseGoes(t, s, to) == execs' = [execs EXCEPT ![t][s].phase = to]

LEMMA PhaseMoves ==
    ASSUME TypeOK, NEW t \in Tasks, NEW s \in Slots, NEW to, PhaseGoes(t, s, to)
    PROVE  /\ execs'[t][s].phase = to
           /\ \A u \in Tasks, r \in Slots :
                 u # t \/ r # s => execs'[u][r] = execs[u][r]
<1>1. execs[t][s] \in Exec
  BY DEF TypeOK
<1>2. [execs[t][s] EXCEPT !.phase = to].phase = to
  BY <1>1 DEF Exec
<1> QED BY <1>2 DEF TypeOK, PhaseGoes

LEMMA PhaseKeepsRest ==
    ASSUME TypeOK, NEW t \in Tasks, NEW s \in Slots, NEW to, PhaseGoes(t, s, to)
    PROVE  execs'[t][s].auto = execs[t][s].auto /\ execs'[t][s].retry = execs[t][s].retry
<1>1. execs[t][s] \in Exec
  BY DEF TypeOK
<1>2. /\ [execs[t][s] EXCEPT !.phase = to].auto = execs[t][s].auto
      /\ [execs[t][s] EXCEPT !.phase = to].retry = execs[t][s].retry
  BY <1>1 DEF Exec
<1> QED BY <1>2 DEF TypeOK, PhaseGoes

LEMMA NextRetryIsTyped ==
    ASSUME TypeOK, NEW t \in Tasks, NEW s \in Slots
    PROVE  NextRetry(t, s) \in Nat
  BY TaskAssumption DEF TypeOK, NextRetry, Exec, Task

LEMMA FailureIsTyped ==
    ASSUME TypeOK, NEW t \in Tasks, NEW s \in Slots, RecordsFailure(t, s)
    PROVE  tasks' \in [Tasks -> Task]
  BY NextRetryIsTyped, MovesToStatus DEF TypeOK, RecordsFailure, Task

\* The phase executeTaskNow enters after its checks.
AfterChecks(t) == IF t \in AccountTasks THEN "account" ELSE "starting"

LEMMA ChecksEnterOne ==
    ASSUME NEW t \in Tasks, NowChecks(t)
    PROVE  /\ AfterChecks(t) \in Phases
           /\ \E s \in Slots : PhaseGoes(t, s, AfterChecks(t)) /\ execs[t][s] = Idle
<1>1. PICK s \in Slots : PhaseGoes(t, s, AfterChecks(t)) /\ execs[t][s] = Idle
  BY DEF NowChecks, Free, AfterChecks, PhaseGoes
<1> QED BY <1>1 DEF AfterChecks, Phases

-----------------------------------------------------------------------------
(* Types *)

LEMMA InitIsTyped ==
    ASSUME Init PROVE TypeOK
  BY IdleIsTyped DEF Init, TypeOK, Task

LEMMA PollsAreTyped ==
    ASSUME TypeOK, NEW p \in Polls, PollReads(p) \/ PollLaunches(p)
    PROVE  TypeOK'
<1>1. CASE PollReads(p)
  <2>1. polls' \in [Polls -> Poll]
    BY <1>1 DEF PollReads, TypeOK, Poll, Task
  <2> QED BY <1>1, <2>1 DEF PollReads, TypeOK, history
<1>2. CASE PollLaunches(p)
  <2>1. polls' \in [Polls -> Poll]
    BY <1>2, IdleIsTyped DEF PollLaunches, TypeOK
  <2>2. locks' \in [Devices -> BOOLEAN]
    BY <1>2 DEF PollLaunches, TypeOK
  <2>3. execs' \in [Tasks -> [Slots -> Exec]]
    <3>1. \A t \in Launched(p) : polls[p][t] \in Nat
      BY DEF TypeOK, Poll, Launched
    <3>2. \A t \in Launched(p) :
             [phase |-> "starting", auto |-> TRUE, retry |-> polls[p][t]] \in Exec
      BY <3>1 DEF Exec, Phases
    <3>3. ASSUME NEW t \in Tasks PROVE execs'[t] \in [Slots -> Exec]
      BY <1>2, <3>2 DEF PollLaunches, TypeOK
    <3>4. execs' = [t \in Tasks |-> execs'[t]]
      BY <1>2 DEF PollLaunches
    <3> QED BY <3>3, <3>4
  <2> QED BY <1>2, <2>1, <2>2, <2>3 DEF PollLaunches, TypeOK, history
<1> QED BY <1>1, <1>2

LEMMA ExecStepIsTyped ==
    ASSUME TypeOK, NEW t \in Tasks, NEW s \in Slots, ExecStep(t, s)
    PROVE  TypeOK'
<1>0. DeviceOf[t] \in Devices
  BY TaskAssumption
<1>1. CASE NowLocks(t, s)
  <2>1. GoesOn(t, s, {"account"}, "starting")
    BY <1>1 DEF NowLocks, GoesOn
  <2>2. execs' \in [Tasks -> [Slots -> Exec]]
    BY <2>1, GoesOnIsTyped DEF Phases
  <2> QED BY <1>0, <1>1, <2>2 DEF NowLocks, TypeOK
<1>2. CASE AccountQueryFails(t, s)
  BY <1>2, IdleIsTyped DEF AccountQueryFails, TypeOK, history
<1>3. CASE StartsRow(t, s)
  <2>1. execs' \in [Tasks -> [Slots -> Exec]]
    BY <1>3, GoesOnIsTyped DEF StartsRow, Phases
  <2>2. tasks' \in [Tasks -> Task] /\ attempts' \in [Tasks -> Nat]
    BY <1>3, MovesToStatus DEF StartsRow, TypeOK, Task
  <2> QED BY <1>3, <2>1, <2>2 DEF StartsRow, TypeOK
<1>4. CASE StartRefused(t, s)
  BY <1>4, GoesOnIsTyped DEF StartRefused, TypeOK, Phases, history
<1>5. CASE Succeeds(t, s)
  <2>1. tasks' \in [Tasks -> Task]
    BY <1>5, MovesToStatus DEF Succeeds, RecordsSuccess, TypeOK, Task
  <2> QED BY <1>5, <2>1, GoesOnIsTyped DEF Succeeds, TypeOK, Phases, history
<1>6. CASE Fails(t, s)
  BY <1>6, FailureIsTyped, GoesOnIsTyped DEF Fails, TypeOK, Phases, history
<1>7. CASE Throws(t, s)
  <2>1. tasks' \in [Tasks -> Task]
    BY <1>7, FailureIsTyped DEF Throws, TypeOK
  <2> QED BY <1>7, <2>1, GoesOnIsTyped DEF Throws, TypeOK, Phases, history
<1>8. CASE Leaves(t, s)
  <2>1. execs' \in [Tasks -> [Slots -> Exec]]
    BY <1>8, IdleIsTyped DEF Leaves, TypeOK
  <2>2. polls' \in [Polls -> Poll]
    BY <1>8 DEF Leaves, TypeOK, Poll
  <2> QED BY <1>0, <1>8, <2>1, <2>2 DEF Leaves, TypeOK, history
<1> QED BY <1>1, <1>2, <1>3, <1>4, <1>5, <1>6, <1>7, <1>8 DEF ExecStep

LEMMA WorldIsTyped ==
    ASSUME TypeOK,
           \/ \E t \in Tasks : NowChecks(t) \/ CloseTask(t)
           \/ RetryFailedTasks
           \/ \E d \in Devices : GapPasses(d) \/ Connects(d)
           \/ Crash
    PROVE  TypeOK'
<1>1. ASSUME NEW t \in Tasks, NowChecks(t) PROVE TypeOK'
  <2>1. execs' \in [Tasks -> [Slots -> Exec]]
    <3>1. PICK s \in Slots : execs' = [execs EXCEPT ![t][s].phase = AfterChecks(t)]
      BY <1>1, ChecksEnterOne DEF PhaseGoes
    <3>2. [execs EXCEPT ![t][s].phase = AfterChecks(t)] \in [Tasks -> [Slots -> Exec]]
      BY <1>1, ChecksEnterOne, PhaseIsTyped
    <3> QED BY <3>1, <3>2
  <2> QED BY <1>1, <2>1, TaskAssumption DEF NowChecks, TypeOK, history
<1>2. ASSUME NEW t \in Tasks, CloseTask(t) PROVE TypeOK'
  <2>1. \A e \in ByHand(tasks[t].status) : e.to_status \in Statuses
    BY TaskAssumption DEF ByHand, L!LifecycleAssumption, L!MatchingTransitions, L!TransitionRow
  <2>2. tasks' \in [Tasks -> Task]
    BY <1>2, <2>1, MovesToStatus, ZenonT(30) DEF CloseTask, TypeOK, Task
  <2> QED BY <1>2, <2>2 DEF CloseTask, TypeOK, history, memory
<1>3. CASE RetryFailedTasks
  <2>1. tasks' \in [Tasks -> Task] /\ attempts' \in [Tasks -> Nat]
    BY <1>3, MovesToStatus DEF RetryFailedTasks, TypeOK, Task
  <2> QED BY <1>3, <2>1 DEF RetryFailedTasks, TypeOK, memory
<1>4. ASSUME NEW d \in Devices, GapPasses(d) \/ Connects(d) PROVE TypeOK'
  BY <1>4 DEF GapPasses, Connects, TypeOK, history, memory
<1>5. CASE Crash
  BY <1>5, IdleIsTyped DEF Crash, TypeOK, history
<1> QED BY <1>1, <1>2, <1>3, <1>4, <1>5

LEMMA NextIsTyped ==
    ASSUME TypeOK, [Next]_vars PROVE TypeOK'
<1>1. CASE Next
  BY <1>1, PollsAreTyped, ExecStepIsTyped, WorldIsTyped DEF Next
<1>2. CASE UNCHANGED vars
  BY <1>2 DEF vars, history, memory, TypeOK
<1> QED BY <1>1, <1>2

\* The rows, the executions and the maps in memory keep their types through every poll,
\* execution, close, requeue and restart.
THEOREM TypeCorrect == Spec => []TypeOK
  BY InitIsTyped, NextIsTyped, PTL DEF Spec

-----------------------------------------------------------------------------
(* One task per device *)

\* Whoever is at work on a device holds its lock.
HoldsLock ==
    \A t \in Tasks, s \in Slots :
        AtWork(t, s) /\ DeviceOf[t] \notin raced => locks[DeviceOf[t]]

\* A poll cycle launches at most one task of a device.
OneHead ==
    \A p \in Polls, t, u \in Tasks :
        polls[p][t] # NULL /\ polls[p][u] # NULL /\ DeviceOf[t] = DeviceOf[u] => t = u

LockInv == HoldsLock /\ OneHead /\ OneTaskPerDevice

\* A step that takes no lock, ends no execution and starts none.
LEMMA NobodyComesOrGoes ==
    ASSUME LockInv, UNCHANGED <<locks, polls, raced>>,
           \A t \in Tasks, s \in Slots : AtWork(t, s)' => AtWork(t, s)
    PROVE  LockInv'
<1>1. HoldsLock' BY DEF LockInv, HoldsLock
<1>2. OneHead' BY DEF LockInv, OneHead
<1>3. OneTaskPerDevice' BY DEF LockInv, OneTaskPerDevice
<1> QED BY <1>1, <1>2, <1>3 DEF LockInv

\* An execution that is at work already moves on.
LEMMA MovesOn ==
    ASSUME TypeOK, LockInv, NEW t \in Tasks, NEW s \in Slots, NEW from, NEW to,
           GoesOn(t, s, from, to), UNCHANGED <<locks, polls, raced>>,
           "idle" \notin from, "account" \notin from
    PROVE  LockInv'
<1>1. AtWork(t, s)
  BY DEF GoesOn, AtWork
<1>2. \A u \in Tasks, r \in Slots : u # t \/ r # s => execs'[u][r] = execs[u][r]
  <2>1. PhaseGoes(t, s, to)
    BY DEF GoesOn, PhaseGoes
  <2> QED BY <2>1, PhaseMoves
<1>3. \A u \in Tasks, r \in Slots : AtWork(u, r)' => AtWork(u, r)
  BY <1>1, <1>2 DEF AtWork
<1> QED BY <1>3, NobodyComesOrGoes

\* One execution begins to work on a device whose lock nobody holds.
LEMMA Enters ==
    ASSUME TypeOK, LockInv, NEW t \in Tasks, NEW s \in Slots, UNCHANGED polls,
           raced \subseteq raced', DeviceOf[t] \notin raced' => ~locks[DeviceOf[t]],
           locks' = [locks EXCEPT ![DeviceOf[t]] = TRUE],
           \A u \in Tasks, r \in Slots : u # t \/ r # s => execs'[u][r] = execs[u][r]
    PROVE  LockInv'
<1>1. \A u \in Tasks, r \in Slots : u # t \/ r # s => (AtWork(u, r)' => AtWork(u, r))
  BY DEF AtWork
<1>2. HoldsLock'
  BY <1>1, TaskAssumption DEF LockInv, HoldsLock, TypeOK
<1>3. OneHead'
  BY DEF LockInv, OneHead
<1>4. \A u \in Tasks, r \in Slots :
        AtWork(u, r)' /\ DeviceOf[u] = DeviceOf[t] /\ DeviceOf[t] \notin raced'
        => u = t /\ r = s
  BY <1>1 DEF LockInv, HoldsLock
<1>5. OneTaskPerDevice'
  BY <1>1, <1>4 DEF LockInv, OneTaskPerDevice
<1> QED BY <1>2, <1>3, <1>5 DEF LockInv

LEMMA PollLocks ==
    ASSUME TypeOK, LockInv, NEW p \in Polls, PollReads(p) \/ PollLaunches(p)
    PROVE  LockInv'
<1>1. CASE PollReads(p)
  <2>0. PICK batch \in SUBSET Tasks : \E heads \in Heads(batch) :
           polls' = [polls EXCEPT ![p] =
                       [t \in Tasks |-> IF t \in heads THEN tasks[t].retry ELSE NULL]]
    BY <1>1 DEF PollReads, Batches
  <2>1. PICK heads \in Heads(batch) :
           polls' = [polls EXCEPT ![p] =
                       [t \in Tasks |-> IF t \in heads THEN tasks[t].retry ELSE NULL]]
    BY <2>0
  <2>2. ASSUME NEW t \in heads, NEW u \in heads, DeviceOf[t] = DeviceOf[u] PROVE t = u
    <3>1. t \in batch /\ t \in Tasks
      BY DEF Heads
    <3>2. PICK d \in Devices : d = DeviceOf[t]
      BY <3>1, TaskAssumption
    <3>3. t \in OfDevice(batch, d) /\ t \in OfDevice(heads, d) /\ u \in OfDevice(heads, d)
      BY <2>2, <3>1, <3>2 DEF OfDevice
    <3>4. \E v \in OfDevice(batch, d) : OfDevice(heads, d) = {v}
      BY <3>3 DEF Heads
    <3> QED BY <3>3, <3>4
  <2>3. \A t \in Tasks : polls'[p][t] # NULL => t \in heads
    BY <2>1 DEF TypeOK
  <2>4. \A q \in Polls : q # p => polls'[q] = polls[q]
    BY <2>1 DEF TypeOK
  <2>5. OneHead'
    BY <2>2, <2>3, <2>4 DEF LockInv, OneHead
  <2>6. HoldsLock' /\ OneTaskPerDevice'
    BY <1>1 DEF PollReads, history, LockInv, HoldsLock, OneTaskPerDevice, AtWork
  <2> QED BY <2>5, <2>6 DEF LockInv
<1>2. CASE PollLaunches(p)
  <2>1. \A t \in Launched(p) : /\ t \in Tasks /\ polls[p][t] # NULL
                               /\ FirstFree(t) \in Slots /\ ~locks[DeviceOf[t]]
    BY <1>2 DEF PollLaunches, Launched, Open, FirstFree, Free
  <2>2. \A t \in Tasks, s \in Slots :
          AtWork(t, s)' => AtWork(t, s) \/ (t \in Launched(p) /\ s = FirstFree(t))
    <3> SUFFICES ASSUME NEW t \in Tasks, NEW s \in Slots, AtWork(t, s)',
                        t \notin Launched(p) \/ s # FirstFree(t)
                 PROVE  AtWork(t, s)
      BY DEF AtWork
    <3>1. execs'[t][s] = execs[t][s]
      BY <1>2, <2>1 DEF PollLaunches, TypeOK
    <3> QED BY <3>1 DEF AtWork
  <2>3. HoldsLock'
    <3>1. \A t \in Tasks : /\ locks[DeviceOf[t]] => locks'[DeviceOf[t]]
                           /\ t \in Launched(p) => locks'[DeviceOf[t]]
      BY <1>2, TaskAssumption DEF PollLaunches, TypeOK
    <3>2. raced' = raced
      BY <1>2 DEF PollLaunches, history
    <3> QED BY <2>2, <3>1, <3>2 DEF LockInv, HoldsLock
  <2>4. OneHead'
    BY <1>2 DEF PollLaunches, LockInv, OneHead, TypeOK, NoPoll
  <2>5. OneTaskPerDevice'
    <3>1. \A t \in Tasks, s \in Slots, u \in Launched(p) :
            AtWork(t, s) /\ DeviceOf[t] = DeviceOf[u] => DeviceOf[t] \in raced
      BY <2>1 DEF LockInv, HoldsLock
    <3>2. \A t, u \in Launched(p) : DeviceOf[t] = DeviceOf[u] => t = u
      BY <2>1 DEF LockInv, OneHead
    <3>3. raced' = raced
      BY <1>2 DEF PollLaunches, history
    <3> QED BY <2>2, <3>1, <3>2, <3>3 DEF LockInv, OneTaskPerDevice
  <2> QED BY <2>3, <2>4, <2>5 DEF LockInv
<1> QED BY <1>1, <1>2

LEMMA ExecStepLocks ==
    ASSUME TypeOK, LockInv, NEW t \in Tasks, NEW s \in Slots, ExecStep(t, s)
    PROVE  LockInv'
<1>1. CASE NowLocks(t, s)
  <2>1. \A u \in Tasks, r \in Slots : u # t \/ r # s => execs'[u][r] = execs[u][r]
    <3>1. PhaseGoes(t, s, "starting")
      BY <1>1 DEF NowLocks, PhaseGoes
    <3> QED BY <3>1, PhaseMoves
  <2>2. raced \subseteq raced' /\ (DeviceOf[t] \notin raced' => ~locks[DeviceOf[t]])
    BY <1>1 DEF NowLocks
  <2> QED BY <1>1, <2>1, <2>2, Enters DEF NowLocks
<1>2. CASE AccountQueryFails(t, s)
  <2>1. \A u \in Tasks, r \in Slots : AtWork(u, r)' => AtWork(u, r)
    BY <1>2 DEF AccountQueryFails, AtWork, Idle, TypeOK
  <2> QED BY <1>2, <2>1, NobodyComesOrGoes DEF AccountQueryFails, history
<1>3. CASE StartsRow(t, s)
  BY <1>3, MovesOn DEF StartsRow
<1>4. CASE StartRefused(t, s)
  BY <1>4, MovesOn DEF StartRefused, history
<1>5. CASE Succeeds(t, s)
  BY <1>5, MovesOn DEF Succeeds, history
<1>6. CASE Fails(t, s)
  BY <1>6, MovesOn DEF Fails, history
<1>7. CASE Throws(t, s)
  BY <1>7, MovesOn DEF Throws, history
<1>8. CASE Leaves(t, s)
  <2>1. AtWork(t, s)
    BY <1>8 DEF Leaves, AtWork
  <2>2. \A u \in Tasks, r \in Slots : AtWork(u, r)' => AtWork(u, r) /\ (u # t \/ r # s)
    BY <1>8 DEF Leaves, AtWork, Idle, TypeOK
  <2>3. raced' = raced
    BY <1>8 DEF Leaves, history
  <2>4. \A d \in Devices : d # DeviceOf[t] => locks'[d] = locks[d]
    BY <1>8 DEF Leaves, TypeOK
  <2>5. OneTaskPerDevice'
    BY <2>2, <2>3 DEF LockInv, OneTaskPerDevice
  <2>6. HoldsLock'
    BY <2>1, <2>2, <2>3, <2>4, TaskAssumption DEF LockInv, HoldsLock, OneTaskPerDevice
  <2>7. \A q \in Polls, u \in Tasks : polls'[q][u] # NULL => polls[q][u] # NULL
    BY <1>8 DEF Leaves
  <2>8. OneHead'
    BY <2>7 DEF LockInv, OneHead
  <2> QED BY <2>5, <2>6, <2>8 DEF LockInv
<1> QED BY <1>1, <1>2, <1>3, <1>4, <1>5, <1>6, <1>7, <1>8 DEF ExecStep

LEMMA WorldLocks ==
    ASSUME TypeOK, LockInv,
           \/ \E t \in Tasks : NowChecks(t) \/ CloseTask(t)
           \/ RetryFailedTasks
           \/ \E d \in Devices : GapPasses(d) \/ Connects(d)
           \/ Crash
    PROVE  LockInv'
<1>1. ASSUME NEW t \in Tasks, NowChecks(t) PROVE LockInv'
  <2>1. PICK s \in Slots : PhaseGoes(t, s, AfterChecks(t))
    BY <1>1, ChecksEnterOne
  <2>2. /\ execs'[t][s].phase = AfterChecks(t)
        /\ \A u \in Tasks, r \in Slots : u # t \/ r # s => execs'[u][r] = execs[u][r]
    BY <2>1, PhaseMoves
  <2>3. CASE t \in AccountTasks
    <3>1. \A u \in Tasks, r \in Slots : AtWork(u, r)' => AtWork(u, r)
      BY <2>2, <2>3 DEF AtWork, AfterChecks
    <3> QED BY <1>1, <2>3, <3>1, NobodyComesOrGoes DEF NowChecks, history
  <2>4. CASE t \notin AccountTasks
    BY <1>1, <2>2, <2>4, Enters DEF NowChecks, history
  <2> QED BY <2>3, <2>4
<1>2. CASE \/ \E t \in Tasks : CloseTask(t)
           \/ RetryFailedTasks
           \/ \E d \in Devices : GapPasses(d) \/ Connects(d)
  <2>1. UNCHANGED <<execs, locks, polls, raced>>
    BY <1>2 DEF CloseTask, RetryFailedTasks, GapPasses, Connects, history, memory
  <2> QED BY <2>1, NobodyComesOrGoes DEF AtWork
<1>3. CASE Crash
  <2>1. \A t \in Tasks, s \in Slots : ~AtWork(t, s)'
    BY <1>3 DEF Crash, AtWork, Idle
  <2>2. \A p \in Polls, t \in Tasks : polls'[p][t] = NULL
    BY <1>3 DEF Crash, NoPoll
  <2> QED BY <2>1, <2>2 DEF LockInv, HoldsLock, OneHead, OneTaskPerDevice
<1> QED BY <1>1, <1>2, <1>3

LEMMA LockStep ==
    ASSUME TypeOK, LockInv, [Next]_vars PROVE LockInv'
<1>1. CASE Next
  BY <1>1, PollLocks, ExecStepLocks, WorldLocks DEF Next
<1>2. CASE UNCHANGED vars
  BY <1>2, NobodyComesOrGoes DEF vars, history, memory, AtWork
<1> QED BY <1>1, <1>2

LEMMA LockInit ==
    ASSUME Init PROVE LockInv
<1>1. \A t \in Tasks, s \in Slots : ~AtWork(t, s)
  BY DEF Init, AtWork, Idle
<1>2. \A p \in Polls, t \in Tasks : polls[p][t] = NULL
  BY DEF Init, NoPoll
<1> QED BY <1>1, <1>2 DEF LockInv, HoldsLock, OneHead, OneTaskPerDevice

\* On a device whose lock no executeTaskNow took from another execution, one execution at
\* most is between its lock and its finally, however many cycles poll at once.
THEOREM OneTaskPerDeviceHolds == Spec => []OneTaskPerDevice
<1>1. Init => LockInv BY LockInit
<1>2. TypeOK /\ LockInv /\ [Next]_vars => LockInv' BY LockStep
<1>3. LockInv => OneTaskPerDevice BY DEF LockInv
<1> QED BY <1>1, <1>2, <1>3, TypeCorrect, PTL DEF Spec

-----------------------------------------------------------------------------
(* The retry budget *)

\* The starts a retry_count r accounts for, and the retry_count a failure makes of it.
Spent(t, r) == IF t \in NoRetry THEN (IF r < MaxRetries THEN 0 ELSE 1) ELSE r
NextOf(t, r) == IF t \in NoRetry THEN MaxRetries ELSE r + 1

\* A row the poll may offer accounts for its starts.
RowBudget(t) ==
    /\ Offered(tasks[t].status) => attempts[t] <= Spent(t, tasks[t].retry)
    /\ Flags(tasks[t].status).dispatchable => tasks[t].retry = 0
    /\ attempts[t] <= Spent(t, MaxRetries)

\* So does the retry_count an execution carries, or will write.
ExecBudget(t, s) ==
    LET exec == execs[t][s] IN
    /\ exec.phase = "account" => ~exec.auto
    /\ exec.auto /\ exec.phase = "starting" =>
          exec.retry < MaxRetries /\ attempts[t] <= Spent(t, exec.retry)
    /\ exec.auto /\ exec.phase \in {"working", "tail"} =>
          attempts[t] <= Spent(t, NextOf(t, exec.retry))
    /\ ~exec.auto /\ exec.phase = "working" => attempts[t] <= Spent(t, tasks[t].retry)

\* And the one a poll cycle has read, unless the lock keeps the cycle from using it.
PollBudget(t, p) ==
    polls[p][t] # NULL =>
        /\ polls[p][t] < MaxRetries
        /\ attempts[t] <= Spent(t, polls[p][t]) \/ locks[DeviceOf[t]]

Budget(t) ==
    /\ RowBudget(t)
    /\ \A s \in Slots : ExecBudget(t, s)
    /\ \A p \in Polls : PollBudget(t, p)
BudgetInv == \A t \in Tasks : DeviceOf[t] \notin raced => Budget(t)

LEMMA SpentGrows ==
    ASSUME NEW t, NEW r \in Nat
    PROVE  /\ Spent(t, r) \in Nat /\ NextOf(t, r) \in Nat /\ Spent(t, NextOf(t, r)) \in Nat
           /\ Spent(t, MaxRetries) \in Nat
           /\ r < MaxRetries => /\ Spent(t, r) + 1 <= Spent(t, NextOf(t, r))
                               /\ Spent(t, NextOf(t, r)) <= Spent(t, MaxRetries)
  BY TaskAssumption, RetryLifecycleAssumption DEF Spent, NextOf

LEMMA Moved ==
    ASSUME TypeOK, NEW t \in Tasks
    PROVE  /\ CanMove(t, Start) =>
                 Offered(tasks[t].status) /\ ~Offered(Target(t, Start))
           /\ CanMove(t, Success) => ~Offered(Target(t, Success))
           /\ CanMove(t, Failure) => ~Offered(tasks[t].status)
                                     /\ ~Flags(Target(t, Failure)).dispatchable
           /\ CanMove(t, Close) => ~Offered(Target(t, Close))
<1>1. tasks[t].status \in Statuses
  BY DEF TypeOK, Task
<1> QED BY <1>1, RetryLifecycleAssumption DEF CanMove, Target

\* A task whose row nobody writes keeps its budget, executions and cycles that end included.
LEMMA BudgetStays ==
    ASSUME BudgetInv, NEW t \in Tasks, DeviceOf[t] \notin raced,
           tasks'[t] = tasks[t], attempts'[t] = attempts[t],
           \A s \in Slots : execs'[t][s] = execs[t][s] \/ execs'[t][s] = Idle,
           \A p \in Polls : polls'[p][t] = polls[p][t] \/ polls'[p][t] = NULL,
           \/ \A p \in Polls : polls'[p][t] = NULL
           \/ locks[DeviceOf[t]] => locks'[DeviceOf[t]]
    PROVE  Budget(t)'
<1>0. Budget(t)
  BY DEF BudgetInv
<1>1. RowBudget(t)'
  BY <1>0 DEF Budget, RowBudget
<1>2. ASSUME NEW s \in Slots PROVE ExecBudget(t, s)'
  BY <1>0, <1>2 DEF Budget, ExecBudget, Idle
<1>3. ASSUME NEW p \in Polls PROVE PollBudget(t, p)'
  BY <1>0, <1>3 DEF Budget, PollBudget
<1> QED BY <1>1, <1>2, <1>3 DEF Budget

LEMMA PollBudgets ==
    ASSUME TypeOK, LockInv, BudgetInv, NEW p \in Polls, PollReads(p) \/ PollLaunches(p)
    PROVE  BudgetInv'
<1> SUFFICES ASSUME NEW t \in Tasks, DeviceOf[t] \notin raced'
             PROVE  Budget(t)'
  BY DEF BudgetInv
<1>0. raced' = raced /\ tasks' = tasks /\ attempts' = attempts
  BY DEF PollReads, PollLaunches, history
<1>1. Budget(t)
  BY <1>0 DEF BudgetInv
<1>2. RowBudget(t)'
  BY <1>0, <1>1 DEF Budget, RowBudget
<1>3. CASE PollReads(p)
  <2>1. PICK batch \in SUBSET Tasks : \E heads \in Heads(batch) :
           /\ polls' = [polls EXCEPT ![p] =
                       [u \in Tasks |-> IF u \in heads THEN tasks[u].retry ELSE NULL]]
           /\ \A u \in batch : Retryable(u) \/ Runnable(u)
    BY <1>3 DEF PollReads, Batches
  <2>2. PICK heads \in Heads(batch) :
           polls' = [polls EXCEPT ![p] =
                       [u \in Tasks |-> IF u \in heads THEN tasks[u].retry ELSE NULL]]
    BY <2>1
  <2>3. t \in heads => Offered(tasks[t].status) /\ tasks[t].retry < MaxRetries
    BY <1>1, <2>1, RetryLifecycleAssumption
    DEF Heads, Retryable, Runnable, Offered, Budget, RowBudget
  <2>4. polls'[p][t] # NULL => polls'[p][t] = tasks[t].retry /\ t \in heads
    BY <2>2 DEF TypeOK
  <2>5. PollBudget(t, p)'
    BY <1>0, <1>1, <2>3, <2>4 DEF Budget, RowBudget, PollBudget
  <2>6. ASSUME NEW q \in Polls, q # p PROVE PollBudget(t, q)'
    <3>1. polls'[q] = polls[q]
      BY <2>2, <2>6 DEF TypeOK
    <3> QED BY <1>0, <1>1, <1>3, <3>1 DEF Budget, PollBudget, PollReads
  <2>7. ASSUME NEW s \in Slots PROVE ExecBudget(t, s)'
    BY <1>0, <1>1, <1>3 DEF Budget, ExecBudget, PollReads
  <2> QED BY <1>2, <2>5, <2>6, <2>7 DEF Budget
<1>4. CASE PollLaunches(p)
  <2>1. ASSUME NEW q \in Polls PROVE PollBudget(t, q)'
    <3>1. locks[DeviceOf[t]] => locks'[DeviceOf[t]]
      BY <1>4, TaskAssumption DEF PollLaunches, TypeOK
    <3>2. polls'[q][t] = polls[q][t] \/ polls'[q][t] = NULL
      BY <1>4 DEF PollLaunches, NoPoll, TypeOK
    <3> QED BY <1>0, <1>1, <3>1, <3>2 DEF Budget, PollBudget
  <2>2. ASSUME NEW s \in Slots PROVE ExecBudget(t, s)'
    <3>1. CASE t \in Launched(p) /\ s = FirstFree(t)
      <4>1. execs'[t][s] = [phase |-> "starting", auto |-> TRUE, retry |-> polls[p][t]]
        BY <1>4, <3>1 DEF PollLaunches, TypeOK
      <4>2. polls[p][t] # NULL /\ ~locks[DeviceOf[t]]
        BY <3>1 DEF Launched, Open
      <4>3. polls[p][t] < MaxRetries /\ attempts[t] <= Spent(t, polls[p][t])
        BY <1>1, <4>2 DEF Budget, PollBudget
      <4> QED BY <1>0, <4>1, <4>3 DEF ExecBudget
    <3>2. CASE ~(t \in Launched(p) /\ s = FirstFree(t))
      <4>1. FirstFree(t) \in Slots \/ t \notin Launched(p)
        BY <1>4 DEF PollLaunches, FirstFree, Free
      <4>2. execs'[t][s] = execs[t][s]
        BY <1>4, <3>2, <4>1 DEF PollLaunches, TypeOK
      <4> QED BY <1>0, <1>1, <4>2 DEF Budget, ExecBudget
    <3> QED BY <3>1, <3>2
  <2> QED BY <1>2, <2>1, <2>2 DEF Budget
<1> QED BY <1>3, <1>4

\* An execution at work on a device no race has touched is alone there.
LEMMA Alone ==
    ASSUME LockInv, NEW t \in Tasks, NEW s \in Slots, AtWork(t, s), DeviceOf[t] \notin raced
    PROVE  /\ locks[DeviceOf[t]]
           /\ \A r \in Slots : r # s => ~AtWork(t, r)
  BY DEF LockInv, HoldsLock, OneTaskPerDevice

\* An execution that is not at work asks nothing of the budget.
LEMMA RestIsFree ==
    ASSUME NEW t \in Tasks, NEW r \in Slots, ExecBudget(t, r), ~AtWork(t, r),
           execs'[t][r] = execs[t][r]
    PROVE  ExecBudget(t, r)'
  BY DEF ExecBudget, AtWork

\* What is left to show of a step of the one execution s: the row and the execution itself.
LEMMA OneExecutionMoves ==
    ASSUME TypeOK, LockInv, BudgetInv, NEW t \in Tasks, NEW s \in Slots, AtWork(t, s),
           UNCHANGED <<locks, polls, raced>>,
           \A u \in Tasks, r \in Slots : u # t \/ r # s => execs'[u][r] = execs[u][r],
           \A u \in Tasks : u # t => tasks'[u] = tasks[u] /\ attempts'[u] = attempts[u],
           DeviceOf[t] \notin raced => RowBudget(t)' /\ ExecBudget(t, s)'
    PROVE  BudgetInv'
<1> SUFFICES ASSUME NEW u \in Tasks, DeviceOf[u] \notin raced' PROVE Budget(u)'
  BY DEF BudgetInv
<1>1. CASE u # t
  BY <1>1, BudgetStays
<1>2. CASE u = t
  <2>1. Budget(t) /\ DeviceOf[t] \notin raced
    BY <1>2 DEF BudgetInv
  <2>2. ASSUME NEW r \in Slots, r # s PROVE ExecBudget(t, r)'
    BY <2>1, <2>2, Alone, RestIsFree DEF Budget
  <2>3. ASSUME NEW p \in Polls PROVE PollBudget(t, p)'
    BY <2>1, <2>3, Alone DEF Budget, PollBudget
  <2> QED BY <1>2, <2>1, <2>2, <2>3 DEF Budget
<1> QED BY <1>1, <1>2

\* The failure an execution records leaves a retry_count that accounts for its starts.
LEMMA FailureWithinBudget ==
    ASSUME TypeOK, BudgetInv, NEW t \in Tasks, NEW s \in Slots, DeviceOf[t] \notin raced,
           \/ execs[t][s].phase = "working"
           \/ execs[t][s].auto /\ execs[t][s].phase \in {"starting", "tail"},
           RecordsFailure(t, s), attempts' = attempts
    PROVE  RowBudget(t)'
<1>1. Budget(t)
  BY DEF BudgetInv
<1>2. execs[t][s].retry \in Nat /\ execs[t][s].auto \in BOOLEAN /\ attempts[t] \in Nat
  BY DEF TypeOK, Exec
<1>3. attempts[t] <= Spent(t, NextRetry(t, s))
  <2>1. CASE ~execs[t][s].auto
    BY <1>1, <2>1 DEF Budget, ExecBudget, NextRetry
  <2>2. CASE execs[t][s].auto
    <3>1. NextRetry(t, s) = NextOf(t, execs[t][s].retry)
      BY <2>2 DEF NextRetry, NextOf
    <3>2. CASE execs[t][s].phase = "starting"
      <4>1. execs[t][s].retry < MaxRetries /\ attempts[t] <= Spent(t, execs[t][s].retry)
        BY <1>1, <2>2, <3>2 DEF Budget, ExecBudget
      <4> QED BY <1>2, <3>1, <4>1, SpentGrows
    <3>3. CASE execs[t][s].phase # "starting"
      BY <1>1, <2>2, <3>1, <3>3 DEF Budget, ExecBudget
    <3> QED BY <3>2, <3>3
  <2> QED BY <1>2, <2>1, <2>2
<1>4. CASE ~CanMove(t, Failure)
  BY <1>1, <1>4 DEF Budget, RowBudget, RecordsFailure
<1>5. CASE CanMove(t, Failure)
  <2>1. tasks'[t].status = Target(t, Failure) /\ tasks'[t].retry = NextRetry(t, s)
    BY <1>5 DEF RecordsFailure, TypeOK
  <2>2. ~Flags(tasks'[t].status).dispatchable
    BY <1>5, <2>1, Moved
  <2> QED BY <1>1, <1>3, <2>1, <2>2 DEF Budget, RowBudget
<1> QED BY <1>4, <1>5

\* Recording does not touch another row.
LEMMA RecordsOne ==
    ASSUME TypeOK, NEW t \in Tasks, NEW s \in Slots,
           RecordsSuccess(t) \/ RecordsFailure(t, s) \/ UNCHANGED tasks
    PROVE  \A u \in Tasks : u # t => tasks'[u] = tasks[u]
  BY DEF RecordsSuccess, RecordsFailure, TypeOK

LEMMA StartBudgets ==
    ASSUME TypeOK, LockInv, BudgetInv, NEW t \in Tasks, NEW s \in Slots, StartsRow(t, s)
    PROVE  BudgetInv'
<1>1. /\ PhaseGoes(t, s, "working")
      /\ execs[t][s].phase = "starting" /\ AtWork(t, s)
  BY DEF StartsRow, GoesOn, AtWork, PhaseGoes
<1>2. /\ execs'[t][s].phase = "working"
      /\ \A u \in Tasks, r \in Slots : u # t \/ r # s => execs'[u][r] = execs[u][r]
  BY <1>1, PhaseMoves
<1>3. execs'[t][s].auto = execs[t][s].auto /\ execs'[t][s].retry = execs[t][s].retry
  BY <1>1, PhaseKeepsRest
<1>4. \A u \in Tasks : u # t => tasks'[u] = tasks[u] /\ attempts'[u] = attempts[u]
  BY DEF StartsRow, TypeOK
<1>5. ASSUME DeviceOf[t] \notin raced PROVE RowBudget(t)' /\ ExecBudget(t, s)'
  <2>1. Budget(t)
    BY <1>5 DEF BudgetInv
  <2>2. tasks'[t].status = Target(t, Start) /\ tasks'[t].retry = tasks[t].retry
    BY DEF StartsRow, TypeOK, Task
  <2>3. Offered(tasks[t].status) /\ ~Offered(tasks'[t].status)
    BY <2>2, Moved DEF StartsRow
  <2>4. attempts[t] <= Spent(t, tasks[t].retry) /\ attempts[t] <= Spent(t, MaxRetries)
    BY <2>1, <2>3 DEF Budget, RowBudget
  <2>5. execs[t][s].retry \in Nat /\ execs[t][s].auto \in BOOLEAN /\ attempts[t] \in Nat
    BY DEF TypeOK, Exec
  <2>6. CASE ~execs[t][s].auto
    <3>1. attempts' = attempts
      BY <2>6 DEF StartsRow
    <3> QED BY <1>2, <1>3, <2>2, <2>3, <2>4, <2>6, <3>1 DEF RowBudget, ExecBudget, Offered
  <2>7. CASE execs[t][s].auto
    <3>1. attempts'[t] = attempts[t] + 1
      BY <2>7 DEF StartsRow, TypeOK
    <3>2. execs[t][s].retry < MaxRetries /\ attempts[t] <= Spent(t, execs[t][s].retry)
      BY <1>1, <2>1, <2>7 DEF Budget, ExecBudget
    <3>3. /\ attempts'[t] <= Spent(t, NextOf(t, execs[t][s].retry))
          /\ attempts'[t] <= Spent(t, MaxRetries)
      BY <2>5, <3>1, <3>2, SpentGrows, TaskAssumption
    <3> QED BY <1>2, <1>3, <2>3, <2>7, <3>3 DEF RowBudget, ExecBudget, Offered
  <2> QED BY <2>5, <2>6, <2>7
<1> QED BY <1>1, <1>2, <1>4, <1>5, OneExecutionMoves DEF StartsRow

LEMMA RecordBudgets ==
    ASSUME TypeOK, LockInv, BudgetInv, NEW t \in Tasks, NEW s \in Slots,
           Succeeds(t, s) \/ Fails(t, s) \/ Throws(t, s) \/ StartRefused(t, s)
    PROVE  BudgetInv'
<1>1. PICK to \in {"tail", "leaving"} : PhaseGoes(t, s, to)
                                      /\ (to = "tail" => execs[t][s].phase = "working")
  BY DEF Succeeds, Fails, Throws, StartRefused, GoesOn, PhaseGoes
<1>2. AtWork(t, s)
  BY DEF Succeeds, Fails, Throws, StartRefused, GoesOn, AtWork
<1>3. /\ execs'[t][s].phase = to
      /\ \A u \in Tasks, r \in Slots : u # t \/ r # s => execs'[u][r] = execs[u][r]
  BY <1>1, PhaseMoves
<1>4. execs'[t][s].auto = execs[t][s].auto /\ execs'[t][s].retry = execs[t][s].retry
  BY <1>1, PhaseKeepsRest
<1>5. attempts' = attempts /\ UNCHANGED <<locks, polls, raced>>
  BY DEF Succeeds, Fails, Throws, StartRefused, history
<1>6. \A u \in Tasks : u # t => tasks'[u] = tasks[u]
  BY RecordsOne DEF Succeeds, Fails, Throws, StartRefused
<1>7. ASSUME DeviceOf[t] \notin raced PROVE RowBudget(t)' /\ ExecBudget(t, s)'
  <2>1. Budget(t)
    BY <1>7 DEF BudgetInv
  <2>2. ExecBudget(t, s)'
    BY <1>1, <1>3, <1>4, <1>5, <2>1 DEF Budget, ExecBudget
  <2>3. CASE Succeeds(t, s)
    <3>1. \/ tasks'[t] = tasks[t]
          \/ ~Offered(tasks'[t].status)
      BY <2>3, Moved DEF Succeeds, RecordsSuccess, TypeOK, Task
    <3> QED BY <1>5, <2>1, <2>2, <3>1 DEF Budget, RowBudget, Offered
  <2>4. CASE Fails(t, s)
    BY <1>5, <1>7, <2>2, <2>4, FailureWithinBudget DEF Fails, GoesOn
  <2>5. CASE Throws(t, s) \/ StartRefused(t, s)
    <3>1. CASE UNCHANGED tasks
      BY <1>5, <2>1, <2>2, <3>1 DEF Budget, RowBudget
    <3>2. CASE Throws(t, s) /\ execs[t][s].auto /\ RecordsFailure(t, s)
      BY <1>5, <1>7, <2>2, <3>2, FailureWithinBudget DEF Throws, GoesOn
    <3> QED BY <2>5, <3>1, <3>2 DEF Throws, StartRefused
  <2> QED BY <2>2, <2>3, <2>4, <2>5
<1> QED BY <1>2, <1>3, <1>5, <1>6, <1>7, OneExecutionMoves

LEMMA ExecStepBudgets ==
    ASSUME TypeOK, LockInv, BudgetInv, NEW t \in Tasks, NEW s \in Slots, ExecStep(t, s)
    PROVE  BudgetInv'
<1>1. CASE StartsRow(t, s)
  BY <1>1, StartBudgets
<1>2. CASE Succeeds(t, s) \/ Fails(t, s) \/ Throws(t, s) \/ StartRefused(t, s)
  BY <1>2, RecordBudgets
<1>3. CASE NowLocks(t, s)
  <2> SUFFICES ASSUME NEW u \in Tasks, DeviceOf[u] \notin raced' PROVE Budget(u)'
    BY DEF BudgetInv
  <2>1. UNCHANGED <<tasks, attempts, polls>> /\ raced \subseteq raced'
    BY <1>3 DEF NowLocks
  <2>2. locks[DeviceOf[u]] => locks'[DeviceOf[u]]
    BY <1>3, TaskAssumption DEF NowLocks, TypeOK
  <2>0. PhaseGoes(t, s, "starting")
    BY <1>3 DEF NowLocks, PhaseGoes
  <2>3. /\ execs'[t][s].phase = "starting"
        /\ \A v \in Tasks, r \in Slots : v # t \/ r # s => execs'[v][r] = execs[v][r]
    BY <2>0, PhaseMoves
  <2>4. execs'[t][s].auto = execs[t][s].auto
    BY <2>0, PhaseKeepsRest
  <2>5. Budget(u)
    BY <2>1 DEF BudgetInv
  <2>6. ASSUME NEW r \in Slots PROVE ExecBudget(u, r)'
    <3>1. CASE u = t /\ r = s
      BY <1>3, <2>3, <2>4, <2>5, <3>1 DEF Budget, ExecBudget, NowLocks
    <3>2. CASE u # t \/ r # s
      BY <2>1, <2>3, <2>5, <3>2 DEF Budget, ExecBudget
    <3> QED BY <3>1, <3>2
  <2>7. RowBudget(u)'
    BY <2>1, <2>5 DEF Budget, RowBudget
  <2>8. ASSUME NEW p \in Polls PROVE PollBudget(u, p)'
    BY <2>1, <2>2, <2>5 DEF Budget, PollBudget
  <2> QED BY <2>6, <2>7, <2>8 DEF Budget
<1>4. CASE AccountQueryFails(t, s) \/ Leaves(t, s)
  <2> SUFFICES ASSUME NEW u \in Tasks, DeviceOf[u] \notin raced' PROVE Budget(u)'
    BY DEF BudgetInv
  <2>1. UNCHANGED <<tasks, attempts, raced>>
    BY <1>4 DEF AccountQueryFails, Leaves, history
  <2>2. \A r \in Slots : execs'[u][r] = execs[u][r] \/ execs'[u][r] = Idle
    BY <1>4 DEF AccountQueryFails, Leaves, TypeOK
  <2>3. \A p \in Polls : polls'[p][u] = polls[p][u] \/ polls'[p][u] = NULL
    BY <1>4 DEF AccountQueryFails, Leaves
  <2>4. \/ \A p \in Polls : polls'[p][u] = NULL
        \/ locks[DeviceOf[u]] => locks'[DeviceOf[u]]
    BY <1>4, TaskAssumption DEF AccountQueryFails, Leaves, TypeOK
  <2> QED BY <2>1, <2>2, <2>3, <2>4, BudgetStays
<1> QED BY <1>1, <1>2, <1>3, <1>4 DEF ExecStep

LEMMA CallBudgets ==
    ASSUME TypeOK, BudgetInv, NEW t \in Tasks, NowChecks(t)
    PROVE  BudgetInv'
<1> SUFFICES ASSUME NEW u \in Tasks, DeviceOf[u] \notin raced' PROVE Budget(u)'
  BY DEF BudgetInv
<1>1. UNCHANGED <<tasks, attempts, polls, raced>>
  BY DEF NowChecks, history
<1>2. Budget(u)
  BY <1>1 DEF BudgetInv
<1>3. PICK s \in Slots : PhaseGoes(t, s, AfterChecks(t)) /\ execs[t][s] = Idle
  BY ChecksEnterOne
<1>4. /\ execs'[t][s].phase = AfterChecks(t)
      /\ \A v \in Tasks, r \in Slots : v # t \/ r # s => execs'[v][r] = execs[v][r]
  BY <1>3, PhaseMoves
<1>5. ~execs'[t][s].auto
  BY <1>3, PhaseKeepsRest DEF Idle
<1>6. ASSUME NEW r \in Slots PROVE ExecBudget(u, r)'
  <2>1. CASE u = t /\ r = s
    BY <1>4, <1>5, <2>1 DEF ExecBudget, AfterChecks
  <2>2. CASE u # t \/ r # s
    BY <1>1, <1>2, <1>4, <2>2 DEF Budget, ExecBudget
  <2> QED BY <2>1, <2>2
<1>7. locks[DeviceOf[u]] => locks'[DeviceOf[u]]
  BY TaskAssumption DEF NowChecks, TypeOK
<1>8. RowBudget(u)' /\ \A p \in Polls : PollBudget(u, p)'
  BY <1>1, <1>2, <1>7 DEF Budget, RowBudget, PollBudget
<1> QED BY <1>6, <1>8 DEF Budget

\* A close takes the row out of the poll's reach.
LEMMA CloseBudgets ==
    ASSUME TypeOK, BudgetInv, NEW t \in Tasks, CloseTask(t)
    PROVE  BudgetInv'
<1>1. UNCHANGED <<attempts, raced, execs, polls, locks>>
  BY DEF CloseTask, history, memory
<1>2. \A u \in Tasks : u # t => tasks'[u] = tasks[u]
  BY DEF CloseTask, TypeOK
<1>3. tasks[t].status \in Statuses
  BY DEF TypeOK, Task
<1>4. ~Offered(tasks'[t].status) /\ tasks'[t].retry = tasks[t].retry
  BY <1>3, Moved, RetryLifecycleAssumption DEF CloseTask, TypeOK, Task
<1> SUFFICES ASSUME NEW u \in Tasks, DeviceOf[u] \notin raced' PROVE Budget(u)'
  BY DEF BudgetInv
<1>5. Budget(u)
  BY <1>1 DEF BudgetInv
<1>6. CASE u = t
  BY <1>1, <1>4, <1>5, <1>6 DEF Budget, RowBudget, ExecBudget, PollBudget, Offered
<1>7. CASE u # t
  BY <1>1, <1>2, <1>7, BudgetStays
<1> QED BY <1>6, <1>7

\* A requeue starts the count again.
LEMMA RequeueBudgets ==
    ASSUME TypeOK, BudgetInv, RetryFailedTasks
    PROVE  BudgetInv'
<1>1. UNCHANGED <<raced, execs, polls, locks>>
  BY DEF RetryFailedTasks, memory
<1> SUFFICES ASSUME NEW u \in Tasks, DeviceOf[u] \notin raced' PROVE Budget(u)'
  BY DEF BudgetInv
<1>2. Budget(u)
  BY <1>1 DEF BudgetInv
<1>3. \/ tasks'[u] = tasks[u] /\ attempts'[u] = attempts[u]
      \/ tasks'[u].retry = 0 /\ attempts'[u] = 0
  BY DEF RetryFailedTasks
<1>4. CASE tasks'[u] = tasks[u] /\ attempts'[u] = attempts[u]
  BY <1>1, <1>4, BudgetStays
<1>5. CASE tasks'[u].retry = 0 /\ attempts'[u] = 0
  <2>1. \A r \in Nat : Spent(u, r) \in Nat /\ Spent(u, NextOf(u, r)) \in Nat
    BY SpentGrows
  <2>2. RowBudget(u)'
    BY <1>5, <2>1, TaskAssumption DEF RowBudget
  <2>3. ASSUME NEW s \in Slots PROVE ExecBudget(u, s)'
    <3>1. execs[u][s].retry \in Nat
      BY DEF TypeOK, Exec
    <3> QED BY <1>1, <1>2, <1>5, <2>1, <3>1 DEF Budget, ExecBudget
  <2>4. ASSUME NEW p \in Polls PROVE PollBudget(u, p)'
    <3>1. polls[p][u] \in Nat \cup {NULL}
      BY DEF TypeOK, Poll
    <3> QED BY <1>1, <1>2, <1>5, <2>1, <3>1 DEF Budget, PollBudget
  <2> QED BY <2>2, <2>3, <2>4 DEF Budget
<1> QED BY <1>3, <1>4, <1>5

LEMMA WorldBudgets ==
    ASSUME TypeOK, BudgetInv,
           (\E d \in Devices : GapPasses(d) \/ Connects(d)) \/ Crash \/ UNCHANGED vars
    PROVE  BudgetInv'
<1> SUFFICES ASSUME NEW u \in Tasks, DeviceOf[u] \notin raced' PROVE Budget(u)'
  BY DEF BudgetInv
<1>1. UNCHANGED <<tasks, attempts, raced>>
  BY DEF GapPasses, Connects, Crash, vars, history
<1>2. /\ \A s \in Slots : execs'[u][s] = execs[u][s] \/ execs'[u][s] = Idle
      /\ \A p \in Polls : polls'[p][u] = polls[p][u] \/ polls'[p][u] = NULL
      /\ (\A p \in Polls : polls'[p][u] = NULL) \/ locks' = locks
  BY DEF GapPasses, Connects, Crash, vars, memory, NoPoll
<1> QED BY <1>1, <1>2, BudgetStays

LEMMA BudgetStep ==
    ASSUME TypeOK, LockInv, BudgetInv, [Next]_vars PROVE BudgetInv'
  BY PollBudgets, ExecStepBudgets, CallBudgets, CloseBudgets, RequeueBudgets, WorldBudgets
  DEF Next

LEMMA BudgetInit ==
    ASSUME Init PROVE BudgetInv
<1>1. \A t \in Tasks : attempts[t] = 0 /\ tasks[t].retry = 0
  BY DEF Init
<1>2. \A t \in Tasks : Spent(t, 0) \in Nat /\ Spent(t, MaxRetries) \in Nat
  BY SpentGrows
<1>3. ASSUME NEW t \in Tasks, NEW s \in Slots PROVE ExecBudget(t, s)
  BY DEF Init, ExecBudget, Idle
<1>4. ASSUME NEW t \in Tasks, NEW p \in Polls PROVE PollBudget(t, p)
  BY DEF Init, PollBudget, NoPoll
<1> QED BY <1>1, <1>2, <1>3, <1>4 DEF BudgetInv, Budget, RowBudget

\* However a poll's rows age while executions, calls, closes and restarts go on, the poll
\* starts a task maxRetries times at most between two requeues, and once if it must not be
\* retried.
THEOREM RetryBudgetHolds == Spec => []RetryBudget
<1>1. Init => LockInv /\ BudgetInv BY LockInit, BudgetInit
<1>2. TypeOK /\ LockInv /\ BudgetInv /\ [Next]_vars => LockInv' /\ BudgetInv'
  BY LockStep, BudgetStep
<1>3. BudgetInv => RetryBudget
  BY RetryLifecycleAssumption, TaskAssumption
  DEF BudgetInv, Budget, RowBudget, Spent, RetryBudget
<1> QED BY <1>1, <1>2, <1>3, TypeCorrect, PTL DEF Spec
==============================================================================
