--------------------------- MODULE PnqShadowProofs ---------------------------
(***************************************************************************)
(* Proofs about PnqShadow, for every set of devices, sockets, jobs and      *)
(* execution ids and every lifecycle configuration QueueV2 accepts.         *)
(*                                                                         *)
(* The shadow calls the functions of QueueV2 with arguments it read steps   *)
(* earlier.  ShadowInv says what such an argument still means when it is    *)
(* used; from it every step of the shadow is a step of QueueV2 (Simulates), *)
(* so the shadow inherits what QueueV2Proofs shows of the contract.         *)
(***************************************************************************)
EXTENDS PnqShadow, TLAPS

QP == INSTANCE QueueV2Proofs

-----------------------------------------------------------------------------
(* The inductive invariant.  The parts about one row are operators of the    *)
(* row, so that they read the same before and after a step.                  *)

NodeInBound(node) == node # NoRow => node.connection_epoch <= MaxEpoch

\* What a socket holds, or is about to take, is an epoch its phone has reached.
EpochReached(row, node) ==
    row # NoRow =>
        /\ row.epoch # NULL => node # NoRow /\ row.epoch <= node.connection_epoch
        /\ row.step \in {"bump", "resolve"} =>
              node # NoRow /\ row.seen # NULL /\ row.seen <= node.connection_epoch

\* The row's pending authentication is past the epoch the other socket holds.
AheadOf(row, other) ==
    (row # NoRow /\ other # NoRow /\ row.device = other.device /\ other.epoch # NULL) =>
        /\ row.step = "bump" => row.seen >= other.epoch
        /\ row.step = "resolve" => row.seen > other.epoch

\* An unclaimed row was never started, and is as it was inserted unless it was
\* given up; a claimed one was claimed once.
ClaimCounted(row) ==
    row # NoRow =>
        IF row.execution_id = NULL
        THEN /\ row.dispatch_generation = 0 /\ ~row.execution_started_at
             /\ ~row.terminal_at => row.job_version = 1
        ELSE row.dispatch_generation = 1

\* The job's row is the claim x made with this generation and epoch.
CarriesClaim(row, x, generation, epoch) ==
    /\ row # NoRow
    /\ row.execution_id = x
    /\ row.dispatch_generation = generation
    /\ row.claimed_connection_epoch = epoch

Connected ==
    \A d \in Nodes : connections[d] # NULL =>
        sockets[connections[d]] # NoRow /\ sockets[connections[d]].device = d

EpochsReached ==
    /\ \A n \in Nodes : NodeInBound(nodes[n])
    /\ \A s \in Sockets : sockets[s] # NoRow =>
          EpochReached(sockets[s], nodes[sockets[s].device])

\* Only a socket that connected after the other took its epoch can be registered
\* now, so what it reads is newer.
RegisteredIsAhead ==
    \A s, t \in Sockets :
        s # t /\ sockets[s] # NoRow /\ connections[sockets[s].device] = s =>
            AheadOf(sockets[s], sockets[t])

RowsCounted == \A j \in Q!Jobs : ClaimCounted(jobs[j])

OneRowPerExecution ==
    \A i, j \in Q!Jobs :
        /\ jobs[i] # NoRow /\ jobs[j] # NoRow
        /\ jobs[i].execution_id # NULL /\ jobs[i].execution_id = jobs[j].execution_id
        => i = j

\* A uuid is in no row before its own claim.
UnclaimedIsFresh ==
    \A x \in ExecutionIds :
        attempts[x] = NoRow \/ attempts[x].step = "claim" => CarryingIn(jobs, x) = {}

AttemptsBacked ==
    \A x \in ExecutionIds : attempts[x] # NoRow =>
        LET a == attempts[x] IN
        /\ a.epoch <= MaxEpoch
        /\ a.step \in {"start", "map"} =>
              CarriesClaim(jobs[JobOf(a.key)], x, a.generation, a.epoch)
        /\ a.step = "start" => a.version = 2

MapBacked ==
    \A k \in Keys : legacyMap[k] # NoRow /\ legacyMap[k].attempt_execution_id # NULL =>
        CarriesClaim(jobs[JobOf(k)], legacyMap[k].attempt_execution_id,
                     legacyMap[k].dispatch_generation, legacyMap[k].socket_epoch)

StartedByAttempt ==
    \A j \in Q!Jobs : jobs[j] # NoRow /\ jobs[j].execution_started_at =>
        /\ attempts[jobs[j].execution_id] # NoRow
        /\ attempts[jobs[j].execution_id].key = j[2]

SocketInv == Connected /\ EpochsReached /\ RegisteredIsAhead /\ EpochNamesOneSocket
ClaimInv == RowsCounted /\ OneRowPerExecution /\ UnclaimedIsFresh /\ AttemptsBacked
            /\ MapBacked /\ StartedByAttempt
ShadowInv == TypeOK /\ SocketInv /\ ClaimInv

-----------------------------------------------------------------------------
(* The instance of QueueV2 the shadow drives is the one QueueV2Proofs is     *)
(* about: same constants, same tables, the same definitions.                 *)

LEMMA ContractAssumptions ==
    QP!LifecycleAssumption /\ QP!JobLifecycleAssumption /\ QP!BoundAssumption
<1>1. QP!LifecycleAssumption
  BY LifecycleAssumption
  DEF QP!LifecycleAssumption, TransitionRow, QP!TransitionRow, StateFlags, QP!StateFlags
<1>2. QP!JobLifecycleAssumption
  BY QueueAssumption DEF Q!JobLifecycleAssumption, QP!JobLifecycleAssumption,
     Q!StateMatches, QP!StateMatches, Q!Satisfies, QP!Satisfies
<1>3. QP!BoundAssumption
  BY QueueAssumption DEF Q!BoundAssumption, QP!BoundAssumption
<1> QED BY <1>1, <1>2, <1>3

LEMMA SameTables ==
    /\ Q!Jobs = QP!Jobs /\ Q!NoRow = QP!NoRow /\ Q!vars = QP!vars /\ Q!Epochs = QP!Epochs
    /\ Q!JobRow = QP!JobRow /\ Q!NodeRow = QP!NodeRow /\ Q!Facts = QP!Facts
  BY DEF Q!Jobs, QP!Jobs, Q!NoRow, QP!NoRow, Q!vars, QP!vars, Q!Epochs, QP!Epochs,
     Q!JobRow, QP!JobRow, Q!NodeRow, QP!NodeRow, Q!Facts, QP!Facts,
     Q!ResultReasons, QP!ResultReasons

LEMMA SameCalls ==
    /\ \A n \in Nodes : Q!RegisterNode(n) <=> QP!RegisterNode(n)
    /\ \A n \in Nodes, e \in Q!Epochs : Q!BumpConnectionEpoch(n, e) <=> QP!BumpConnectionEpoch(n, e)
    /\ \A n \in Nodes, k \in Keys, p \in Payloads : Q!EnqueueJob(n, k, p) <=> QP!EnqueueJob(n, k, p)
<1>1. \A n \in Nodes : Q!RegisterNode(n) <=> QP!RegisterNode(n)
  BY DEF Q!RegisterNode, QP!RegisterNode, Q!NoRow, QP!NoRow
<1>2. \A n \in Nodes, e \in Q!Epochs : Q!BumpConnectionEpoch(n, e) <=> QP!BumpConnectionEpoch(n, e)
  BY DEF Q!BumpConnectionEpoch, QP!BumpConnectionEpoch, Q!Registered, QP!Registered,
     Q!NoRow, QP!NoRow, Q!Audit, QP!Audit
<1>3. Q!InitialStatus = QP!InitialStatus
  BY DEF Q!InitialStatus, QP!InitialStatus, Q!StateMatches, QP!StateMatches, Q!Satisfies, QP!Satisfies
<1>4. \A n \in Nodes, k \in Keys, p \in Payloads : Q!EnqueueJob(n, k, p) <=> QP!EnqueueJob(n, k, p)
  BY <1>3 DEF Q!EnqueueJob, QP!EnqueueJob, Q!Registered, QP!Registered, Q!Exists, QP!Exists,
     Q!NoRow, QP!NoRow, Q!Audit, QP!Audit, Q!AuditJob, QP!AuditJob,
     Q!AdvanceSequence, QP!AdvanceSequence, Q!NewJob, QP!NewJob
<1> QED BY <1>1, <1>2, <1>4

LEMMA SameClaim ==
    ASSUME NEW n \in Nodes, NEW e, NEW x
    PROVE  Q!ClaimNextJob(n, e, x) <=> QP!ClaimNextJob(n, e, x)
  BY DEF Q!ClaimNextJob, QP!ClaimNextJob, Q!Registered, QP!Registered, Q!Exists, QP!Exists,
     Q!NoRow, QP!NoRow, Q!Audit, QP!Audit, Q!Jobs, QP!Jobs,
     Q!ClaimHead, QP!ClaimHead, Q!ClaimNothing, QP!ClaimNothing, Q!Busy, QP!Busy,
     Q!ActiveJobs, QP!ActiveJobs, Q!JobsOf, QP!JobsOf, Q!Claimed, QP!Claimed,
     Q!ClaimableJobs, QP!ClaimableJobs, Q!IsHead, QP!IsHead,
     Q!ClaimTarget, QP!ClaimTarget, Q!ClaimedRow, QP!ClaimedRow,
     Q!TransitionTarget, QP!TransitionTarget, Q!HasTarget, QP!HasTarget,
     Q!AmbiguousTransition, QP!AmbiguousTransition,
     Q!MatchingTransitions, QP!MatchingTransitions, Q!Satisfies, QP!Satisfies,
     Q!StateMatches, QP!StateMatches

LEMMA SameStart ==
    ASSUME NEW j \in Q!Jobs, NEW e, NEW v, NEW g, NEW x
    PROVE  Q!StartExecution(j, e, v, g, x) <=> QP!StartExecution(j, e, v, g, x)
  BY DEF Q!StartExecution, QP!StartExecution, Q!Exists, QP!Exists, Q!NoRow, QP!NoRow,
     Q!Audit, QP!Audit, Q!AuditJob, QP!AuditJob, Q!StartMatches, QP!StartMatches,
     Q!StartTarget, QP!StartTarget, Q!StartedRow, QP!StartedRow,
     Q!TransitionTarget, QP!TransitionTarget, Q!HasTarget, QP!HasTarget,
     Q!AmbiguousTransition, QP!AmbiguousTransition,
     Q!MatchingTransitions, QP!MatchingTransitions, Q!Satisfies, QP!Satisfies

LEMMA SameEnds ==
    ASSUME NEW j \in Q!Jobs, NEW x, NEW e, NEW g, NEW success
    PROVE  /\ Q!RecordResult(j, x, e, g, success) <=> QP!RecordResult(j, x, e, g, success)
           /\ Q!MarkStuck(j) <=> QP!MarkStuck(j)
  BY DEF Q!RecordResult, QP!RecordResult, Q!MarkStuck, QP!MarkStuck, Q!Exists, QP!Exists,
     Q!NoRow, QP!NoRow, Q!Audit, QP!Audit, Q!AuditJob, QP!AuditJob,
     Q!EpochFence, QP!EpochFence, Q!AttemptRunning, QP!AttemptRunning,
     Q!ResultTarget, QP!ResultTarget, Q!StuckTarget, QP!StuckTarget,
     Q!FinishedRow, QP!FinishedRow,
     Q!TransitionTarget, QP!TransitionTarget, Q!HasTarget, QP!HasTarget,
     Q!AmbiguousTransition, QP!AmbiguousTransition,
     Q!MatchingTransitions, QP!MatchingTransitions, Q!Satisfies, QP!Satisfies

LEMMA SameContract ==
    /\ Q!TypeOK <=> QP!TypeOK
    /\ Q!Init <=> QP!Init
    /\ Q!Next <=> QP!Next
<1>1. Q!TypeOK <=> QP!TypeOK
  BY SameTables DEF Q!TypeOK, QP!TypeOK
<1>2. Q!Init <=> QP!Init
  BY SameTables DEF Q!Init, QP!Init
<1>3. Q!Next <=> QP!Next
  BY SameTables, SameCalls, SameClaim, SameStart, SameEnds DEF Q!Next, QP!Next
<1> QED BY <1>1, <1>2, <1>3

\* What QueueV2Proofs shows of the types holds of the shadow's instance.
LEMMA ContractTypeStep == Q!TypeOK /\ [Q!Next]_(Q!vars) => Q!TypeOK'
<1> SUFFICES ASSUME Q!TypeOK, [Q!Next]_(Q!vars) PROVE Q!TypeOK'
  OBVIOUS
<1>1. QP!TypeOK /\ [QP!Next]_(QP!vars)
  BY SameContract, SameTables DEF Q!vars, QP!vars
<1>2. QP!TypeOK'
  BY <1>1, QP!TypeStep, ContractAssumptions
  DEF QP!LifecycleAssumption, QP!JobLifecycleAssumption, QP!BoundAssumption
<1>3. QP!TypeOK' => Q!TypeOK'
  BY SameTables DEF Q!TypeOK, QP!TypeOK
<1> QED BY <1>2, <1>3

-----------------------------------------------------------------------------
(* What a call leaves in the row it writes. *)

\* Row x of the table is untouched by a write of row j.
OthersKept(j) == \A i \in Q!Jobs : i # j => jobs'[i] = jobs[i]

\* A write that leaves the claim of a row alone.
ClaimKept(old, new) ==
    /\ old # NoRow /\ new # NoRow
    /\ new.execution_id = old.execution_id
    /\ new.dispatch_generation = old.dispatch_generation
    /\ new.claimed_connection_epoch = old.claimed_connection_epoch

LEMMA RowIsTyped ==
    ASSUME Q!TypeOK, NEW j \in Q!Jobs, jobs[j] # NoRow PROVE jobs[j] \in Q!JobRow
  BY DEF Q!TypeOK, NoRow

LEMMA NodeIsTyped ==
    ASSUME Q!TypeOK, NEW n \in Nodes, nodes[n] # NoRow PROVE nodes[n] \in Q!NodeRow
  BY DEF Q!TypeOK, NoRow

LEMMA RecordsAreRows == NoRow \notin Q!JobRow /\ NoRow \notin Q!NodeRow
  BY DEF NoRow, Q!NoRow, Q!JobRow, Q!NodeRow

LEMMA EnqueueWrites ==
    ASSUME Q!TypeOK, NEW n \in Nodes, NEW k \in Keys, NEW p, Q!EnqueueJob(n, k, p)
    PROVE  LET j == <<n, k>> IN
           \/ jobs' = jobs
           \/ /\ OthersKept(j) /\ jobs[j] = NoRow /\ jobs'[j] # NoRow
              /\ jobs'[j].execution_id = NULL /\ jobs'[j].dispatch_generation = 0
              /\ jobs'[j].execution_started_at = FALSE /\ jobs'[j].job_version = 1
<1> DEFINE j == <<n, k>>
           row == Q!NewJob(nodes[n].next_node_seq, p)
<1>1. j \in Q!Jobs
  BY DEF Q!Jobs
<1>2. jobs' = jobs \/ (jobs[j] = NoRow /\ jobs' = [jobs EXCEPT ![j] = row])
  BY DEF Q!EnqueueJob, Q!Exists, NoRow
<1>3. /\ row # NoRow
      /\ row.execution_id = NULL /\ row.dispatch_generation = 0
      /\ row.execution_started_at = FALSE /\ row.job_version = 1
  BY DEF Q!NewJob, NoRow, Q!NoRow
<1>4. ASSUME jobs' = [jobs EXCEPT ![j] = row] PROVE OthersKept(j) /\ jobs'[j] = row
  BY <1>1, <1>4 DEF OthersKept, Q!TypeOK
<1> HIDE DEF row
<1> QED BY <1>2, <1>3, <1>4

LEMMA ClaimWrites ==
    ASSUME Q!TypeOK, NEW n \in Nodes, NEW e \in Nat, NEW x \in ExecutionIds,
           Q!ClaimNextJob(n, e, x)
    PROVE  \/ jobs' = jobs
           \/ /\ \A i \in Q!Jobs : jobs[i] # NoRow => jobs[i].execution_id # x
              /\ \E j \in Q!Jobs :
                    /\ OthersKept(j) /\ jobs[j] \in Q!JobRow /\ jobs'[j] # NoRow
                    /\ jobs[j].execution_id = NULL /\ ~jobs[j].terminal_at
                    /\ jobs'[j].execution_id = x /\ jobs'[j].claimed_connection_epoch = e
                    /\ jobs'[j].dispatch_generation = jobs[j].dispatch_generation + 1
                    /\ jobs'[j].job_version = jobs[j].job_version + 1
                    /\ jobs'[j].execution_started_at = jobs[j].execution_started_at
<1>1. CASE Q!ClaimNothing(n, e)
  BY <1>1 DEF Q!ClaimNothing
<1>2. CASE Q!ClaimHead(n, e, x)
  <2>1. \A i \in Q!Jobs : jobs[i] # NoRow => jobs[i].execution_id # x
    BY <1>2 DEF Q!ClaimHead, Q!Exists, NoRow
  <2>2. PICK j \in Q!Jobs :
            /\ Q!IsHead(n, j)
            /\ jobs' = [jobs EXCEPT ![j] =
                  Q!ClaimedRow(@, Q!TransitionTarget(@.status, Q!ClaimTarget[1], Q!ClaimTarget[2]), x, e)]
    BY <1>2 DEF Q!ClaimHead
  <2>3. /\ jobs[j] # NoRow /\ jobs[j].execution_id = NULL /\ ~jobs[j].terminal_at
    BY <2>2 DEF Q!IsHead, Q!ClaimableJobs, Q!JobsOf, Q!Claimed, Q!Exists, NoRow
  <2>4. jobs[j] \in Q!JobRow
    BY <2>3, RowIsTyped
  <2> DEFINE to == Q!TransitionTarget(jobs[j].status, Q!ClaimTarget[1], Q!ClaimTarget[2])
             row == Q!ClaimedRow(jobs[j], to, x, e)
  <2>5. OthersKept(j) /\ jobs'[j] = row
    BY <2>2 DEF OthersKept, Q!TypeOK
  <2> HIDE DEF to
  <2>6. /\ row.execution_id = x /\ row.claimed_connection_epoch = e
        /\ row.dispatch_generation = jobs[j].dispatch_generation + 1
        /\ row.job_version = jobs[j].job_version + 1
        /\ row.execution_started_at = jobs[j].execution_started_at
        /\ "execution_id" \in DOMAIN row
    BY <2>4 DEF Q!ClaimedRow, Q!JobRow
  <2>7. row # NoRow
    BY <2>6 DEF NoRow, Q!NoRow
  <2> QED BY <2>1, <2>3, <2>4, <2>5, <2>6, <2>7
<1> QED BY <1>1, <1>2 DEF Q!ClaimNextJob

LEMMA StartWrites ==
    ASSUME Q!TypeOK, NEW j \in Q!Jobs, NEW e, NEW v, NEW g, NEW x, Q!StartExecution(j, e, v, g, x)
    PROVE  \/ jobs' = jobs
           \/ /\ OthersKept(j) /\ ClaimKept(jobs[j], jobs'[j]) /\ jobs[j].execution_id = x
              /\ jobs'[j].execution_started_at = TRUE
<1>1. CASE jobs' = jobs
  BY <1>1
<1>2. ASSUME NEW to, jobs' = [jobs EXCEPT ![j] = Q!StartedRow(@, to)],
             Q!Exists(j), Q!StartMatches(j, e, v, g, x)
      PROVE  /\ OthersKept(j) /\ ClaimKept(jobs[j], jobs'[j]) /\ jobs[j].execution_id = x
             /\ jobs'[j].execution_started_at = TRUE
  <2>1. jobs[j] # NoRow /\ jobs[j] \in Q!JobRow
    BY <1>2, RowIsTyped DEF Q!Exists, NoRow
  <2> DEFINE row == Q!StartedRow(jobs[j], to)
  <2>2. OthersKept(j) /\ jobs'[j] = row
    BY <1>2 DEF OthersKept, Q!TypeOK
  <2>3. /\ row.execution_id = jobs[j].execution_id
        /\ row.dispatch_generation = jobs[j].dispatch_generation
        /\ row.claimed_connection_epoch = jobs[j].claimed_connection_epoch
        /\ row.execution_started_at = TRUE
        /\ "execution_id" \in DOMAIN row
    BY <2>1 DEF Q!StartedRow, Q!JobRow
  <2>4. row # NoRow
    BY <2>3 DEF NoRow, Q!NoRow
  <2>5. jobs[j].execution_id = x
    BY <1>2 DEF Q!StartMatches
  <2> HIDE DEF row
  <2> QED BY <2>1, <2>2, <2>3, <2>4, <2>5 DEF ClaimKept
<1> QED BY <1>1, <1>2 DEF Q!StartExecution

LEMMA FinishWrites ==
    ASSUME Q!TypeOK, NEW j \in Q!Jobs, jobs[j] # NoRow, NEW to, NEW reason,
           jobs' = [jobs EXCEPT ![j] = Q!FinishedRow(@, to, reason)]
    PROVE  /\ OthersKept(j) /\ ClaimKept(jobs[j], jobs'[j])
           /\ jobs'[j].execution_started_at = jobs[j].execution_started_at
           /\ jobs'[j].terminal_at = TRUE
<1>1. jobs[j] # NoRow /\ jobs[j] \in Q!JobRow
  BY RowIsTyped
<1> DEFINE row == Q!FinishedRow(jobs[j], to, reason)
<1>2. OthersKept(j) /\ jobs'[j] = row
  BY DEF OthersKept, Q!TypeOK
<1>3. /\ row.execution_id = jobs[j].execution_id
      /\ row.dispatch_generation = jobs[j].dispatch_generation
      /\ row.claimed_connection_epoch = jobs[j].claimed_connection_epoch
      /\ row.execution_started_at = jobs[j].execution_started_at
      /\ row.terminal_at = TRUE
      /\ "execution_id" \in DOMAIN row
  BY <1>1 DEF Q!FinishedRow, Q!JobRow
<1>4. row # NoRow
  BY <1>3 DEF NoRow, Q!NoRow
<1> HIDE DEF row
<1> QED BY <1>1, <1>2, <1>3, <1>4 DEF ClaimKept

LEMMA ResultWrites ==
    ASSUME Q!TypeOK, NEW j \in Q!Jobs, NEW x, NEW e, NEW g, NEW success,
           Q!RecordResult(j, x, e, g, success) \/ Q!MarkStuck(j)
    PROVE  \/ jobs' = jobs
           \/ /\ OthersKept(j) /\ ClaimKept(jobs[j], jobs'[j])
              /\ jobs'[j].execution_started_at = jobs[j].execution_started_at
              /\ jobs'[j].terminal_at = TRUE
<1>1. jobs[j] # NoRow
  BY DEF Q!RecordResult, Q!MarkStuck, Q!Exists, NoRow
<1>2. jobs' = jobs \/ \E to, reason : jobs' = [jobs EXCEPT ![j] = Q!FinishedRow(@, to, reason)]
  BY DEF Q!RecordResult, Q!MarkStuck
<1> QED BY <1>1, <1>2, FinishWrites

-----------------------------------------------------------------------------
(* Every step of the shadow is a step of the contract: the epochs, versions  *)
(* and generations it presents are ones the tables have held.                *)

LEMMA KeyHasJob == ASSUME NEW k \in Keys PROVE JobOf(k) \in Q!Jobs /\ DeviceOf[k] \in Nodes
  BY ShadowAssumption DEF JobOf, Q!Jobs

LEMMA PayloadExists == ThePayload \in Payloads
  BY ShadowAssumption DEF ThePayload

LEMMA SocketIsTyped ==
    ASSUME TypeOK, NEW s \in Sockets, sockets[s] # NoRow
    PROVE  sockets[s] \in SocketRow /\ sockets[s].device \in Nodes
  BY DEF TypeOK, SocketRow

LEMMA AttemptIsTyped ==
    ASSUME TypeOK, NEW x \in ExecutionIds, attempts[x] # NoRow
    PROVE  attempts[x] \in AttemptRow /\ attempts[x].key \in Keys
  BY DEF TypeOK, AttemptRow

LEMMA EpochsAreEpochs ==
    ASSUME TypeOK, EpochsReached, NEW s \in Sockets, sockets[s] # NoRow
    PROVE  /\ sockets[s].epoch # NULL => sockets[s].epoch \in Q!Epochs
           /\ sockets[s].step \in {"bump", "resolve"} => sockets[s].seen \in Q!Epochs
<1>1. sockets[s] \in SocketRow /\ sockets[s].device \in Nodes
  BY SocketIsTyped
<1> DEFINE node == nodes[sockets[s].device]
<1>2. node # NoRow => node.connection_epoch \in Nat /\ node.connection_epoch <= MaxEpoch
  BY <1>1, NodeIsTyped DEF TypeOK, Q!NodeRow, EpochsReached, NodeInBound
<1>3. EpochReached(sockets[s], node)
  BY DEF EpochsReached
<1>4. MaxEpoch \in Nat
  BY QueueAssumption DEF Q!BoundAssumption
<1> HIDE DEF node
<1> QED BY <1>1, <1>2, <1>3, <1>4 DEF EpochReached, SocketRow, Q!Epochs

LEMMA Simulates ==
    ASSUME ShadowInv, [Next]_vars PROVE [Q!Next]_(Q!vars)
<1> USE DEF ShadowInv, SocketInv, ClaimInv
<1>0. CASE UNCHANGED <<nodes, jobs, audit>>
  BY <1>0 DEF Q!vars
<1>1. ASSUME NEW s \in Sockets, AuthRegister(s) PROVE Q!Next
  <2>1. sockets[s] # NoRow
    BY <1>1 DEF AuthRegister, At
  <2>2. sockets[s].device \in Nodes
    BY <2>1, SocketIsTyped
  <2> QED BY <1>1, <2>2 DEF AuthRegister, Q!Next
<1>2. ASSUME NEW s \in Sockets, AuthBump(s) PROVE Q!Next
  <2>1. sockets[s] # NoRow /\ sockets[s].step \in {"bump", "resolve"}
    BY <1>2 DEF AuthBump, At
  <2>2. sockets[s].device \in Nodes /\ sockets[s].seen \in Q!Epochs
    BY <2>1, SocketIsTyped, EpochsAreEpochs
  <2> QED BY <1>2, <2>2 DEF AuthBump, Q!Next
<1>3. ASSUME NEW k \in Keys, EnqueueRegister(k) PROVE Q!Next
  BY <1>3, KeyHasJob DEF EnqueueRegister, Q!Next
<1>4. ASSUME NEW k \in Keys, EnqueueInsert(k) PROVE Q!Next
  BY <1>4, KeyHasJob, PayloadExists DEF EnqueueInsert, Q!Next
<1>5. ASSUME NEW x \in ExecutionIds, Claim(x) PROVE Q!Next
  <2>1. attempts[x] # NoRow
    BY <1>5 DEF Claim, AttemptAt
  <2>2. attempts[x].key \in Keys /\ attempts[x].epoch \in Nat
    BY <2>1, AttemptIsTyped DEF AttemptRow
  <2>3. attempts[x].epoch \in Q!Epochs
    BY <2>1, <2>2, QueueAssumption DEF AttemptsBacked, Q!Epochs, Q!BoundAssumption
  <2> QED BY <1>5, <2>2, <2>3, KeyHasJob DEF Claim, Q!Next
<1>6. ASSUME NEW x \in ExecutionIds, Start(x) PROVE Q!Next
  <2>1. attempts[x] # NoRow /\ attempts[x].step = "start"
    BY <1>6 DEF Start, AttemptAt
  <2>2. attempts[x].key \in Keys /\ attempts[x].epoch \in Nat
    BY <2>1, AttemptIsTyped DEF AttemptRow
  <2>3. attempts[x].epoch \in Q!Epochs /\ attempts[x].version = 2
    BY <2>1, <2>2, QueueAssumption DEF AttemptsBacked, Q!Epochs, Q!BoundAssumption
  <2>4. attempts[x].generation = 1
    <3>1. CarriesClaim(jobs[JobOf(attempts[x].key)], x, attempts[x].generation, attempts[x].epoch)
      BY <2>1 DEF AttemptsBacked
    <3>2. ClaimCounted(jobs[JobOf(attempts[x].key)])
      BY <2>2, KeyHasJob DEF RowsCounted
    <3>3. x # NULL
      BY QueueAssumption DEF Q!BoundAssumption
    <3> QED BY <3>1, <3>2, <3>3 DEF CarriesClaim, ClaimCounted
  <2>5. PICK j \in Q!Jobs : Q!StartExecution(j, attempts[x].epoch, 2, 1, x)
    BY <1>6, <2>3, <2>4 DEF Start, CarryingIn
  <2>6. 2 \in 1..4 /\ 1 \in 0..1
    OBVIOUS
  <2> QED BY <2>3, <2>5, <2>6 DEF Q!Next
<1>7. ASSUME NEW s \in Sockets, NEW k \in Keys, NEW success \in BOOLEAN,
             RecordShadowResult(s, k, success)
      PROVE  Q!Next
  <2> DEFINE m == legacyMap[k]
  <2>1. sockets[s] # NoRow /\ sockets[s].epoch # NULL /\ m # NoRow /\ m.attempt_execution_id # NULL
    BY <1>7 DEF RecordShadowResult, Unused, Unmapped
  <2>2. sockets[s].epoch \in Q!Epochs
    BY <2>1, EpochsAreEpochs
  <2>3. m.attempt_execution_id \in ExecutionIds
    BY <2>1 DEF TypeOK, MapRow
  <2>4. m.dispatch_generation = 1
    <3>1. CarriesClaim(jobs[JobOf(k)], m.attempt_execution_id, m.dispatch_generation, m.socket_epoch)
      BY <2>1 DEF MapBacked
    <3>2. ClaimCounted(jobs[JobOf(k)])
      BY KeyHasJob DEF RowsCounted
    <3> QED BY <2>1, <3>1, <3>2 DEF CarriesClaim, ClaimCounted
  <2>5. Q!RecordResult(JobOf(k), m.attempt_execution_id, sockets[s].epoch, 1, success)
    BY <1>7, <2>4 DEF RecordShadowResult
  <2>6. 1 \in 0..1
    OBVIOUS
  <2> HIDE DEF m
  <2> QED BY <2>2, <2>3, <2>5, <2>6, KeyHasJob DEF Q!Next
<1>8. ASSUME NEW j \in Q!Jobs, MarkExpiredActiveStuck(j) PROVE Q!Next
  BY <1>8 DEF MarkExpiredActiveStuck, Q!Next
<1>9. CASE \/ \E d \in Nodes, s \in Sockets : Connect(d, s)
           \/ \E d \in Nodes : Disconnect(d)
           \/ \E s \in Sockets : AuthResolve(s) \/ AuthFails(s)
           \/ \E k \in Keys : EnqueueShadowJob(k) \/ EnqueueFails(k) \/ DeadlinePasses(k)
           \/ \E k \in Keys, x \in ExecutionIds : Dispatch(k, x)
           \/ \E x \in ExecutionIds : UpdateMap(x) \/ AttemptEnds(x)
           \/ Restart
           \/ UNCHANGED vars
  BY <1>0, <1>9 DEF Connect, Disconnect, AuthResolve, AuthFails, EnqueueShadowJob, EnqueueFails,
     DeadlinePasses, Dispatch, UpdateMap, AttemptEnds, Restart, vars
<1> QED BY <1>1, <1>2, <1>3, <1>4, <1>5, <1>6, <1>7, <1>8, <1>9 DEF Next

-----------------------------------------------------------------------------
(* Types. *)

\* The tables of the runtime, without those of the contract.
RuntimeTyped ==
    /\ legacyMap \in [Keys -> MapRow \cup {NoRow}]
    /\ connections \in [Nodes -> Sockets \cup {NULL}]
    /\ sockets \in [Sockets -> SocketRow \cup {NoRow}]
    /\ enqueues \in [Keys -> EnqueueSteps]
    /\ attempts \in [ExecutionIds -> AttemptRow \cup {NoRow}]
    /\ sent \subseteq Keys
    /\ passed \in [Keys -> 0..ResultDeadline]

LEMMA NodeAfterCall ==
    ASSUME TypeOK, Q!TypeOK', NEW n \in Nodes, NEW e,
           Q!RegisterNode(n) \/ Q!BumpConnectionEpoch(n, e)
    PROVE  nodes'[n] # NoRow /\ nodes'[n].connection_epoch \in Nat
<1>1. nodes'[n] # NoRow
  <2>1. CASE Q!RegisterNode(n)
    <3>1. nodes'[n] = (IF nodes[n] = NoRow THEN [next_node_seq |-> 1, connection_epoch |-> 0] ELSE nodes[n])
      BY <2>1 DEF Q!RegisterNode, TypeOK, Q!TypeOK, NoRow
    <3> QED BY <3>1 DEF NoRow, Q!NoRow
  <2>2. CASE Q!BumpConnectionEpoch(n, e)
    <3>1. nodes[n] # NoRow /\ nodes[n] \in Q!NodeRow
      BY <2>2, NodeIsTyped DEF Q!BumpConnectionEpoch, Q!Registered, NoRow, TypeOK
    <3>2. CASE nodes' = nodes
      BY <3>1, <3>2
    <3>3. CASE nodes' = [nodes EXCEPT ![n].connection_epoch = @ + 1]
      <4>1. nodes'[n] = [nodes[n] EXCEPT !.connection_epoch = @ + 1]
        BY <3>3 DEF TypeOK, Q!TypeOK
      <4>2. nodes'[n] \in Q!NodeRow
        BY <3>1, <4>1 DEF Q!NodeRow
      <4> QED BY <4>2, RecordsAreRows
    <3> QED BY <2>2, <3>2, <3>3 DEF Q!BumpConnectionEpoch
  <2> QED BY <2>1, <2>2
<1>2. nodes'[n] \in Q!NodeRow
  BY <1>1 DEF Q!TypeOK, NoRow
<1> QED BY <1>1, <1>2 DEF Q!NodeRow

LEMMA SocketStepTyped ==
    ASSUME ShadowInv, Q!TypeOK', NEW s \in Sockets,
           AuthRegister(s) \/ AuthBump(s) \/ AuthResolve(s) \/ AuthFails(s)
    PROVE  sockets' \in [Sockets -> SocketRow \cup {NoRow}]
<1>0. TypeOK /\ sockets[s] # NoRow
  BY DEF ShadowInv, AuthRegister, AuthBump, AuthResolve, AuthFails, At
<1>1. sockets[s] \in SocketRow /\ sockets[s].device \in Nodes
  BY <1>0, SocketIsTyped
<1>2. ASSUME AuthRegister(s) \/ AuthBump(s) PROVE nodes'[sockets[s].device].connection_epoch \in Nat
  BY <1>0, <1>1, <1>2, NodeAfterCall DEF AuthRegister, AuthBump
<1>3. CASE AuthRegister(s)
  <2> DEFINE row == [sockets[s] EXCEPT !.step = "bump", !.seen = nodes'[sockets[s].device].connection_epoch]
  <2>1. row \in SocketRow
    BY <1>1, <1>2, <1>3 DEF SocketRow, AuthSteps
  <2>2. sockets' = [sockets EXCEPT ![s] = row]
    BY <1>0, <1>3 DEF AuthRegister, TypeOK
  <2> HIDE DEF row
  <2> QED BY <1>0, <2>1, <2>2 DEF TypeOK
<1>4. CASE AuthBump(s)
  <2> DEFINE row == [sockets[s] EXCEPT !.step = "resolve", !.seen = nodes'[sockets[s].device].connection_epoch]
  <2>1. row \in SocketRow
    BY <1>1, <1>2, <1>4 DEF SocketRow, AuthSteps
  <2>2. sockets' = [sockets EXCEPT ![s] = row]
    BY <1>0, <1>4 DEF AuthBump, TypeOK
  <2> HIDE DEF row
  <2> QED BY <1>0, <2>1, <2>2 DEF TypeOK
<1>5. CASE AuthResolve(s)
  <2> DEFINE row == [sockets[s] EXCEPT !.step = "done",
                       !.epoch = IF connections[sockets[s].device] = s THEN sockets[s].seen ELSE @]
  <2>1. row \in SocketRow
    BY <1>1 DEF SocketRow, AuthSteps
  <2>2. sockets' = [sockets EXCEPT ![s] = row]
    BY <1>0, <1>5 DEF AuthResolve, TypeOK
  <2> HIDE DEF row
  <2> QED BY <1>0, <2>1, <2>2 DEF TypeOK
<1>6. CASE AuthFails(s)
  <2> DEFINE row == [sockets[s] EXCEPT !.step = "done"]
  <2>1. row \in SocketRow
    BY <1>1 DEF SocketRow, AuthSteps
  <2>2. sockets' = [sockets EXCEPT ![s] = row]
    BY <1>0, <1>6 DEF AuthFails, TypeOK
  <2> HIDE DEF row
  <2> QED BY <1>0, <2>1, <2>2 DEF TypeOK
<1> QED BY <1>3, <1>4, <1>5, <1>6

\* AfterClaim goes on with the version and generation of a row that exists.
LEMMA AfterClaimTyped ==
    ASSUME Q!TypeOK', NEW a \in AttemptRow, NEW x
    PROVE  AfterClaim(a, x, jobs') \in AttemptRow
<1> DEFINE j == JobOf(a.key)
<1>1. CASE j \notin CarryingIn(jobs', x)
  BY <1>1 DEF AfterClaim, AttemptRow, AttemptSteps
<1>2. CASE j \in CarryingIn(jobs', x)
  <2>1. jobs'[j] \in Q!JobRow
    BY <1>2 DEF CarryingIn, Q!TypeOK, NoRow
  <2>2. jobs'[j].job_version \in Nat /\ jobs'[j].dispatch_generation \in Nat
    BY <2>1 DEF Q!JobRow
  <2>3. AfterClaim(a, x, jobs') = [a EXCEPT !.step = "start", !.version = jobs'[j].job_version,
                                            !.generation = jobs'[j].dispatch_generation]
    BY <1>2 DEF AfterClaim
  <2> HIDE DEF j
  <2> QED BY <2>2, <2>3 DEF AttemptRow, AttemptSteps
<1> QED BY <1>1, <1>2

LEMMA AttemptStepTyped ==
    ASSUME ShadowInv, Q!TypeOK', NEW x \in ExecutionIds,
           Claim(x) \/ Start(x) \/ UpdateMap(x) \/ AttemptEnds(x)
    PROVE  attempts' \in [ExecutionIds -> AttemptRow \cup {NoRow}]
<1>0. TypeOK /\ attempts[x] # NoRow
  BY DEF ShadowInv, Claim, Start, UpdateMap, AttemptEnds, AttemptAt
<1>1. attempts[x] \in AttemptRow
  BY <1>0, AttemptIsTyped
<1>2. CASE Claim(x)
  <2>1. AfterClaim(attempts[x], x, jobs') \in AttemptRow
    BY <1>1, AfterClaimTyped
  <2>2. attempts' = [attempts EXCEPT ![x] = AfterClaim(attempts[x], x, jobs')]
    BY <1>0, <1>2 DEF Claim, TypeOK
  <2> QED BY <1>0, <2>1, <2>2 DEF TypeOK
<1>3. CASE Start(x)
  <2>1. PICK j \in Q!Jobs : /\ jobs[j] # NoRow
                            /\ Q!StartExecution(j, attempts[x].epoch, attempts[x].version,
                                                attempts[x].generation, x)
                            /\ attempts' = [attempts EXCEPT ![x].step = "map",
                                              ![x].generation = jobs'[j].dispatch_generation]
    BY <1>3 DEF Start, CarryingIn
  <2>2. jobs'[j] # NoRow
    BY <1>0, <2>1, StartWrites DEF TypeOK, ClaimKept
  <2>3. jobs'[j].dispatch_generation \in Nat
    BY <2>2 DEF Q!TypeOK, Q!JobRow, NoRow
  <2> DEFINE row == [attempts[x] EXCEPT !.step = "map", !.generation = jobs'[j].dispatch_generation]
  <2>4. row \in AttemptRow
    BY <1>1, <2>3 DEF AttemptRow, AttemptSteps
  <2>5. attempts' = [attempts EXCEPT ![x] = row]
    BY <1>0, <2>1 DEF TypeOK
  <2> HIDE DEF row
  <2> QED BY <1>0, <2>4, <2>5 DEF TypeOK
<1>4. CASE UpdateMap(x) \/ AttemptEnds(x)
  <2> DEFINE row == [attempts[x] EXCEPT !.step = "done"]
  <2>1. row \in AttemptRow
    BY <1>1 DEF AttemptRow, AttemptSteps
  <2>2. attempts' = [attempts EXCEPT ![x] = row]
    BY <1>0, <1>4 DEF TypeOK, UpdateMap, AttemptEnds
  <2> HIDE DEF row
  <2> QED BY <1>0, <2>1, <2>2 DEF TypeOK
<1> QED BY <1>2, <1>3, <1>4

LEMMA DispatchTyped ==
    ASSUME ShadowInv, NEW k \in Keys, NEW x \in ExecutionIds, Dispatch(k, x)
    PROVE  /\ attempts' \in [ExecutionIds -> AttemptRow \cup {NoRow}]
           /\ sent' \subseteq Keys
<1> DEFINE d == DeviceOf[k]
           s == connections[d]
<1>1. TypeOK /\ Connected /\ d \in Nodes
  BY KeyHasJob DEF ShadowInv, SocketInv
<1>2. s # NULL
  BY DEF Dispatch
<1>3. s \in Sockets /\ sockets[s] # NoRow
  BY <1>1, <1>2 DEF TypeOK, Connected
<1>4. sockets[s] \in SocketRow
  BY <1>1, <1>3, SocketIsTyped
<1>5. EpochOf(d) \in Nat \cup {NULL}
  BY <1>2, <1>4 DEF EpochOf, SocketRow
<1>6. sent' \subseteq Keys
  BY <1>1 DEF Dispatch, TypeOK
<1>7. CASE EpochOf(d) = NULL
  <2>1. attempts' = attempts
    BY <1>7 DEF Dispatch
  <2> QED BY <1>1, <1>6, <2>1 DEF TypeOK
<1>8. CASE EpochOf(d) # NULL
  <2> DEFINE row == [key |-> k, epoch |-> EpochOf(d), step |-> "claim", version |-> 0, generation |-> 0]
  <2>1. attempts' = [attempts EXCEPT ![x] = row]
    BY <1>8 DEF Dispatch
  <2>2. row \in AttemptRow
    BY <1>5, <1>8 DEF AttemptRow, AttemptSteps
  <2> HIDE DEF row
  <2> QED BY <1>1, <1>6, <2>1, <2>2 DEF TypeOK
<1> QED BY <1>7, <1>8

LEMMA TypeStep == ASSUME ShadowInv, [Next]_vars PROVE TypeOK'
<1>0. TypeOK /\ Q!TypeOK' /\ RuntimeTyped
  BY Simulates, ContractTypeStep DEF ShadowInv, TypeOK, RuntimeTyped
<1> SUFFICES RuntimeTyped'
  BY <1>0 DEF TypeOK, RuntimeTyped
<1>1. ASSUME NEW d \in Nodes, NEW s \in Sockets, Connect(d, s) PROVE RuntimeTyped'
  <2> DEFINE row == [device |-> d, epoch |-> NULL, step |-> "register", seen |-> NULL]
  <2>1. row \in SocketRow
    BY DEF SocketRow, AuthSteps
  <2>2. sockets' = [sockets EXCEPT ![s] = row]
    BY <1>1 DEF Connect
  <2> HIDE DEF row
  <2>3. sockets' \in [Sockets -> SocketRow \cup {NoRow}]
    BY <1>0, <2>1, <2>2 DEF RuntimeTyped
  <2>4. connections' \in [Nodes -> Sockets \cup {NULL}]
    BY <1>0, <1>1 DEF RuntimeTyped, Connect
  <2> QED BY <1>0, <1>1, <2>3, <2>4 DEF RuntimeTyped, Connect
<1>2. ASSUME NEW d \in Nodes, Disconnect(d) PROVE RuntimeTyped'
  BY <1>0, <1>2 DEF RuntimeTyped, Disconnect
<1>3. ASSUME NEW s \in Sockets, AuthRegister(s) \/ AuthBump(s) \/ AuthResolve(s) \/ AuthFails(s)
      PROVE RuntimeTyped'
  <2>1. sockets' \in [Sockets -> SocketRow \cup {NoRow}]
    BY <1>0, <1>3, SocketStepTyped
  <2> QED BY <1>0, <1>3, <2>1 DEF RuntimeTyped, AuthRegister, AuthBump, AuthResolve, AuthFails
<1>4. ASSUME NEW k \in Keys, EnqueueShadowJob(k) \/ EnqueueRegister(k) \/ EnqueueFails(k)
      PROVE RuntimeTyped'
  BY <1>0, <1>4 DEF RuntimeTyped, EnqueueShadowJob, EnqueueRegister, EnqueueFails, EnqueueSteps
<1>5. ASSUME NEW k \in Keys, EnqueueInsert(k) PROVE RuntimeTyped'
  <2> DEFINE row == [attempt_execution_id |-> NULL, dispatch_generation |-> NULL, socket_epoch |-> NULL]
             new == IF legacyMap[k] = NoRow THEN row ELSE legacyMap[k]
  <2>1. new \in MapRow \cup {NoRow}
    BY <1>0 DEF MapRow, RuntimeTyped
  <2>2. legacyMap' = [legacyMap EXCEPT ![k] = new]
    BY <1>0, <1>5 DEF EnqueueInsert, RuntimeTyped
  <2> HIDE DEF new
  <2>3. legacyMap' \in [Keys -> MapRow \cup {NoRow}]
    BY <1>0, <2>1, <2>2 DEF RuntimeTyped
  <2>4. enqueues' \in [Keys -> EnqueueSteps]
    BY <1>0, <1>5 DEF RuntimeTyped, EnqueueInsert, EnqueueSteps
  <2> QED BY <1>0, <1>5, <2>3, <2>4 DEF RuntimeTyped, EnqueueInsert
<1>6. ASSUME NEW k \in Keys, NEW x \in ExecutionIds, Dispatch(k, x) PROVE RuntimeTyped'
  BY <1>0, <1>6, DispatchTyped DEF RuntimeTyped, Dispatch
<1>7. ASSUME NEW x \in ExecutionIds, Claim(x) \/ Start(x) \/ AttemptEnds(x) PROVE RuntimeTyped'
  <2>1. attempts' \in [ExecutionIds -> AttemptRow \cup {NoRow}]
    BY <1>0, <1>7, AttemptStepTyped
  <2>2. UNCHANGED <<legacyMap, connections, sockets, enqueues, sent, passed>>
    BY <1>7 DEF Claim, Start, AttemptEnds
  <2> QED BY <1>0, <2>1, <2>2 DEF RuntimeTyped
<1>8. ASSUME NEW x \in ExecutionIds, UpdateMap(x) PROVE RuntimeTyped'
  <2>1. attempts' \in [ExecutionIds -> AttemptRow \cup {NoRow}]
    BY <1>0, <1>8, AttemptStepTyped
  <2>2. attempts[x] \in AttemptRow
    BY <1>0, <1>8, AttemptIsTyped DEF UpdateMap, AttemptAt
  <2> DEFINE row == [attempt_execution_id |-> x, dispatch_generation |-> attempts[x].generation,
                     socket_epoch |-> attempts[x].epoch]
  <2>3. row \in MapRow /\ attempts[x].key \in Keys
    BY <2>2 DEF AttemptRow, MapRow
  <2>4. legacyMap' = [legacyMap EXCEPT ![attempts[x].key] = row]
    BY <1>8 DEF UpdateMap
  <2> HIDE DEF row
  <2>5. legacyMap' \in [Keys -> MapRow \cup {NoRow}]
    BY <1>0, <2>3, <2>4 DEF RuntimeTyped
  <2> QED BY <1>0, <1>8, <2>1, <2>5 DEF RuntimeTyped, UpdateMap
<1>9. ASSUME NEW k \in Keys, DeadlinePasses(k) PROVE RuntimeTyped'
  BY <1>0, <1>9 DEF RuntimeTyped, DeadlinePasses, ResultDeadline, memory
<1>10. ASSUME Restart PROVE RuntimeTyped'
  <2>1. \A s \in Sockets : sockets[s] # NoRow =>
            [sockets[s] EXCEPT !.step = "done", !.epoch = NULL] \in SocketRow
    BY <1>0, SocketIsTyped DEF SocketRow, AuthSteps
  <2>2. sockets' \in [Sockets -> SocketRow \cup {NoRow}]
    BY <1>10, <2>1 DEF Restart, Unused
  <2>3. \A x \in ExecutionIds : attempts[x] # NoRow => [attempts[x] EXCEPT !.step = "done"] \in AttemptRow
    BY <1>0, AttemptIsTyped DEF AttemptRow, AttemptSteps
  <2>4. attempts' \in [ExecutionIds -> AttemptRow \cup {NoRow}]
    BY <1>10, <2>3 DEF Restart, Unused
  <2>5. enqueues' \in [Keys -> EnqueueSteps]
    BY <1>0, <1>10 DEF Restart, RuntimeTyped, EnqueueSteps
  <2>6. connections' \in [Nodes -> Sockets \cup {NULL}]
    BY <1>10 DEF Restart
  <2> QED BY <1>0, <1>10, <2>2, <2>4, <2>5, <2>6 DEF Restart, RuntimeTyped
<1>11. CASE \/ \E s \in Sockets, k \in Keys, success \in BOOLEAN : RecordShadowResult(s, k, success)
            \/ \E j \in Q!Jobs : MarkExpiredActiveStuck(j)
            \/ UNCHANGED vars
  <2>1. UNCHANGED <<legacyMap, memory, sent, passed>>
    BY <1>11 DEF RecordShadowResult, MarkExpiredActiveStuck, vars
  <2> QED BY <1>0, <2>1 DEF RuntimeTyped, memory
<1> QED BY <1>1, <1>2, <1>3, <1>4, <1>5, <1>6, <1>7, <1>8, <1>9, <1>10, <1>11 DEF Next

-----------------------------------------------------------------------------
(* Sockets and epochs. *)

\* A phone's row stays, and its epoch only grows, up to the bound.
NodeFollows(old, new) ==
    /\ old \in Q!NodeRow \cup {NoRow} /\ new \in Q!NodeRow \cup {NoRow}
    /\ NodeInBound(new)
    /\ old # NoRow => new # NoRow /\ new.connection_epoch >= old.connection_epoch

LEMMA NodesFollow ==
    ASSUME ShadowInv, [Next]_vars, NEW n \in Nodes PROVE NodeFollows(nodes[n], nodes'[n])
<1>0. /\ Q!TypeOK /\ Q!TypeOK' /\ [Q!Next]_(Q!vars) /\ NodeInBound(nodes[n])
  BY Simulates, TypeStep DEF ShadowInv, SocketInv, EpochsReached, TypeOK
<1>1. nodes[n] \in Q!NodeRow \cup {NoRow} /\ nodes'[n] \in Q!NodeRow \cup {NoRow}
  BY <1>0 DEF Q!TypeOK, NoRow
<1>2. CASE nodes'[n] = nodes[n]
  BY <1>0, <1>1, <1>2 DEF NodeFollows, Q!NodeRow
<1>3. ASSUME NEW m \in Nodes, Q!RegisterNode(m) PROVE NodeFollows(nodes[n], nodes'[n])
  <2>1. \/ nodes'[n] = nodes[n]
        \/ nodes[n] = NoRow /\ nodes'[n] = [next_node_seq |-> 1, connection_epoch |-> 0]
    BY <1>0, <1>3 DEF Q!RegisterNode, Q!TypeOK, NoRow
  <2>2. MaxEpoch \in Nat
    BY QueueAssumption DEF Q!BoundAssumption
  <2> QED BY <1>1, <1>2, <2>1, <2>2 DEF NodeFollows, NodeInBound
<1>4. ASSUME NEW m \in Nodes, NEW e \in Q!Epochs, Q!BumpConnectionEpoch(m, e)
      PROVE  NodeFollows(nodes[n], nodes'[n])
  <2>1. CASE nodes' = [nodes EXCEPT ![m].connection_epoch = @ + 1]
             /\ nodes[m].connection_epoch < MaxEpoch /\ m = n
    <3>1. nodes[n] # NoRow /\ nodes[n] \in Q!NodeRow
      BY <1>1, <1>4, <2>1 DEF Q!BumpConnectionEpoch, Q!Registered, NoRow
    <3>2. nodes'[n] = [nodes[n] EXCEPT !.connection_epoch = @ + 1]
      BY <1>0, <2>1 DEF Q!TypeOK
    <3>3. nodes'[n].connection_epoch = nodes[n].connection_epoch + 1 /\ nodes'[n] \in Q!NodeRow
      BY <3>1, <3>2 DEF Q!NodeRow
    <3>4. nodes[n].connection_epoch \in Nat /\ MaxEpoch \in Nat
      BY <3>1, QueueAssumption DEF Q!NodeRow, Q!BoundAssumption
    <3> QED BY <1>1, <2>1, <3>1, <3>3, <3>4, RecordsAreRows DEF NodeFollows, NodeInBound
  <2>2. \/ nodes' = [nodes EXCEPT ![m].connection_epoch = @ + 1]
           /\ nodes[m].connection_epoch < MaxEpoch
        \/ nodes' = nodes
    BY <1>4 DEF Q!BumpConnectionEpoch
  <2>3. nodes'[n] = nodes[n] \/ m = n
    BY <1>0, <2>2 DEF Q!TypeOK
  <2> QED BY <1>2, <2>1, <2>2, <2>3
<1>5. ASSUME NEW m \in Nodes, NEW k \in Keys, NEW p \in Payloads, Q!EnqueueJob(m, k, p)
      PROVE  NodeFollows(nodes[n], nodes'[n])
  <2>1. CASE nodes' = [nodes EXCEPT ![m].next_node_seq = @ + 1] /\ m = n
    <3>1. nodes[n] # NoRow /\ nodes[n] \in Q!NodeRow
      BY <1>1, <1>5, <2>1 DEF Q!EnqueueJob, Q!Registered, NoRow
    <3>2. nodes'[n] = [nodes[n] EXCEPT !.next_node_seq = @ + 1]
      BY <1>0, <2>1 DEF Q!TypeOK
    <3>3. nodes'[n].connection_epoch = nodes[n].connection_epoch /\ nodes'[n] \in Q!NodeRow
      BY <3>1, <3>2 DEF Q!NodeRow
    <3>4. nodes[n].connection_epoch \in Nat
      BY <3>1 DEF Q!NodeRow
    <3> QED BY <1>0, <1>1, <3>1, <3>3, <3>4, RecordsAreRows DEF NodeFollows, NodeInBound
  <2>2. nodes' = [nodes EXCEPT ![m].next_node_seq = @ + 1] \/ nodes' = nodes
    BY <1>5 DEF Q!EnqueueJob, Q!AdvanceSequence
  <2>3. nodes'[n] = nodes[n] \/ m = n
    BY <1>0, <2>2 DEF Q!TypeOK
  <2> QED BY <1>2, <2>1, <2>2, <2>3
<1>6. ASSUME \/ \E m \in Nodes, e \in Q!Epochs, x \in ExecutionIds : Q!ClaimNextJob(m, e, x)
             \/ \E j \in Q!Jobs, e \in Q!Epochs, v \in 1..4, g \in 0..1, x \in ExecutionIds :
                   Q!StartExecution(j, e, v, g, x)
             \/ \E j \in Q!Jobs, x \in ExecutionIds, e \in Q!Epochs, g \in 0..1, s \in BOOLEAN :
                   Q!RecordResult(j, x, e, g, s)
             \/ \E j \in Q!Jobs : Q!MarkStuck(j)
             \/ UNCHANGED Q!vars
      PROVE  nodes' = nodes
  <2>1. ASSUME NEW m \in Nodes, NEW e \in Q!Epochs, NEW x \in ExecutionIds, Q!ClaimNextJob(m, e, x)
        PROVE  nodes' = nodes
    BY <2>1 DEF Q!ClaimNextJob, Q!ClaimHead, Q!ClaimNothing
  <2>2. ASSUME NEW j \in Q!Jobs, NEW e \in Q!Epochs, NEW v \in 1..4, NEW g \in 0..1,
               NEW x \in ExecutionIds, Q!StartExecution(j, e, v, g, x)
        PROVE  nodes' = nodes
    BY <2>2 DEF Q!StartExecution
  <2>3. ASSUME NEW j \in Q!Jobs, NEW x \in ExecutionIds, NEW e \in Q!Epochs, NEW g \in 0..1,
               NEW s \in BOOLEAN, Q!RecordResult(j, x, e, g, s)
        PROVE  nodes' = nodes
    BY <2>3 DEF Q!RecordResult
  <2>4. ASSUME NEW j \in Q!Jobs, Q!MarkStuck(j) PROVE nodes' = nodes
    BY <2>4 DEF Q!MarkStuck
  <2>5. CASE UNCHANGED Q!vars
    BY <2>5 DEF Q!vars
  <2> QED BY <1>6, <2>1, <2>2, <2>3, <2>4, <2>5
<1> QED BY <1>0, <1>2, <1>3, <1>4, <1>5, <1>6 DEF Q!Next

LEMMA ReachedStays ==
    ASSUME NEW row \in SocketRow \cup {NoRow}, NEW old, NEW new,
           EpochReached(row, old), NodeFollows(old, new)
    PROVE  EpochReached(row, new)
<1>0. row \in SocketRow \/ row = NoRow
  OBVIOUS
<1>1. old # NoRow => /\ new # NoRow /\ old.connection_epoch \in Nat /\ new.connection_epoch \in Nat
                     /\ new.connection_epoch >= old.connection_epoch
  BY DEF NodeFollows, Q!NodeRow
<1>2. row \in SocketRow => row.epoch \in Nat \cup {NULL} /\ row.seen \in Nat \cup {NULL}
  BY DEF SocketRow
<1>3. CASE row = NoRow
  BY <1>3 DEF EpochReached
<1>4. CASE row \in SocketRow /\ row # NoRow
  <2>1. row.epoch # NULL => row.epoch \in Nat /\ new # NoRow /\ row.epoch <= new.connection_epoch
    BY <1>1, <1>2, <1>4 DEF EpochReached
  <2>2. row.step \in {"bump", "resolve"} =>
            new # NoRow /\ row.seen # NULL /\ row.seen <= new.connection_epoch
    BY <1>1, <1>2, <1>4 DEF EpochReached
  <2> QED BY <2>1, <2>2 DEF EpochReached
<1> QED BY <1>0, <1>3, <1>4

\* Sockets and registry unchanged: only the phones' epochs may have grown.
LEMMA SocketsKept ==
    ASSUME ShadowInv, [Next]_vars, sockets' = sockets, connections' = connections
    PROVE  SocketInv'
<1>1. TypeOK /\ SocketInv
  BY DEF ShadowInv
<1>2. \A n \in Nodes : NodeInBound(nodes'[n])
  BY NodesFollow DEF NodeFollows
<1>3. ASSUME NEW s \in Sockets, sockets[s] # NoRow
      PROVE  EpochReached(sockets[s], nodes'[sockets[s].device])
  <2>1. sockets[s] \in SocketRow /\ sockets[s].device \in Nodes
    BY <1>1, <1>3, SocketIsTyped
  <2>2. EpochReached(sockets[s], nodes[sockets[s].device])
    BY <1>1, <1>3 DEF SocketInv, EpochsReached
  <2> QED BY <2>1, <2>2, NodesFollow, ReachedStays
<1>4. EpochsReached'
  BY <1>2, <1>3 DEF EpochsReached
<1> QED BY <1>1, <1>4 DEF SocketInv, Connected, RegisteredIsAhead, EpochNamesOneSocket, Unused

\* The sockets a step does not touch stay within their phones' epochs.
LEMMA OthersReached ==
    ASSUME ShadowInv, [Next]_vars, NEW t \in Sockets, sockets[t] # NoRow, sockets'[t] = sockets[t]
    PROVE  EpochReached(sockets'[t], nodes'[sockets'[t].device])
<1>1. TypeOK /\ SocketInv
  BY DEF ShadowInv
<1>2. sockets[t] \in SocketRow /\ sockets[t].device \in Nodes
  BY <1>1, SocketIsTyped
<1>3. EpochReached(sockets[t], nodes[sockets[t].device])
  BY <1>1 DEF SocketInv, EpochsReached
<1> QED BY <1>2, <1>3, NodesFollow, ReachedStays

\* One socket's authentication moves on.  It may take an epoch only while it is
\* registered, and then one no other socket of the phone holds.
LEMMA OneSocketMoves ==
    ASSUME ShadowInv, [Next]_vars, NEW s \in Sockets, sockets[s] # NoRow, sockets'[s] # NoRow,
           connections' = connections,
           \A t \in Sockets : t # s => sockets'[t] = sockets[t],
           sockets'[s].device = sockets[s].device,
           EpochReached(sockets'[s], nodes'[sockets[s].device]),
           connections[sockets[s].device] = s =>
              \A t \in Sockets : t # s => AheadOf(sockets'[s], sockets[t]),
           \/ sockets'[s].epoch = sockets[s].epoch
           \/ /\ connections[sockets[s].device] = s
              /\ \A t \in Sockets : t # s /\ sockets[t] # NoRow /\ sockets[t].device = sockets[s].device
                                       => sockets'[s].epoch # sockets[t].epoch
    PROVE  SocketInv'
<1>1. TypeOK /\ Connected /\ EpochsReached /\ RegisteredIsAhead /\ EpochNamesOneSocket
  BY DEF ShadowInv, SocketInv
<1>2. Connected'
  BY <1>1 DEF Connected, TypeOK
<1>3. EpochsReached'
  <2>1. \A n \in Nodes : NodeInBound(nodes'[n])
    BY NodesFollow DEF NodeFollows
  <2>2. ASSUME NEW t \in Sockets, sockets'[t] # NoRow
        PROVE  EpochReached(sockets'[t], nodes'[sockets'[t].device])
    <3>1. CASE t = s
      BY <3>1
    <3>2. CASE t # s
      BY <2>2, <3>2, OthersReached
    <3> QED BY <3>1, <3>2
  <2> QED BY <2>1, <2>2 DEF EpochsReached
<1>4. RegisteredIsAhead'
  <2> SUFFICES ASSUME NEW u \in Sockets, NEW t \in Sockets, u # t, sockets'[u] # NoRow,
                      connections[sockets'[u].device] = u
               PROVE  AheadOf(sockets'[u], sockets'[t])
    BY DEF RegisteredIsAhead
  <2>1. CASE u = s
    BY <2>1
  <2>2. CASE u # s /\ t # s
    BY <1>1, <2>2 DEF RegisteredIsAhead
  <2>3. CASE u # s /\ t = s
    <3>1. AheadOf(sockets[u], sockets[s]) /\ sockets'[u] = sockets[u]
      BY <1>1, <2>3 DEF RegisteredIsAhead
    <3>2. CASE sockets'[s].epoch = sockets[s].epoch
      BY <2>3, <3>1, <3>2 DEF AheadOf
    <3>3. CASE connections[sockets[s].device] = s
      BY <2>3, <3>1, <3>3 DEF AheadOf
    <3> QED BY <3>2, <3>3
  <2> QED BY <2>1, <2>2, <2>3
<1>5. EpochNamesOneSocket'
  <2> SUFFICES ASSUME NEW u \in Sockets, NEW t \in Sockets, u # t,
                      sockets'[u] # NoRow, sockets'[t] # NoRow,
                      sockets'[u].device = sockets'[t].device,
                      sockets'[u].epoch # NULL, sockets'[u].epoch = sockets'[t].epoch
               PROVE  FALSE
    BY DEF EpochNamesOneSocket, Unused
  <2>0. \A p, q \in Sockets : p # q /\ sockets[p] # NoRow /\ sockets[q] # NoRow
            /\ sockets[p].device = sockets[q].device /\ sockets[p].epoch # NULL
            => sockets[p].epoch # sockets[q].epoch
    BY <1>1 DEF EpochNamesOneSocket, Unused
  <2>1. CASE u # s /\ t # s
    BY <2>0, <2>1
  <2>2. CASE u = s \/ t = s
    BY <2>0, <2>2
  <2> QED BY <2>1, <2>2
<1> QED BY <1>2, <1>3, <1>4, <1>5 DEF SocketInv

\* The epoch a call returns to the socket that made it.
LEMMA SeenIsTheNodes ==
    ASSUME ShadowInv, [Next]_vars, NEW s \in Sockets, AuthRegister(s) \/ AuthBump(s)
    PROVE  LET d == sockets[s].device
               epoch == nodes'[d].connection_epoch
           IN  /\ TypeOK /\ SocketInv /\ sockets[s] \in SocketRow /\ sockets[s] # NoRow /\ d \in Nodes
               /\ nodes'[d] # NoRow /\ epoch \in Nat
               /\ \A t \in Sockets : t # s => sockets'[t] = sockets[t]
               /\ connections' = connections
               /\ sockets'[s] # NoRow
               /\ sockets'[s].device = d /\ sockets'[s].epoch = sockets[s].epoch
               /\ sockets'[s].seen = epoch
               /\ EpochReached(sockets'[s], nodes'[d])
<1> DEFINE d == sockets[s].device
           epoch == nodes'[d].connection_epoch
<1>1. TypeOK /\ SocketInv /\ sockets[s] # NoRow
  BY DEF ShadowInv, AuthRegister, AuthBump, At
<1>2. sockets[s] \in SocketRow /\ d \in Nodes
  BY <1>1, SocketIsTyped
<1>3. nodes'[d] # NoRow /\ epoch \in Nat
  <2>1. Q!TypeOK'
    BY TypeStep DEF TypeOK
  <2> QED BY <1>1, <1>2, <2>1, NodeAfterCall DEF AuthRegister, AuthBump
<1>4. PICK step \in {"bump", "resolve"} :
          sockets' = [sockets EXCEPT ![s] = [sockets[s] EXCEPT !.step = step, !.seen = epoch]]
  BY <1>1 DEF AuthRegister, AuthBump, TypeOK
<1>5. \A t \in Sockets : t # s => sockets'[t] = sockets[t]
  BY <1>1, <1>4 DEF TypeOK
<1>6. sockets'[s] = [sockets[s] EXCEPT !.step = step, !.seen = epoch]
  BY <1>1, <1>4 DEF TypeOK
<1> HIDE DEF epoch
<1>7. /\ sockets'[s].device = d /\ sockets'[s].epoch = sockets[s].epoch
      /\ sockets'[s].seen = epoch /\ sockets'[s].step = step
      /\ "device" \in DOMAIN sockets'[s]
  BY <1>2, <1>6 DEF SocketRow
<1>8. sockets'[s] # NoRow
  BY <1>7 DEF NoRow, Q!NoRow
<1>9. EpochReached(sockets'[s], nodes'[d])
  <2>1. EpochReached(sockets[s], nodes'[d])
    <3>1. EpochReached(sockets[s], nodes[d])
      BY <1>1 DEF SocketInv, EpochsReached
    <3> QED BY <1>2, <3>1, NodesFollow, ReachedStays
  <2>2. epoch # NULL
    BY <1>3, QueueAssumption DEF Q!BoundAssumption
  <2>3. epoch <= epoch /\ epoch = nodes'[d].connection_epoch
    BY <1>3 DEF epoch
  <2> QED BY <1>1, <1>3, <1>7, <2>1, <2>2, <2>3 DEF EpochReached
<1>10. connections' = connections
  BY DEF AuthRegister, AuthBump
<1> QED BY <1>1, <1>2, <1>3, <1>5, <1>7, <1>8, <1>9, <1>10 DEF epoch

\* The epoch another socket of the same phone holds is one the phone has reached.
LEMMA HeldIsReached ==
    ASSUME TypeOK, SocketInv, NEW t \in Sockets, sockets[t] # NoRow, sockets[t].epoch # NULL
    PROVE  LET node == nodes[sockets[t].device] IN
           /\ sockets[t].epoch \in Nat /\ node # NoRow /\ node.connection_epoch \in Nat
           /\ sockets[t].epoch <= node.connection_epoch
<1>1. sockets[t] \in SocketRow /\ sockets[t].device \in Nodes
  BY SocketIsTyped
<1>2. EpochReached(sockets[t], nodes[sockets[t].device])
  BY DEF SocketInv, EpochsReached
<1>3. nodes[sockets[t].device] # NoRow /\ sockets[t].epoch <= nodes[sockets[t].device].connection_epoch
  BY <1>2 DEF EpochReached
<1>4. nodes[sockets[t].device] \in Q!NodeRow
  BY <1>1, <1>3, NodeIsTyped DEF TypeOK
<1> QED BY <1>1, <1>3, <1>4 DEF SocketRow, Q!NodeRow

LEMMA RegisterStep ==
    ASSUME ShadowInv, [Next]_vars, NEW s \in Sockets, AuthRegister(s) PROVE SocketInv'
<1> DEFINE d == sockets[s].device
<1>1. ASSUME NEW t \in Sockets, t # s PROVE AheadOf(sockets'[s], sockets[t])
  <2> SUFFICES ASSUME sockets[t] # NoRow, sockets[t].device = d, sockets[t].epoch # NULL
               PROVE  /\ sockets'[s].step = "bump" => sockets'[s].seen >= sockets[t].epoch
                      /\ sockets'[s].step = "resolve" => sockets'[s].seen > sockets[t].epoch
    BY SeenIsTheNodes DEF AheadOf
  <2>1. sockets'[s].step = "bump"
    <3>1. sockets' = [sockets EXCEPT ![s] = [sockets[s] EXCEPT !.step = "bump", !.seen = nodes'[d].connection_epoch]]
      BY SeenIsTheNodes DEF AuthRegister, TypeOK
    <3> QED BY <3>1, SeenIsTheNodes DEF TypeOK, SocketRow
  <2>2. NodeFollows(nodes[d], nodes'[d])
    BY NodesFollow, SeenIsTheNodes
  <2>3. /\ sockets[t].epoch \in Nat /\ nodes[d] # NoRow /\ nodes[d].connection_epoch \in Nat
        /\ sockets[t].epoch <= nodes[d].connection_epoch
    BY HeldIsReached, SeenIsTheNodes
  <2>4. sockets'[s].seen \in Nat /\ sockets'[s].seen >= nodes[d].connection_epoch
    BY <2>2, <2>3, SeenIsTheNodes DEF NodeFollows
  <2>5. sockets'[s].seen >= sockets[t].epoch
    BY <2>3, <2>4
  <2> QED BY <2>1, <2>5
<1> QED BY <1>1, SeenIsTheNodes, OneSocketMoves

\* A bump answers with an epoch past the one it was based on, won or lost.
LEMMA BumpMovesOn ==
    ASSUME ShadowInv, [Next]_vars, NEW s \in Sockets, AuthBump(s)
    PROVE  /\ sockets[s].seen \in Nat
           /\ nodes'[sockets[s].device].connection_epoch > sockets[s].seen
<1> DEFINE d == sockets[s].device
<1>1. TypeOK /\ d \in Nodes /\ sockets[s] \in SocketRow /\ sockets[s] # NoRow
  BY SeenIsTheNodes
<1>2. sockets[s].step = "bump" /\ Q!BumpConnectionEpoch(d, sockets[s].seen)
  BY DEF AuthBump, At
<1>3. EpochReached(sockets[s], nodes[d])
  BY <1>1, SeenIsTheNodes DEF SocketInv, EpochsReached
<1>4. nodes[d] # NoRow /\ sockets[s].seen # NULL /\ sockets[s].seen <= nodes[d].connection_epoch
  BY <1>1, <1>2, <1>3 DEF EpochReached
<1>5. sockets[s].seen \in Nat /\ nodes[d] \in Q!NodeRow
  BY <1>1, <1>4, NodeIsTyped DEF SocketRow, TypeOK
<1>6. nodes[d].connection_epoch \in Nat
  BY <1>5 DEF Q!NodeRow
<1>7. CASE nodes' = [nodes EXCEPT ![d].connection_epoch = @ + 1] /\ nodes[d].connection_epoch = sockets[s].seen
  <2>1. nodes'[d] = [nodes[d] EXCEPT !.connection_epoch = @ + 1]
    BY <1>1, <1>7 DEF TypeOK, Q!TypeOK
  <2>2. nodes'[d].connection_epoch = nodes[d].connection_epoch + 1
    BY <1>5, <2>1 DEF Q!NodeRow
  <2> QED BY <1>5, <1>6, <1>7, <2>2
<1>8. CASE nodes' = nodes /\ nodes[d].connection_epoch # sockets[s].seen
  BY <1>4, <1>5, <1>6, <1>8
<1> QED BY <1>2, <1>7, <1>8 DEF Q!BumpConnectionEpoch

LEMMA BumpStep ==
    ASSUME ShadowInv, [Next]_vars, NEW s \in Sockets, AuthBump(s) PROVE SocketInv'
<1> DEFINE d == sockets[s].device
<1>1. ASSUME connections[d] = s, NEW t \in Sockets, t # s PROVE AheadOf(sockets'[s], sockets[t])
  <2> SUFFICES ASSUME sockets[t] # NoRow, sockets[t].device = d, sockets[t].epoch # NULL
               PROVE  sockets'[s].seen >= sockets[t].epoch /\ sockets'[s].seen > sockets[t].epoch
    BY SeenIsTheNodes DEF AheadOf
  <2>1. sockets[s].step = "bump"
    BY DEF AuthBump, At
  <2>2. AheadOf(sockets[s], sockets[t])
    BY <1>1, SeenIsTheNodes DEF SocketInv, RegisteredIsAhead
  <2>3. sockets[s].seen >= sockets[t].epoch
    BY <2>1, <2>2, SeenIsTheNodes DEF AheadOf
  <2>4. sockets[t].epoch \in Nat
    BY HeldIsReached, SeenIsTheNodes
  <2>5. sockets[s].seen \in Nat /\ sockets'[s].seen > sockets[s].seen /\ sockets'[s].seen \in Nat
    BY BumpMovesOn, SeenIsTheNodes
  <2> QED BY <2>3, <2>4, <2>5
<1> QED BY <1>1, SeenIsTheNodes, OneSocketMoves

\* A resolved or failed authentication.
LEMMA ResolveStep ==
    ASSUME ShadowInv, [Next]_vars, NEW s \in Sockets, AuthResolve(s) \/ AuthFails(s)
    PROVE  SocketInv'
<1> DEFINE d == sockets[s].device
<1>1. TypeOK /\ SocketInv /\ sockets[s] # NoRow /\ nodes' = nodes /\ connections' = connections
  BY DEF ShadowInv, AuthResolve, AuthFails, At
<1>2. sockets[s] \in SocketRow /\ d \in Nodes
  BY <1>1, SocketIsTyped
<1> DEFINE took == AuthResolve(s) /\ connections[d] = s
           row == [sockets[s] EXCEPT !.step = "done", !.epoch = IF took THEN sockets[s].seen ELSE @]
<1>3. sockets' = [sockets EXCEPT ![s] = row]
  <2>1. CASE AuthResolve(s)
    BY <1>1, <2>1 DEF AuthResolve, TypeOK
  <2>2. CASE AuthFails(s) /\ ~AuthResolve(s)
    <3>1. row = [sockets[s] EXCEPT !.step = "done"]
      BY <1>2, <2>2 DEF SocketRow
    <3>2. sockets' = [sockets EXCEPT ![s] = [sockets[s] EXCEPT !.step = "done"]]
      BY <1>1, <2>2 DEF AuthFails, TypeOK
    <3> QED BY <3>1, <3>2
  <2> QED BY <2>1, <2>2
<1>4. \A t \in Sockets : t # s => sockets'[t] = sockets[t]
  BY <1>1, <1>3 DEF TypeOK
<1>5. sockets'[s] = row
  BY <1>1, <1>3 DEF TypeOK
<1>6. took => sockets[s].step = "resolve"
  BY DEF AuthResolve, At
<1> HIDE DEF took
<1>7. /\ sockets'[s].device = d /\ sockets'[s].step = "done"
      /\ sockets'[s].epoch = IF took THEN sockets[s].seen ELSE sockets[s].epoch
      /\ "device" \in DOMAIN sockets'[s]
  BY <1>2, <1>5 DEF SocketRow
<1>8. sockets'[s] # NoRow
  BY <1>7 DEF NoRow, Q!NoRow
<1>9. EpochReached(sockets[s], nodes[d])
  BY <1>1 DEF SocketInv, EpochsReached
<1>10. EpochReached(sockets'[s], nodes'[d])
  BY <1>1, <1>6, <1>7, <1>9 DEF EpochReached
<1>11. \A t \in Sockets : t # s => AheadOf(sockets'[s], sockets[t])
  BY <1>7 DEF AheadOf
<1>12. ASSUME took
       PROVE  /\ connections[d] = s
              /\ \A t \in Sockets : t # s /\ sockets[t] # NoRow /\ sockets[t].device = d
                                       => sockets'[s].epoch # sockets[t].epoch
  <2>1. connections[d] = s
    BY <1>12 DEF took
  <2>2. ASSUME NEW t \in Sockets, t # s, sockets[t] # NoRow, sockets[t].device = d,
               sockets'[s].epoch = sockets[t].epoch
        PROVE  FALSE
    <3>1. sockets[s].step = "resolve" /\ sockets[s].seen = sockets[t].epoch
      BY <1>6, <1>7, <1>12, <2>2
    <3>2. sockets[s].seen # NULL
      BY <1>1, <1>9, <3>1 DEF EpochReached
    <3>3. AheadOf(sockets[s], sockets[t])
      BY <1>1, <2>1, <2>2 DEF SocketInv, RegisteredIsAhead
    <3>4. sockets[s].seen > sockets[t].epoch
      BY <1>1, <2>2, <3>1, <3>2, <3>3 DEF AheadOf
    <3>5. sockets[s].seen \in Nat
      BY <1>2, <3>2 DEF SocketRow
    <3> QED BY <3>1, <3>4, <3>5
  <2> QED BY <2>1, <2>2
<1>13. \/ sockets'[s].epoch = sockets[s].epoch
       \/ /\ connections[d] = s
          /\ \A t \in Sockets : t # s /\ sockets[t] # NoRow /\ sockets[t].device = d
                                   => sockets'[s].epoch # sockets[t].epoch
  BY <1>7, <1>12
<1> HIDE DEF row
<1> QED BY <1>1, <1>4, <1>7, <1>8, <1>10, <1>11, <1>13, OneSocketMoves

LEMMA ConnectStep ==
    ASSUME ShadowInv, [Next]_vars, NEW d \in Nodes, NEW s \in Sockets, Connect(d, s)
    PROVE  SocketInv'
<1> DEFINE row == [device |-> d, epoch |-> NULL, step |-> "register", seen |-> NULL]
<1>1. TypeOK /\ Connected /\ EpochsReached /\ RegisteredIsAhead /\ EpochNamesOneSocket
  BY DEF ShadowInv, SocketInv
<1>2. sockets[s] = NoRow
  BY DEF Connect, Unused
<1>3. sockets'[s] = row /\ \A t \in Sockets : t # s => sockets'[t] = sockets[t]
  BY <1>1 DEF Connect, TypeOK
<1>4. /\ sockets'[s].device = d /\ sockets'[s].epoch = NULL /\ sockets'[s].step = "register"
      /\ sockets'[s] # NoRow
  BY <1>3 DEF NoRow, Q!NoRow
<1>5. connections'[d] = s /\ \A n \in Nodes : n # d => connections'[n] = connections[n]
  BY <1>1 DEF Connect, TypeOK
<1> HIDE DEF row
<1>6. \A t \in Sockets : sockets[t] # NoRow => sockets[t].device \in Nodes
  BY <1>1, SocketIsTyped
<1>7. Connected'
  <2> SUFFICES ASSUME NEW n \in Nodes, connections'[n] # NULL
               PROVE  /\ sockets'[connections'[n]] # NoRow
                      /\ sockets'[connections'[n]].device = n
    BY DEF Connected
  <2>1. CASE n = d
    BY <1>4, <1>5, <2>1
  <2>2. CASE n # d
    <3>1. connections'[n] = connections[n] /\ connections[n] \in Sockets
      BY <1>1, <1>5, <2>2 DEF TypeOK
    <3>2. sockets[connections[n]] # NoRow /\ sockets[connections[n]].device = n
      BY <1>1, <3>1 DEF Connected
    <3>3. connections[n] # s
      BY <1>2, <3>2
    <3> QED BY <1>3, <3>1, <3>2, <3>3
  <2> QED BY <2>1, <2>2
<1>8. EpochsReached'
  <2>1. \A n \in Nodes : NodeInBound(nodes'[n])
    BY NodesFollow DEF NodeFollows
  <2>2. ASSUME NEW t \in Sockets, sockets'[t] # NoRow
        PROVE  EpochReached(sockets'[t], nodes'[sockets'[t].device])
    <3>1. CASE t = s
      BY <1>4, <3>1 DEF EpochReached
    <3>2. CASE t # s
      BY <1>3, <2>2, <3>2, OthersReached
    <3> QED BY <3>1, <3>2
  <2> QED BY <2>1, <2>2 DEF EpochsReached
<1>9. RegisteredIsAhead'
  <2> SUFFICES ASSUME NEW u \in Sockets, NEW t \in Sockets, u # t, sockets'[u] # NoRow,
                      connections'[sockets'[u].device] = u
               PROVE  AheadOf(sockets'[u], sockets'[t])
    BY DEF RegisteredIsAhead
  <2>1. CASE u = s
    BY <1>4, <2>1 DEF AheadOf
  <2>2. CASE t = s
    BY <1>4, <2>2 DEF AheadOf
  <2>3. CASE u # s /\ t # s
    <3>1. sockets[u] # NoRow /\ sockets'[u] = sockets[u] /\ sockets'[t] = sockets[t]
      BY <1>3, <2>3
    <3>2. sockets[u].device \in Nodes /\ sockets[u].device # d
      BY <1>5, <1>6, <2>3, <3>1
    <3>3. connections[sockets[u].device] = u
      BY <1>5, <3>1, <3>2
    <3> QED BY <1>1, <3>1, <3>3 DEF RegisteredIsAhead
  <2> QED BY <2>1, <2>2, <2>3
<1>10. EpochNamesOneSocket'
  BY <1>1, <1>3, <1>4 DEF EpochNamesOneSocket, Unused
<1> QED BY <1>7, <1>8, <1>9, <1>10 DEF SocketInv

LEMMA DisconnectStep ==
    ASSUME ShadowInv, [Next]_vars, NEW d \in Nodes, Disconnect(d) PROVE SocketInv'
<1>1. TypeOK /\ Connected /\ EpochsReached /\ RegisteredIsAhead /\ EpochNamesOneSocket
  BY DEF ShadowInv, SocketInv
<1>2. sockets' = sockets /\ nodes' = nodes
  BY DEF Disconnect
<1>3. connections'[d] = NULL /\ \A n \in Nodes : n # d => connections'[n] = connections[n]
  BY <1>1 DEF Disconnect, TypeOK
<1>4. Connected'
  BY <1>1, <1>2, <1>3 DEF Connected
<1>5. RegisteredIsAhead'
  <2> SUFFICES ASSUME NEW u \in Sockets, NEW t \in Sockets, u # t, sockets[u] # NoRow,
                      connections'[sockets[u].device] = u
               PROVE  AheadOf(sockets[u], sockets[t])
    BY <1>2 DEF RegisteredIsAhead
  <2>1. sockets[u].device \in Nodes /\ u # NULL
    BY <1>1, SocketIsTyped, ShadowAssumption
  <2>2. connections[sockets[u].device] = u
    BY <1>3, <2>1
  <2> QED BY <1>1, <2>2 DEF RegisteredIsAhead
<1>6. EpochsReached'
  BY <1>1, <1>2 DEF EpochsReached
<1>7. EpochNamesOneSocket'
  BY <1>1, <1>2 DEF EpochNamesOneSocket, Unused
<1> QED BY <1>4, <1>5, <1>6, <1>7 DEF SocketInv

LEMMA RestartSockets ==
    ASSUME ShadowInv, Restart PROVE SocketInv'
<1>1. TypeOK /\ SocketInv
  BY DEF ShadowInv
<1>2. ASSUME NEW s \in Sockets, sockets'[s] # NoRow
      PROVE  sockets'[s].epoch = NULL /\ sockets'[s].step = "done"
  <2>1. sockets[s] # NoRow /\ sockets'[s] = [sockets[s] EXCEPT !.step = "done", !.epoch = NULL]
    BY <1>2 DEF Restart, Unused
  <2>2. sockets[s] \in SocketRow
    BY <1>1, <2>1, SocketIsTyped
  <2> QED BY <2>1, <2>2 DEF SocketRow
<1>3. \A n \in Nodes : connections'[n] = NULL
  BY DEF Restart
<1>4. nodes' = nodes
  BY DEF Restart
<1>5. Connected'
  BY <1>3 DEF Connected
<1>6. EpochsReached'
  BY <1>1, <1>2, <1>4 DEF SocketInv, EpochsReached, EpochReached
<1>7. RegisteredIsAhead'
  BY <1>2 DEF RegisteredIsAhead, AheadOf
<1>8. EpochNamesOneSocket'
  BY <1>2 DEF EpochNamesOneSocket, Unused
<1> QED BY <1>5, <1>6, <1>7, <1>8 DEF SocketInv

LEMMA SocketStep == ASSUME ShadowInv, [Next]_vars PROVE SocketInv'
<1>1. CASE \/ \E k \in Keys : \/ EnqueueShadowJob(k) \/ EnqueueRegister(k)
                              \/ EnqueueInsert(k) \/ EnqueueFails(k) \/ DeadlinePasses(k)
           \/ \E k \in Keys, x \in ExecutionIds : Dispatch(k, x)
           \/ \E x \in ExecutionIds : Claim(x) \/ Start(x) \/ UpdateMap(x) \/ AttemptEnds(x)
           \/ \E s \in Sockets, k \in Keys, success \in BOOLEAN : RecordShadowResult(s, k, success)
           \/ \E j \in Q!Jobs : MarkExpiredActiveStuck(j)
           \/ UNCHANGED vars
  <2>1. sockets' = sockets /\ connections' = connections
    BY <1>1 DEF EnqueueShadowJob, EnqueueRegister, EnqueueInsert, EnqueueFails, DeadlinePasses,
       Dispatch, Claim, Start, UpdateMap, AttemptEnds, RecordShadowResult,
       MarkExpiredActiveStuck, vars, memory
  <2> QED BY <2>1, SocketsKept
<1> QED BY <1>1, ConnectStep, DisconnectStep, RegisterStep, BumpStep, ResolveStep, RestartSockets
        DEF Next

-----------------------------------------------------------------------------
(* Claims. *)

\* The row of job j follows its predecessor: it stays what it was, it appears
\* unclaimed, or a write keeps its claim and its start.
RowFollows(old, new) ==
    \/ new = old
    \/ /\ old = NoRow /\ new # NoRow /\ new.execution_id = NULL /\ ~new.execution_started_at
       /\ new.dispatch_generation = 0 /\ new.job_version = 1
    \/ ClaimKept(old, new) /\ new.execution_started_at = old.execution_started_at /\ new.terminal_at

\* The claims a step leaves alone, and the observations that name them.
LEMMA FollowedRows ==
    ASSUME ClaimInv, \A j \in Q!Jobs : RowFollows(jobs[j], jobs'[j])
    PROVE  /\ RowsCounted' /\ OneRowPerExecution'
           /\ \A x \in ExecutionIds : CarryingIn(jobs', x) = CarryingIn(jobs, x)
           /\ \A j \in Q!Jobs : \A x, g, e :
                 x # NULL /\ CarriesClaim(jobs[j], x, g, e) => CarriesClaim(jobs'[j], x, g, e)
           /\ \A j \in Q!Jobs : jobs'[j] # NoRow /\ jobs'[j].execution_started_at =>
                 /\ jobs[j] # NoRow /\ jobs[j].execution_started_at
                 /\ jobs'[j].execution_id = jobs[j].execution_id
<1>0. NULL \notin ExecutionIds
  BY QueueAssumption DEF Q!BoundAssumption
<1>1. RowsCounted'
  <2> SUFFICES ASSUME NEW j \in Q!Jobs PROVE ClaimCounted(jobs'[j])
    BY DEF RowsCounted
  <2>1. ClaimCounted(jobs[j]) /\ RowFollows(jobs[j], jobs'[j])
    BY DEF ClaimInv, RowsCounted
  <2> QED BY <2>1 DEF RowFollows, ClaimKept, ClaimCounted
<1>2. ASSUME NEW j \in Q!Jobs, jobs'[j] # NoRow, jobs'[j].execution_id # NULL
      PROVE  jobs[j] # NoRow /\ jobs[j].execution_id = jobs'[j].execution_id
  BY <1>2 DEF RowFollows, ClaimKept
<1>3. OneRowPerExecution'
  BY <1>2 DEF ClaimInv, OneRowPerExecution
<1>4. \A x \in ExecutionIds : CarryingIn(jobs', x) = CarryingIn(jobs, x)
  BY <1>0 DEF RowFollows, ClaimKept, CarryingIn
<1>5. \A j \in Q!Jobs : \A x, g, e :
          x # NULL /\ CarriesClaim(jobs[j], x, g, e) => CarriesClaim(jobs'[j], x, g, e)
  BY DEF RowFollows, ClaimKept, CarriesClaim
<1>6. \A j \in Q!Jobs : jobs'[j] # NoRow /\ jobs'[j].execution_started_at =>
          /\ jobs[j] # NoRow /\ jobs[j].execution_started_at
          /\ jobs'[j].execution_id = jobs[j].execution_id
  BY DEF RowFollows, ClaimKept
<1> QED BY <1>1, <1>3, <1>4, <1>5, <1>6

\* An observation of a dispatch: untouched, dropped, or just begun.
AttemptFollows(old, new) ==
    \/ new = old
    \/ /\ old # NoRow /\ new # NoRow /\ new.key = old.key /\ new.epoch = old.epoch
       /\ new.step = "done"
    \/ /\ old = NoRow /\ new # NoRow /\ new.step = "claim" /\ new.epoch <= MaxEpoch

\* A step that claims and starts nothing keeps what the observations and the map
\* say of the claims; a map row it writes must name the claim of its own job.
LEMMA NothingClaimed ==
    ASSUME TypeOK, ClaimInv,
           \A j \in Q!Jobs : RowFollows(jobs[j], jobs'[j]),
           \A x \in ExecutionIds : AttemptFollows(attempts[x], attempts'[x]),
           \A k \in Keys : \/ legacyMap'[k] = legacyMap[k]
                           \/ legacyMap'[k].attempt_execution_id = NULL
                           \/ CarriesClaim(jobs'[JobOf(k)], legacyMap'[k].attempt_execution_id,
                                 legacyMap'[k].dispatch_generation, legacyMap'[k].socket_epoch)
    PROVE  ClaimInv'
<1>0. NULL \notin ExecutionIds
  BY QueueAssumption DEF Q!BoundAssumption
<1>1. RowsCounted' /\ OneRowPerExecution'
  BY FollowedRows
<1>2. UnclaimedIsFresh'
  <2> SUFFICES ASSUME NEW x \in ExecutionIds, attempts'[x] = NoRow \/ attempts'[x].step = "claim"
               PROVE  CarryingIn(jobs', x) = {}
    BY DEF UnclaimedIsFresh
  <2>1. attempts[x] = NoRow \/ attempts[x].step = "claim"
    BY DEF AttemptFollows
  <2> QED BY <2>1, FollowedRows DEF ClaimInv, UnclaimedIsFresh
<1>3. AttemptsBacked'
  <2> SUFFICES ASSUME NEW x \in ExecutionIds, attempts'[x] # NoRow
               PROVE  /\ attempts'[x].epoch <= MaxEpoch
                      /\ attempts'[x].step \in {"start", "map"} =>
                            CarriesClaim(jobs'[JobOf(attempts'[x].key)], x,
                                         attempts'[x].generation, attempts'[x].epoch)
                      /\ attempts'[x].step = "start" => attempts'[x].version = 2
    BY DEF AttemptsBacked
  <2>1. CASE attempts'[x] = attempts[x]
    <3>1. attempts[x] # NoRow /\ JobOf(attempts[x].key) \in Q!Jobs
      BY <2>1, AttemptIsTyped, KeyHasJob
    <3> QED BY <1>0, <2>1, <3>1, FollowedRows DEF ClaimInv, AttemptsBacked
  <2>2. CASE attempts'[x] # attempts[x]
    <3>1. AttemptFollows(attempts[x], attempts'[x])
      OBVIOUS
    <3>2. attempts[x] # NoRow => attempts[x].epoch <= MaxEpoch
      BY DEF ClaimInv, AttemptsBacked
    <3> QED BY <2>2, <3>1, <3>2 DEF AttemptFollows
  <2> QED BY <2>1, <2>2
<1>4. MapBacked'
  <2> SUFFICES ASSUME NEW k \in Keys, legacyMap'[k] # NoRow, legacyMap'[k].attempt_execution_id # NULL
               PROVE  CarriesClaim(jobs'[JobOf(k)], legacyMap'[k].attempt_execution_id,
                                   legacyMap'[k].dispatch_generation, legacyMap'[k].socket_epoch)
    BY DEF MapBacked
  <2>1. CASE legacyMap'[k] = legacyMap[k]
    <3>1. CarriesClaim(jobs[JobOf(k)], legacyMap[k].attempt_execution_id,
                       legacyMap[k].dispatch_generation, legacyMap[k].socket_epoch)
      BY <2>1 DEF ClaimInv, MapBacked
    <3> QED BY <2>1, <3>1, KeyHasJob, FollowedRows
  <2> QED BY <2>1
<1>5. StartedByAttempt'
  <2> SUFFICES ASSUME NEW j \in Q!Jobs, jobs'[j] # NoRow, jobs'[j].execution_started_at
               PROVE  /\ attempts'[jobs'[j].execution_id] # NoRow
                      /\ attempts'[jobs'[j].execution_id].key = j[2]
    BY DEF StartedByAttempt
  <2>1. /\ jobs[j] # NoRow /\ jobs[j].execution_started_at
        /\ jobs'[j].execution_id = jobs[j].execution_id
    BY FollowedRows
  <2> DEFINE x == jobs[j].execution_id
  <2>2. x \in ExecutionIds
    <3>1. x # NULL
      BY <2>1 DEF ClaimInv, RowsCounted, ClaimCounted
    <3>2. x \in ExecutionIds \cup {NULL}
      BY <2>1, RowIsTyped DEF TypeOK, Q!JobRow
    <3> QED BY <3>1, <3>2
  <2>3. attempts[x] # NoRow /\ attempts[x].key = j[2]
    BY <2>1 DEF ClaimInv, StartedByAttempt
  <2>4. AttemptFollows(attempts[x], attempts'[x])
    BY <2>2
  <2> HIDE DEF x
  <2>5. attempts'[x] # NoRow /\ attempts'[x].key = j[2]
    BY <2>3, <2>4 DEF AttemptFollows
  <2> QED BY <2>1, <2>5 DEF x
<1> QED BY <1>1, <1>2, <1>3, <1>4, <1>5 DEF ClaimInv

\* Claims untouched, one observation dropped.
LEMMA AttemptDropped ==
    ASSUME TypeOK, NEW x \in ExecutionIds, attempts[x] # NoRow,
           attempts' = [attempts EXCEPT ![x] = [attempts[x] EXCEPT !.step = "done"]]
    PROVE  \A y \in ExecutionIds : AttemptFollows(attempts[y], attempts'[y])
<1>1. attempts[x] \in AttemptRow
  BY AttemptIsTyped
<1>2. attempts'[x] = [attempts[x] EXCEPT !.step = "done"]
  BY DEF TypeOK
<1>3. /\ attempts'[x].key = attempts[x].key /\ attempts'[x].epoch = attempts[x].epoch
      /\ attempts'[x].step = "done" /\ "key" \in DOMAIN attempts'[x]
  BY <1>1, <1>2 DEF AttemptRow
<1>4. attempts'[x] # NoRow
  BY <1>3 DEF NoRow, Q!NoRow
<1>5. \A y \in ExecutionIds : y # x => attempts'[y] = attempts[y]
  BY DEF TypeOK
<1> QED BY <1>3, <1>4, <1>5 DEF AttemptFollows

LEMMA InsertClaims ==
    ASSUME ShadowInv, NEW k \in Keys, EnqueueInsert(k) PROVE ClaimInv'
<1>1. TypeOK /\ ClaimInv
  BY DEF ShadowInv
<1>2. \A j \in Q!Jobs : RowFollows(jobs[j], jobs'[j])
  <2>1. Q!EnqueueJob(DeviceOf[k], k, ThePayload) /\ DeviceOf[k] \in Nodes
    BY KeyHasJob DEF EnqueueInsert
  <2> QED BY <1>1, <2>1, EnqueueWrites DEF TypeOK, OthersKept, RowFollows
<1>3. \A x \in ExecutionIds : AttemptFollows(attempts[x], attempts'[x])
  BY DEF EnqueueInsert, AttemptFollows
<1>4. \A i \in Keys : legacyMap'[i] = legacyMap[i] \/ legacyMap'[i].attempt_execution_id = NULL
  BY <1>1 DEF EnqueueInsert, TypeOK
<1> QED BY <1>1, <1>2, <1>3, <1>4, NothingClaimed

LEMMA DispatchClaims ==
    ASSUME ShadowInv, NEW k \in Keys, NEW x \in ExecutionIds, Dispatch(k, x) PROVE ClaimInv'
<1> DEFINE d == DeviceOf[k]
           s == connections[d]
<1>1. TypeOK /\ ClaimInv /\ Connected /\ EpochsReached /\ d \in Nodes
  BY KeyHasJob DEF ShadowInv, SocketInv
<1>2. s \in Sockets /\ sockets[s] # NoRow /\ EpochOf(d) = sockets[s].epoch
  BY <1>1 DEF Dispatch, TypeOK, Connected, EpochOf
<1>3. EpochOf(d) # NULL => EpochOf(d) <= MaxEpoch
  BY <1>1, <1>2, EpochsAreEpochs DEF Q!Epochs
<1>4. \A y \in ExecutionIds : AttemptFollows(attempts[y], attempts'[y])
  <2>1. CASE EpochOf(d) = NULL
    BY <2>1 DEF Dispatch, AttemptFollows
  <2>2. CASE EpochOf(d) # NULL
    <3> DEFINE row == [key |-> k, epoch |-> EpochOf(d), step |-> "claim", version |-> 0, generation |-> 0]
    <3>1. attempts[x] = NoRow /\ attempts' = [attempts EXCEPT ![x] = row]
      BY <2>2 DEF Dispatch, Unused
    <3>2. attempts'[x] = row /\ \A y \in ExecutionIds : y # x => attempts'[y] = attempts[y]
      BY <1>1, <3>1 DEF TypeOK
    <3>3. row # NoRow /\ row.step = "claim" /\ row.epoch = EpochOf(d)
      BY DEF NoRow, Q!NoRow
    <3> HIDE DEF row
    <3> QED BY <1>3, <2>2, <3>1, <3>2, <3>3 DEF AttemptFollows
  <2> QED BY <2>1, <2>2
<1>5. jobs' = jobs /\ legacyMap' = legacyMap
  BY DEF Dispatch
<1> QED BY <1>1, <1>4, <1>5, NothingClaimed DEF RowFollows

LEMMA MapClaims ==
    ASSUME ShadowInv, NEW x \in ExecutionIds, UpdateMap(x) PROVE ClaimInv'
<1>1. TypeOK /\ ClaimInv /\ attempts[x] # NoRow /\ attempts[x].step = "map"
  BY DEF ShadowInv, UpdateMap, AttemptAt
<1>2. attempts[x].key \in Keys
  BY <1>1, AttemptIsTyped
<1>3. \A y \in ExecutionIds : AttemptFollows(attempts[y], attempts'[y])
  <2>1. attempts' = [attempts EXCEPT ![x] = [attempts[x] EXCEPT !.step = "done"]]
    BY <1>1 DEF UpdateMap, TypeOK
  <2> QED BY <1>1, <2>1, AttemptDropped
<1>4. jobs' = jobs
  BY DEF UpdateMap
<1> DEFINE row == [attempt_execution_id |-> x, dispatch_generation |-> attempts[x].generation,
                   socket_epoch |-> attempts[x].epoch]
<1>5. legacyMap' = [legacyMap EXCEPT ![attempts[x].key] = row]
  BY DEF UpdateMap
<1>6. /\ legacyMap'[attempts[x].key] = row
      /\ \A k \in Keys : k # attempts[x].key => legacyMap'[k] = legacyMap[k]
  BY <1>1, <1>2, <1>5 DEF TypeOK
<1>7. CarriesClaim(jobs[JobOf(attempts[x].key)], x, attempts[x].generation, attempts[x].epoch)
  BY <1>1 DEF ClaimInv, AttemptsBacked
<1>8. /\ row.attempt_execution_id = x /\ row.dispatch_generation = attempts[x].generation
      /\ row.socket_epoch = attempts[x].epoch
  OBVIOUS
<1> HIDE DEF row
<1>9. ASSUME NEW k \in Keys
      PROVE  \/ legacyMap'[k] = legacyMap[k]
             \/ CarriesClaim(jobs'[JobOf(k)], legacyMap'[k].attempt_execution_id,
                             legacyMap'[k].dispatch_generation, legacyMap'[k].socket_epoch)
  BY <1>4, <1>6, <1>7, <1>8
<1> QED BY <1>1, <1>3, <1>4, <1>9, NothingClaimed DEF RowFollows

LEMMA ResultClaims ==
    ASSUME ShadowInv,
           \/ \E s \in Sockets, k \in Keys, success \in BOOLEAN : RecordShadowResult(s, k, success)
           \/ \E j \in Q!Jobs : MarkExpiredActiveStuck(j)
    PROVE  ClaimInv'
<1>1. TypeOK /\ ClaimInv
  BY DEF ShadowInv
<1>2. attempts' = attempts /\ legacyMap' = legacyMap
  BY DEF RecordShadowResult, MarkExpiredActiveStuck, memory
<1>3. PICK j \in Q!Jobs :
          (\E x, e, g, success : Q!RecordResult(j, x, e, g, success)) \/ Q!MarkStuck(j)
  BY KeyHasJob DEF RecordShadowResult, MarkExpiredActiveStuck
<1>4. \A i \in Q!Jobs : RowFollows(jobs[i], jobs'[i])
  BY <1>1, <1>3, ResultWrites DEF TypeOK, OthersKept, RowFollows
<1> QED BY <1>1, <1>2, <1>4, NothingClaimed DEF AttemptFollows

\* What a claim leaves of its observation.
LEMMA AfterClaimFields ==
    ASSUME NEW a \in AttemptRow, NEW x, NEW table
    PROVE  LET b == AfterClaim(a, x, table)
               j == JobOf(a.key)
           IN  /\ b # NoRow /\ b.key = a.key /\ b.epoch = a.epoch
               /\ b.step = "done" \/ b.step = "start"
               /\ b.step = "start" => /\ j \in CarryingIn(table, x)
                                      /\ b.version = table[j].job_version
                                      /\ b.generation = table[j].dispatch_generation
<1> DEFINE b == AfterClaim(a, x, table)
           j == JobOf(a.key)
<1>1. CASE j \notin CarryingIn(table, x)
  <2>1. b = [a EXCEPT !.step = "done"]
    BY <1>1 DEF AfterClaim
  <2>2. b.key = a.key /\ b.epoch = a.epoch /\ b.step = "done" /\ "key" \in DOMAIN b
    BY <2>1 DEF AttemptRow
  <2> QED BY <2>2 DEF NoRow, Q!NoRow
<1>2. CASE j \in CarryingIn(table, x)
  <2>1. b = [a EXCEPT !.step = "start", !.version = table[j].job_version,
                      !.generation = table[j].dispatch_generation]
    BY <1>2 DEF AfterClaim
  <2>2. /\ b.key = a.key /\ b.epoch = a.epoch /\ b.step = "start" /\ "key" \in DOMAIN b
        /\ b.version = table[j].job_version /\ b.generation = table[j].dispatch_generation
    BY <2>1 DEF AttemptRow
  <2>3. b # NoRow
    BY <2>2 DEF NoRow, Q!NoRow
  <2> QED BY <1>2, <2>2, <2>3
<1> QED BY <1>1, <1>2

LEMMA ClaimClaims ==
    ASSUME ShadowInv, NEW x \in ExecutionIds, Claim(x) PROVE ClaimInv'
<1> DEFINE a == attempts[x]
           b == AfterClaim(attempts[x], x, jobs')
<1>0. /\ TypeOK /\ ClaimInv /\ a # NoRow /\ a.step = "claim" /\ x # NULL
      /\ legacyMap' = legacyMap
  BY QueueAssumption DEF ShadowInv, Claim, AttemptAt, Q!BoundAssumption
<1>1. a \in AttemptRow /\ a.key \in Keys /\ a.epoch \in Nat
  BY <1>0, AttemptIsTyped DEF AttemptRow
<1>2. Q!ClaimNextJob(DeviceOf[a.key], a.epoch, x) /\ DeviceOf[a.key] \in Nodes
  BY <1>1, KeyHasJob DEF Claim
<1>3. attempts'[x] = b /\ \A y \in ExecutionIds : y # x => attempts'[y] = attempts[y]
  BY <1>0 DEF Claim, TypeOK
<1>4. /\ b # NoRow /\ b.key = a.key /\ b.epoch = a.epoch
      /\ b.step = "done" \/ b.step = "start"
      /\ b.step = "start" => /\ JobOf(a.key) \in CarryingIn(jobs', x)
                             /\ b.version = jobs'[JobOf(a.key)].job_version
                             /\ b.generation = jobs'[JobOf(a.key)].dispatch_generation
  BY <1>1, AfterClaimFields
<1> HIDE DEF b
<1>5. CarryingIn(jobs, x) = {}
  BY <1>0 DEF ClaimInv, UnclaimedIsFresh
<1>6. CASE jobs' = jobs
  <2>1. b.step = "done"
    BY <1>4, <1>5, <1>6
  <2>2. \A y \in ExecutionIds : AttemptFollows(attempts[y], attempts'[y])
    BY <1>0, <1>3, <1>4, <2>1 DEF AttemptFollows
  <2> QED BY <1>0, <1>6, <2>2, NothingClaimed DEF RowFollows
<1>7. ASSUME NEW j \in Q!Jobs, OthersKept(j), jobs[j] \in Q!JobRow, jobs'[j] # NoRow,
             jobs[j].execution_id = NULL, ~jobs[j].terminal_at,
             jobs'[j].execution_id = x, jobs'[j].claimed_connection_epoch = a.epoch,
             jobs'[j].dispatch_generation = jobs[j].dispatch_generation + 1,
             jobs'[j].job_version = jobs[j].job_version + 1,
             jobs'[j].execution_started_at = jobs[j].execution_started_at
      PROVE  ClaimInv'
  <2>0. \A i \in Q!Jobs : i # j => jobs'[i] = jobs[i]
    BY <1>7 DEF OthersKept
  <2>1. jobs[j] # NoRow
    BY <1>7, RecordsAreRows
  <2>2. /\ jobs[j].dispatch_generation = 0 /\ ~jobs[j].execution_started_at
        /\ jobs[j].job_version = 1
    BY <1>0, <1>7, <2>1 DEF ClaimInv, RowsCounted, ClaimCounted
  <2>3. jobs'[j].dispatch_generation = 1 /\ jobs'[j].job_version = 2
    BY <1>7, <2>2
  <2>4. \A i \in Q!Jobs : jobs[i] # NoRow => jobs[i].execution_id # x
    BY <1>5 DEF CarryingIn
  <2>5. ASSUME NEW i \in Q!Jobs, NEW y, NEW g, NEW e, y # NULL, CarriesClaim(jobs[i], y, g, e)
        PROVE  CarriesClaim(jobs'[i], y, g, e)
    <3>1. i # j
      BY <1>7, <2>5 DEF CarriesClaim
    <3> QED BY <2>0, <2>5, <3>1
  <2>6. RowsCounted'
    <3> SUFFICES ASSUME NEW i \in Q!Jobs PROVE ClaimCounted(jobs'[i])
      BY DEF RowsCounted
    <3>1. CASE i = j
      BY <1>0, <1>7, <2>3, <3>1 DEF ClaimCounted
    <3>2. CASE i # j
      BY <1>0, <2>0, <3>2 DEF ClaimInv, RowsCounted
    <3> QED BY <3>1, <3>2
  <2>7. OneRowPerExecution'
    <3> SUFFICES ASSUME NEW i \in Q!Jobs, NEW k \in Q!Jobs, jobs'[i] # NoRow, jobs'[k] # NoRow,
                        jobs'[i].execution_id # NULL, jobs'[i].execution_id = jobs'[k].execution_id
                 PROVE  i = k
      BY DEF OneRowPerExecution
    <3>1. CASE i # j /\ k # j
      BY <1>0, <2>0, <3>1 DEF ClaimInv, OneRowPerExecution
    <3>2. CASE i = j \/ k = j
      BY <1>7, <2>0, <2>4, <3>2
    <3> QED BY <3>1, <3>2
  <2>8. UnclaimedIsFresh'
    <3> SUFFICES ASSUME NEW y \in ExecutionIds, attempts'[y] = NoRow \/ attempts'[y].step = "claim"
                 PROVE  CarryingIn(jobs', y) = {}
      BY DEF UnclaimedIsFresh
    <3>1. y # x /\ attempts'[y] = attempts[y]
      BY <1>3, <1>4
    <3>2. CarryingIn(jobs, y) = {}
      BY <1>0, <3>1 DEF ClaimInv, UnclaimedIsFresh
    <3> QED BY <1>7, <2>0, <3>1, <3>2 DEF CarryingIn
  <2>9. AttemptsBacked'
    <3> SUFFICES ASSUME NEW y \in ExecutionIds, attempts'[y] # NoRow
                 PROVE  /\ attempts'[y].epoch <= MaxEpoch
                        /\ attempts'[y].step \in {"start", "map"} =>
                              CarriesClaim(jobs'[JobOf(attempts'[y].key)], y,
                                           attempts'[y].generation, attempts'[y].epoch)
                        /\ attempts'[y].step = "start" => attempts'[y].version = 2
      BY DEF AttemptsBacked
    <3>1. CASE y # x
      <4>1. attempts'[y] = attempts[y] /\ attempts[y] # NoRow
        BY <1>3, <3>1
      <4>2. JobOf(attempts[y].key) \in Q!Jobs /\ y # NULL
        BY <1>0, <4>1, AttemptIsTyped, KeyHasJob, QueueAssumption DEF Q!BoundAssumption
      <4> QED BY <1>0, <2>5, <4>1, <4>2 DEF ClaimInv, AttemptsBacked
    <3>2. CASE y = x
      <4>1. b.epoch <= MaxEpoch
        BY <1>0, <1>4 DEF ClaimInv, AttemptsBacked
      <4>2. ASSUME b.step = "start" PROVE JobOf(a.key) = j
        <5>1. JobOf(a.key) \in Q!Jobs /\ jobs'[JobOf(a.key)] # NoRow
              /\ jobs'[JobOf(a.key)].execution_id = x
          BY <1>4, <4>2 DEF CarryingIn
        <5> QED BY <2>0, <2>4, <5>1
      <4>3. ASSUME b.step = "start"
            PROVE  /\ CarriesClaim(jobs'[JobOf(b.key)], x, b.generation, b.epoch)
                   /\ b.version = 2
        BY <1>4, <1>7, <2>3, <4>2, <4>3 DEF CarriesClaim
      <4> QED BY <1>3, <1>4, <3>2, <4>1, <4>3
    <3> QED BY <3>1, <3>2
  <2>10. MapBacked'
    <3> SUFFICES ASSUME NEW k \in Keys, legacyMap[k] # NoRow, legacyMap[k].attempt_execution_id # NULL
                 PROVE  CarriesClaim(jobs'[JobOf(k)], legacyMap[k].attempt_execution_id,
                                     legacyMap[k].dispatch_generation, legacyMap[k].socket_epoch)
      BY <1>0 DEF MapBacked
    <3> QED BY <1>0, <2>5, KeyHasJob DEF ClaimInv, MapBacked
  <2>11. StartedByAttempt'
    <3> SUFFICES ASSUME NEW i \in Q!Jobs, jobs'[i] # NoRow, jobs'[i].execution_started_at
                 PROVE  /\ attempts'[jobs'[i].execution_id] # NoRow
                        /\ attempts'[jobs'[i].execution_id].key = i[2]
      BY DEF StartedByAttempt
    <3>1. i # j /\ jobs'[i] = jobs[i]
      BY <1>7, <2>0, <2>2
    <3> DEFINE y == jobs[i].execution_id
    <3>2. attempts[y] # NoRow /\ attempts[y].key = i[2]
      BY <1>0, <3>1 DEF ClaimInv, StartedByAttempt
    <3>3. y \in ExecutionIds
      <4>1. y # NULL
        BY <1>0, <3>1 DEF ClaimInv, RowsCounted, ClaimCounted
      <4>2. y \in ExecutionIds \cup {NULL}
        BY <1>0, <3>1, RowIsTyped DEF TypeOK, Q!JobRow
      <4> QED BY <4>1, <4>2
    <3>4. y # x
      BY <2>4, <3>1
    <3> QED BY <1>3, <3>1, <3>2, <3>3, <3>4
  <2> QED BY <2>6, <2>7, <2>8, <2>9, <2>10, <2>11 DEF ClaimInv
<1> QED BY <1>0, <1>1, <1>2, <1>6, <1>7, ClaimWrites DEF TypeOK

LEMMA StartClaims ==
    ASSUME ShadowInv, NEW x \in ExecutionIds, Start(x) PROVE ClaimInv'
<1> DEFINE a == attempts[x]
<1>0. /\ TypeOK /\ ClaimInv /\ a # NoRow /\ a.step = "start" /\ x # NULL
      /\ legacyMap' = legacyMap
  BY QueueAssumption DEF ShadowInv, Start, AttemptAt, Q!BoundAssumption
<1>1. a \in AttemptRow /\ a.key \in Keys
  BY <1>0, AttemptIsTyped
<1>2. PICK j \in Q!Jobs :
          /\ jobs[j] # NoRow /\ jobs[j].execution_id = x
          /\ Q!StartExecution(j, a.epoch, a.version, a.generation, x)
          /\ attempts' = [attempts EXCEPT ![x] =
                [a EXCEPT !.step = "map", !.generation = jobs'[j].dispatch_generation]]
  BY <1>0 DEF Start, CarryingIn, TypeOK
<1>3. CarriesClaim(jobs[JobOf(a.key)], x, a.generation, a.epoch) /\ JobOf(a.key) \in Q!Jobs
  BY <1>0, <1>1, KeyHasJob DEF ClaimInv, AttemptsBacked
<1>4. j = JobOf(a.key)
  BY <1>0, <1>2, <1>3 DEF ClaimInv, OneRowPerExecution, CarriesClaim
<1>5. /\ OthersKept(j) /\ ClaimKept(jobs[j], jobs'[j])
      /\ jobs'[j].execution_started_at => jobs[j].execution_started_at \/ jobs'[j].execution_id = x
  BY <1>0, <1>2, StartWrites DEF TypeOK, OthersKept, ClaimKept
<1>6. \A i \in Q!Jobs : jobs'[i] = jobs[i] \/ ClaimKept(jobs[i], jobs'[i])
  BY <1>5 DEF OthersKept
<1> DEFINE b == [a EXCEPT !.step = "map", !.generation = jobs'[j].dispatch_generation]
<1>7. attempts'[x] = b /\ \A y \in ExecutionIds : y # x => attempts'[y] = attempts[y]
  BY <1>0, <1>2 DEF TypeOK
<1>8. /\ b.key = a.key /\ b.epoch = a.epoch /\ b.step = "map" /\ "key" \in DOMAIN b
      /\ b.generation = jobs'[j].dispatch_generation
  BY <1>1 DEF AttemptRow
<1>9. b # NoRow
  BY <1>8 DEF NoRow, Q!NoRow
<1> HIDE DEF b
<1>10. ASSUME NEW i \in Q!Jobs, NEW y, NEW g, NEW e, CarriesClaim(jobs[i], y, g, e)
       PROVE  CarriesClaim(jobs'[i], y, g, e)
  BY <1>6, <1>10 DEF CarriesClaim, ClaimKept
<1>11. RowsCounted'
  <2> SUFFICES ASSUME NEW i \in Q!Jobs PROVE ClaimCounted(jobs'[i])
    BY DEF RowsCounted
  <2>1. CASE i = j
    <3>1. ClaimCounted(jobs[j])
      BY <1>0 DEF ClaimInv, RowsCounted
    <3> QED BY <1>0, <1>2, <1>5, <2>1, <3>1 DEF ClaimCounted, ClaimKept
  <2>2. CASE i # j
    BY <1>0, <1>5, <2>2 DEF ClaimInv, RowsCounted, OthersKept
  <2> QED BY <2>1, <2>2
<1>12. OneRowPerExecution'
  BY <1>0, <1>6 DEF ClaimInv, OneRowPerExecution, ClaimKept
<1>13. UnclaimedIsFresh'
  <2> SUFFICES ASSUME NEW y \in ExecutionIds, attempts'[y] = NoRow \/ attempts'[y].step = "claim"
               PROVE  CarryingIn(jobs', y) = {}
    BY DEF UnclaimedIsFresh
  <2>1. attempts'[y] = attempts[y]
    BY <1>7, <1>8, <1>9
  <2>2. CarryingIn(jobs, y) = {}
    BY <1>0, <2>1 DEF ClaimInv, UnclaimedIsFresh
  <2> QED BY <1>6, <2>2 DEF CarryingIn, ClaimKept
<1>14. AttemptsBacked'
  <2> SUFFICES ASSUME NEW y \in ExecutionIds, attempts'[y] # NoRow
               PROVE  /\ attempts'[y].epoch <= MaxEpoch
                      /\ attempts'[y].step \in {"start", "map"} =>
                            CarriesClaim(jobs'[JobOf(attempts'[y].key)], y,
                                         attempts'[y].generation, attempts'[y].epoch)
                      /\ attempts'[y].step = "start" => attempts'[y].version = 2
    BY DEF AttemptsBacked
  <2>1. CASE y # x
    <3>1. attempts'[y] = attempts[y] /\ attempts[y] # NoRow
      BY <1>7, <2>1
    <3>2. JobOf(attempts[y].key) \in Q!Jobs
      BY <1>0, <3>1, AttemptIsTyped, KeyHasJob
    <3> QED BY <1>0, <1>10, <3>1, <3>2 DEF ClaimInv, AttemptsBacked
  <2>2. CASE y = x
    <3>1. b.epoch <= MaxEpoch
      BY <1>0, <1>8 DEF ClaimInv, AttemptsBacked
    <3>2. b.generation = a.generation
      BY <1>3, <1>4, <1>5, <1>8 DEF ClaimKept, CarriesClaim
    <3>3. CarriesClaim(jobs'[JobOf(b.key)], x, b.generation, b.epoch)
      BY <1>3, <1>8, <1>10, <3>2
    <3> QED BY <1>7, <1>8, <2>2, <3>1, <3>3
  <2> QED BY <2>1, <2>2
<1>15. MapBacked'
  <2> SUFFICES ASSUME NEW k \in Keys, legacyMap[k] # NoRow, legacyMap[k].attempt_execution_id # NULL
               PROVE  CarriesClaim(jobs'[JobOf(k)], legacyMap[k].attempt_execution_id,
                                   legacyMap[k].dispatch_generation, legacyMap[k].socket_epoch)
    BY <1>0 DEF MapBacked
  <2> QED BY <1>0, <1>10, KeyHasJob DEF ClaimInv, MapBacked
<1>16. StartedByAttempt'
  <2> SUFFICES ASSUME NEW i \in Q!Jobs, jobs'[i] # NoRow, jobs'[i].execution_started_at
               PROVE  /\ attempts'[jobs'[i].execution_id] # NoRow
                      /\ attempts'[jobs'[i].execution_id].key = i[2]
    BY DEF StartedByAttempt
  <2>1. CASE i = j
    <3>1. jobs'[i].execution_id = x
      BY <1>2, <1>5, <2>1 DEF ClaimKept
    <3>2. i[2] = a.key
      BY <1>4, <2>1 DEF JobOf
    <3> QED BY <1>7, <1>8, <1>9, <3>1, <3>2
  <2>2. CASE i # j
    <3>1. jobs'[i] = jobs[i]
      BY <1>5, <2>2 DEF OthersKept
    <3> DEFINE y == jobs[i].execution_id
    <3>2. attempts[y] # NoRow /\ attempts[y].key = i[2]
      BY <1>0, <3>1 DEF ClaimInv, StartedByAttempt
    <3>3. y \in ExecutionIds
      <4>1. y # NULL
        BY <1>0, <3>1 DEF ClaimInv, RowsCounted, ClaimCounted
      <4>2. y \in ExecutionIds \cup {NULL}
        BY <1>0, <3>1, RowIsTyped DEF TypeOK, Q!JobRow
      <4> QED BY <4>1, <4>2
    <3>4. attempts'[y] # NoRow /\ attempts'[y].key = attempts[y].key
      BY <1>7, <1>8, <1>9, <3>2, <3>3
    <3> QED BY <3>1, <3>2, <3>4
  <2> QED BY <2>1, <2>2
<1> QED BY <1>11, <1>12, <1>13, <1>14, <1>15, <1>16 DEF ClaimInv

LEMMA RestartClaims ==
    ASSUME ShadowInv, Restart PROVE ClaimInv'
<1>1. TypeOK /\ ClaimInv
  BY DEF ShadowInv
<1>2. ASSUME NEW x \in ExecutionIds PROVE AttemptFollows(attempts[x], attempts'[x])
  <2>1. CASE attempts[x] = NoRow
    BY <2>1 DEF Restart, Unused, AttemptFollows
  <2>2. CASE attempts[x] # NoRow
    <3>1. attempts'[x] = [attempts[x] EXCEPT !.step = "done"] /\ attempts[x] \in AttemptRow
      BY <1>1, <2>2, AttemptIsTyped DEF Restart, Unused
    <3>2. /\ attempts'[x].key = attempts[x].key /\ attempts'[x].epoch = attempts[x].epoch
          /\ attempts'[x].step = "done" /\ "key" \in DOMAIN attempts'[x]
      BY <3>1 DEF AttemptRow
    <3>3. attempts'[x] # NoRow
      BY <3>2 DEF NoRow, Q!NoRow
    <3> QED BY <2>2, <3>2, <3>3 DEF AttemptFollows
  <2> QED BY <2>1, <2>2
<1>3. jobs' = jobs /\ legacyMap' = legacyMap
  BY DEF Restart
<1> QED BY <1>1, <1>2, <1>3, NothingClaimed DEF RowFollows

LEMMA EndsClaims ==
    ASSUME ShadowInv, NEW x \in ExecutionIds, AttemptEnds(x) PROVE ClaimInv'
<1>1. TypeOK /\ ClaimInv /\ attempts[x] # NoRow
  BY DEF ShadowInv, AttemptEnds, AttemptAt
<1>2. attempts' = [attempts EXCEPT ![x] = [attempts[x] EXCEPT !.step = "done"]]
  BY <1>1 DEF AttemptEnds, TypeOK
<1>3. jobs' = jobs /\ legacyMap' = legacyMap
  BY DEF AttemptEnds
<1> QED BY <1>1, <1>2, <1>3, AttemptDropped, NothingClaimed DEF RowFollows

LEMMA ClaimStep == ASSUME ShadowInv, [Next]_vars PROVE ClaimInv'
<1>1. CASE \/ \E d \in Nodes, s \in Sockets : Connect(d, s)
           \/ \E d \in Nodes : Disconnect(d)
           \/ \E s \in Sockets : AuthRegister(s) \/ AuthBump(s) \/ AuthResolve(s) \/ AuthFails(s)
           \/ \E k \in Keys : \/ EnqueueShadowJob(k) \/ EnqueueRegister(k) \/ EnqueueFails(k)
                              \/ DeadlinePasses(k)
           \/ UNCHANGED vars
  <2>1. jobs' = jobs /\ attempts' = attempts /\ legacyMap' = legacyMap
    BY <1>1 DEF Connect, Disconnect, AuthRegister, AuthBump, AuthResolve, AuthFails,
       EnqueueShadowJob, EnqueueRegister, EnqueueFails, DeadlinePasses, vars, memory,
       Q!RegisterNode, Q!BumpConnectionEpoch
  <2> QED BY <2>1, NothingClaimed DEF ShadowInv, RowFollows, AttemptFollows
<1> QED BY <1>1, InsertClaims, DispatchClaims, ClaimClaims, StartClaims, MapClaims, EndsClaims,
           ResultClaims, RestartClaims DEF Next

-----------------------------------------------------------------------------
(* The theorems. *)

LEMMA ShadowInit == Init => ShadowInv
<1> SUFFICES ASSUME Init PROVE ShadowInv
  OBVIOUS
<1>1. /\ \A n \in Nodes : nodes[n] = NoRow
      /\ \A j \in Q!Jobs : jobs[j] = NoRow
  BY DEF Init, Q!Init, NoRow
<1>2. /\ \A k \in Keys : legacyMap[k] = NoRow
      /\ \A d \in Nodes : connections[d] = NULL
      /\ \A s \in Sockets : sockets[s] = NoRow
      /\ \A x \in ExecutionIds : attempts[x] = NoRow
  BY DEF Init
<1>3. TypeOK
  BY DEF Init, TypeOK, Q!Init, Q!TypeOK, EnqueueSteps, ResultDeadline
<1>4. SocketInv
  BY <1>1, <1>2 DEF SocketInv, Connected, EpochsReached, NodeInBound, RegisteredIsAhead,
     EpochNamesOneSocket, Unused
<1>5. ClaimInv
  BY <1>1, <1>2 DEF ClaimInv, RowsCounted, ClaimCounted, OneRowPerExecution, UnclaimedIsFresh,
     CarryingIn, AttemptsBacked, MapBacked, StartedByAttempt
<1> QED BY <1>3, <1>4, <1>5 DEF ShadowInv

\* The invariant of the shadow runtime is inductive: what a handler read before
\* its last database call still means what it meant when the call uses it.
THEOREM ShadowInvariant == Spec => []ShadowInv
<1>1. ShadowInv /\ [Next]_vars => ShadowInv'
  BY TypeStep, SocketStep, ClaimStep DEF ShadowInv
<1> QED BY <1>1, ShadowInit, PTL DEF Spec

\* The registry, the observations and the map keep their shapes: no handler goes
\* on with the columns of a row that is not there (claimAndStart's null checks).
THEOREM ShadowTypeCorrect == Spec => []TypeOK
<1>1. ShadowInv => TypeOK
  BY DEF ShadowInv
<1> QED BY <1>1, ShadowInvariant, PTL

\* Two sockets of a phone never hold one epoch, although a bump that loses its
\* compare-and-swap is answered with the winner's (onConnectionAuthenticated).
THEOREM EpochNamesOneSocketAlways == Spec => []EpochNamesOneSocket
<1>1. ShadowInv => EpochNamesOneSocket
  BY DEF ShadowInv, SocketInv
<1> QED BY <1>1, ShadowInvariant, PTL

\* The map row written two transactions after a claim names that claim and its
\* own job (claimAndStart, updateLegacyMap).
THEOREM MapNamesTheClaimAlways == Spec => []MapNamesTheClaim
<1>1. ShadowInv => MapNamesTheClaim
  BY DEF ShadowInv, ClaimInv, MapBacked, CarriesClaim, MapNamesTheClaim, Unmapped
<1> QED BY <1>1, ShadowInvariant, PTL

\* A job is only ever started by its own dispatch, although a dispatch may have
\* claimed another one, the head of the lane (claimAndStart).
THEOREM StartedByItsOwnDispatchAlways == Spec => []StartedByItsOwnDispatch
<1>1. ShadowInv => StartedByItsOwnDispatch
  BY DEF ShadowInv, ClaimInv, StartedByAttempt, StartedByItsOwnDispatch
<1> QED BY <1>1, ShadowInvariant, PTL

\* The shadow runtime, with its lost answers, stale sockets, failed calls and
\* restarts, only ever drives the tables as the contract of migration 082 allows.
THEOREM ShadowImplementsContract == Spec => Q!Spec
<1>1. Init => Q!Init
  BY DEF Init
<1>2. ShadowInv /\ [Next]_vars => [Q!Next]_(Q!vars)
  BY Simulates
<1> QED BY <1>1, <1>2, ShadowInvariant, PTL DEF Spec, Q!Spec

LEMMA SamePromises ==
    /\ QP!OneActivePerNode => Q!OneActivePerNode
    /\ QP!NoOvertaking => Q!NoOvertaking
    /\ QP!StatusAgreesWithTimestamps => Q!StatusAgreesWithTimestamps
<1>1. QP!OneActivePerNode => Q!OneActivePerNode
  BY DEF Q!OneActivePerNode, QP!OneActivePerNode, Q!ActiveJobs, QP!ActiveJobs, Q!JobsOf, QP!JobsOf,
     Q!Claimed, QP!Claimed, Q!Exists, QP!Exists, Q!NoRow, QP!NoRow, Q!Jobs, QP!Jobs
<1>2. QP!NoOvertaking => Q!NoOvertaking
  BY DEF Q!NoOvertaking, QP!NoOvertaking, Q!JobsOf, QP!JobsOf,
     Q!Claimed, QP!Claimed, Q!Exists, QP!Exists, Q!NoRow, QP!NoRow, Q!Jobs, QP!Jobs
<1>3. QP!StatusAgreesWithTimestamps => Q!StatusAgreesWithTimestamps
  BY DEF Q!StatusAgreesWithTimestamps, QP!StatusAgreesWithTimestamps,
     Q!Claimed, QP!Claimed, Q!Exists, QP!Exists, Q!NoRow, QP!NoRow, Q!Jobs, QP!Jobs,
     Q!StateMatches, QP!StateMatches, Q!Satisfies, QP!Satisfies
<1> QED BY <1>1, <1>2, <1>3

LEMMA ShadowIsTheQueue == Spec => QP!Spec
<1>1. Init => QP!Init
  BY SameContract DEF Init
<1>2. ShadowInv /\ [Next]_vars => [QP!Next]_(QP!vars)
  BY Simulates, SameContract, SameTables DEF Q!vars, QP!vars
<1> QED BY <1>1, <1>2, ShadowInvariant, PTL DEF Spec, QP!Spec

\* So the shadow inherits the contract's promises: one active job per phone,
\* claims in line order, and a status that agrees with the timestamps.
THEOREM ShadowKeepsContract ==
    Spec => [](Q!OneActivePerNode /\ Q!NoOvertaking /\ Q!StatusAgreesWithTimestamps)
<1>1. QP!Spec => []QP!OneActivePerNode
  BY QP!OneActiveAlways, ContractAssumptions, PTL
  DEF QP!LifecycleAssumption, QP!JobLifecycleAssumption, QP!BoundAssumption
<1>2. QP!Spec => []QP!NoOvertaking
  BY QP!FifoAlways, ContractAssumptions, PTL
  DEF QP!LifecycleAssumption, QP!JobLifecycleAssumption, QP!BoundAssumption
<1>3. QP!Spec => []QP!StatusAgreesWithTimestamps
  BY QP!StatusAlwaysAgrees, ContractAssumptions, PTL
  DEF QP!LifecycleAssumption, QP!JobLifecycleAssumption, QP!BoundAssumption
<1> QED BY <1>1, <1>2, <1>3, ShadowIsTheQueue, SamePromises, PTL

\* Whatever the detached handlers, lost calls and restarts make of their order, a
\* phone's shadow queue is one line and one slot in which each job ends at most once.
THEOREM ShadowImplementsLane == Spec => QP!ImplementsPhoneLane
<1>1. QP!Spec => QP!ImplementsPhoneLane
  BY QP!QueueImplementsLane, ContractAssumptions
  DEF QP!LifecycleAssumption, QP!JobLifecycleAssumption, QP!BoundAssumption
<1> QED BY <1>1, ShadowIsTheQueue, PTL
=============================================================================
