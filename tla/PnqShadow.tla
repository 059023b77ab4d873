------------------------------ MODULE PnqShadow ------------------------------
(***************************************************************************)
(* The Queue v2 shadow runtime: PnqV2RuntimeService and its repository      *)
(* driving the pnq_* functions of QueueV2 from the server's connection,     *)
(* dispatch and result handlers.                                            *)
(*                                                                         *)
(* Every handler runs detached (runPnqV2ShadowSideEffect): each database    *)
(* call is a step of its own, other handlers run in between, any call may   *)
(* fail, and the server may be restarted between any two.                   *)
(***************************************************************************)
EXTENDS Lifecycle, Naturals

CONSTANTS
    Nodes, Keys, Payloads, ExecutionIds, MaxEpoch,   \* as in QueueV2
    Sockets,   \* connection objects the direct WebSocket server creates
    DeviceOf   \* the device a legacy job was created for

VARIABLES
    nodes, jobs, audit,   \* the tables of QueueV2
    legacyMap,            \* pnq_legacy_job_map, by legacy_job_id
    connections,          \* DirectWsServer.connections, by device
    sockets,              \* each connection object and its authentication
    enqueues,             \* progress of enqueueMappedJob, by legacy job
    attempts,             \* progress of claimAndStart, by the uuid it generated
    sent,                 \* jobs a device has received on the wire
    passed                \* how many of a job's deadlines the clock has passed

Q == INSTANCE QueueV2

memory == <<connections, sockets, enqueues, attempts>>
vars == <<nodes, jobs, audit, legacyMap, memory, sent, passed>>

ASSUME ShadowAssumption ==
    /\ DeviceOf \in [Keys -> Nodes]
    /\ NULL \notin Sockets
    /\ Payloads # {}

\* The lifecycle and the bounds QueueV2 asks for.
ASSUME QueueAssumption == Q!JobLifecycleAssumption /\ Q!BoundAssumption

NoRow == Q!NoRow
JobOf(k) == <<DeviceOf[k], k>>
ThePayload == CHOOSE p \in Payloads : TRUE     \* one request payload per legacy job

\* Position in the strictly ordered deadlines of a job.
DispatchDeadline == 1
ResultDeadline == 2     \* queue_deadline_at and execution_deadline_at are never read

AuthSteps == {"register", "bump", "resolve", "done"}
EnqueueSteps == {"none", "register", "insert", "settled"}
AttemptSteps == {"claim", "start", "map", "done"}
SocketRow == [device : Nodes, epoch : Nat \cup {NULL}, step : AuthSteps, seen : Nat \cup {NULL}]
AttemptRow == [key : Keys, epoch : Nat, step : AttemptSteps, version : Nat, generation : Nat]
MapRow == [attempt_execution_id : ExecutionIds \cup {NULL},
           dispatch_generation : Nat \cup {NULL}, socket_epoch : Nat \cup {NULL}]

Unmapped(k) == legacyMap[k] = NoRow
EnqueuePending(k) == enqueues[k] \in {"register", "insert"}
Unused(id, table) == table[id] = NoRow
At(s, step) == sockets[s] # NoRow /\ sockets[s].step = step
AttemptAt(x, step) == attempts[x] # NoRow /\ attempts[x].step = step
EpochOf(d) == IF connections[d] = NULL THEN NULL ELSE sockets[connections[d]].epoch

-----------------------------------------------------------------------------
(* A device connects: onConnectionAuthenticated. *)

\* A new socket replaces the registered one at once; its epoch is unknown.
Connect(d, s) ==
    /\ Unused(s, sockets)
    /\ connections' = [connections EXCEPT ![d] = s]
    /\ sockets' = [sockets EXCEPT ![s] =
          [device |-> d, epoch |-> NULL, step |-> "register", seen |-> NULL]]
    /\ UNCHANGED <<nodes, jobs, audit, legacyMap, enqueues, attempts, sent, passed>>

\* The close handler of the registered socket; a superseded close is ignored.
Disconnect(d) ==
    /\ connections[d] # NULL
    /\ connections' = [connections EXCEPT ![d] = NULL]
    /\ UNCHANGED <<nodes, jobs, audit, legacyMap, sockets, enqueues, attempts, sent, passed>>

AuthRegister(s) ==
    /\ At(s, "register")
    /\ LET d == sockets[s].device IN
       /\ Q!RegisterNode(d)
       /\ sockets' = [sockets EXCEPT ![s].step = "bump",
                                     ![s].seen = nodes'[d].connection_epoch]
    /\ UNCHANGED <<legacyMap, connections, enqueues, attempts, sent, passed>>

\* bumpEpoch returns the row's epoch whether or not its compare-and-swap won.
AuthBump(s) ==
    /\ At(s, "bump")
    /\ LET d == sockets[s].device IN
       /\ Q!BumpConnectionEpoch(d, sockets[s].seen)
       /\ sockets' = [sockets EXCEPT ![s].step = "resolve",
                                     ![s].seen = nodes'[d].connection_epoch]
    /\ UNCHANGED <<legacyMap, connections, enqueues, attempts, sent, passed>>

\* The promise resolves: only the socket still registered takes the epoch.
AuthResolve_AnySocket(s) ==
    /\ At(s, "resolve")
    /\ sockets' = [sockets EXCEPT ![s].step = "done", ![s].epoch = sockets[s].seen]
    /\ UNCHANGED <<nodes, jobs, audit, legacyMap, connections, enqueues, attempts, sent, passed>>
AuthResolve(s) ==
    /\ At(s, "resolve")
    /\ sockets' = [sockets EXCEPT ![s].step = "done",
                                  ![s].epoch = IF connections[sockets[s].device] = s
                                               THEN sockets[s].seen ELSE @]
    /\ UNCHANGED <<nodes, jobs, audit, legacyMap, connections, enqueues, attempts, sent, passed>>

\* A call that fails, or whose answer is lost, resolves the observation to null.
AuthFails(s) ==
    /\ At(s, "register") \/ At(s, "bump") \/ At(s, "resolve")
    /\ sockets' = [sockets EXCEPT ![s].step = "done"]
    /\ UNCHANGED <<nodes, jobs, audit, legacyMap, connections, enqueues, attempts, sent, passed>>

-----------------------------------------------------------------------------
(* A job is admitted: enqueueShadowJob and enqueueMappedJob. *)

EnqueueShadowJob(k) ==
    /\ enqueues[k] = "none"
    /\ enqueues' = [enqueues EXCEPT ![k] = "register"]
    /\ UNCHANGED <<nodes, jobs, audit, legacyMap, connections, sockets, attempts, sent, passed>>

EnqueueRegister(k) ==
    /\ enqueues[k] = "register"
    /\ Q!RegisterNode(DeviceOf[k])
    /\ enqueues' = [enqueues EXCEPT ![k] = "insert"]
    /\ UNCHANGED <<legacyMap, connections, sockets, attempts, sent, passed>>

\* One statement enqueues the job and inserts its map row.
EnqueueInsert(k) ==
    /\ enqueues[k] = "insert"
    /\ Q!EnqueueJob(DeviceOf[k], k, ThePayload)
    /\ legacyMap' = [legacyMap EXCEPT ![k] =
          IF @ = NoRow THEN [attempt_execution_id |-> NULL, dispatch_generation |-> NULL,
                             socket_epoch |-> NULL] ELSE @]
    /\ enqueues' = [enqueues EXCEPT ![k] = "settled"]
    /\ UNCHANGED <<connections, sockets, attempts, sent, passed>>

EnqueueFails(k) ==
    /\ EnqueuePending(k)
    /\ enqueues' = [enqueues EXCEPT ![k] = "settled"]
    /\ UNCHANGED <<nodes, jobs, audit, legacyMap, connections, sockets, attempts, sent, passed>>

-----------------------------------------------------------------------------
(* A job goes out: prepareShadowDispatch and claimAndStart. *)

\* sendObserveOnlyJobToDevice starts the shadow claim with the epoch the socket
\* has now, none if it has none, and sends without waiting for it.
Dispatch(k, x) ==
    LET d == DeviceOf[k] IN
    /\ enqueues[k] # "none"
    /\ Unused(x, attempts)
    /\ connections[d] # NULL
    /\ sent' \in {sent, sent \cup {k}}          \* the socket may not be open
    /\ attempts' = IF EpochOf(d) = NULL THEN attempts
                   ELSE [attempts EXCEPT ![x] =
                           [key |-> k, epoch |-> EpochOf(d), step |-> "claim",
                            version |-> 0, generation |-> 0]]
    /\ UNCHANGED <<nodes, jobs, audit, legacyMap, connections, sockets, enqueues, passed>>

\* Once the enqueue observation has settled: claim the lane's head, and go on
\* only if the row that now carries the uuid is the job that was dispatched.
CarryingIn(table, x) == {j \in Q!Jobs : table[j] # NoRow /\ table[j].execution_id = x}
AfterClaim_AnyJob(a, x, table) ==
    IF CarryingIn(table, x) = {} THEN [a EXCEPT !.step = "done"]
    ELSE LET row == table[CHOOSE j \in CarryingIn(table, x) : TRUE]
         IN  [a EXCEPT !.step = "start", !.version = row.job_version,
                       !.generation = row.dispatch_generation]
AfterClaim_NoNullCheck(a, x, table) ==
    IF CarryingIn(table, x) = {} THEN [a EXCEPT !.step = "start", !.version = NULL,
                                                !.generation = NULL]
    ELSE IF JobOf(a.key) \notin CarryingIn(table, x) THEN [a EXCEPT !.step = "done"]
    ELSE [a EXCEPT !.step = "start", !.version = table[JobOf(a.key)].job_version,
                   !.generation = table[JobOf(a.key)].dispatch_generation]
AfterClaim(a, x, table) ==
    IF JobOf(a.key) \notin CarryingIn(table, x) THEN [a EXCEPT !.step = "done"]
    ELSE LET row == table[JobOf(a.key)]
         IN  [a EXCEPT !.step = "start", !.version = row.job_version,
                       !.generation = row.dispatch_generation]
Claim(x) ==
    LET a == attempts[x] IN
    /\ AttemptAt(x, "claim")
    /\ ~EnqueuePending(a.key)
    /\ ~Unmapped(a.key)
    /\ Q!ClaimNextJob(DeviceOf[a.key], a.epoch, x)
    /\ attempts' = [attempts EXCEPT ![x] = AfterClaim(@, x, jobs')]
    /\ UNCHANGED <<legacyMap, connections, sockets, enqueues, sent, passed>>

\* Whatever pnq_start_execution decides, it returns the row.
Start(x) ==
    LET a == attempts[x] IN
    /\ AttemptAt(x, "start")
    /\ \E j \in CarryingIn(jobs, x) :
          /\ Q!StartExecution(j, a.epoch, a.version, a.generation, x)
          /\ attempts' = [attempts EXCEPT ![x].step = "map",
                                          ![x].generation = jobs'[j].dispatch_generation]
    /\ UNCHANGED <<legacyMap, connections, sockets, enqueues, sent, passed>>

UpdateMap(x) ==
    LET a == attempts[x] IN
    /\ AttemptAt(x, "map")
    /\ legacyMap' = [legacyMap EXCEPT ![a.key] =
          [attempt_execution_id |-> x, dispatch_generation |-> a.generation,
           socket_epoch |-> a.epoch]]
    /\ attempts' = [attempts EXCEPT ![x].step = "done"]
    /\ UNCHANGED <<nodes, jobs, audit, connections, sockets, enqueues, sent, passed>>

\* No map row, or a failed call: the observation is logged and dropped.
AttemptEnds(x) ==
    /\ AttemptAt(x, "claim") \/ AttemptAt(x, "start") \/ AttemptAt(x, "map")
    /\ attempts' = [attempts EXCEPT ![x].step = "done"]
    /\ UNCHANGED <<nodes, jobs, audit, legacyMap, connections, sockets, enqueues, sent, passed>>

-----------------------------------------------------------------------------
(* A result arrives, the sweep runs, time passes, the server restarts. *)

\* The result handler of any connection object, replaced or not, with the epoch
\* that object holds; without a recorded attempt the result is not recorded.
\* The device may deliver a result late, again, or over a later socket.
RecordShadowResult(s, k, success) ==
    /\ ~Unused(s, sockets)
    /\ sockets[s].epoch # NULL
    /\ sockets[s].device = DeviceOf[k]
    /\ k \in sent
    /\ ~Unmapped(k)
    /\ legacyMap[k].attempt_execution_id # NULL
    /\ Q!RecordResult(JobOf(k), legacyMap[k].attempt_execution_id, sockets[s].epoch,
                      legacyMap[k].dispatch_generation, success)
    /\ UNCHANGED <<legacyMap, memory, sent, passed>>

\* The WHERE of markExpiredActiveStuck.
Expired_RunningOnly(j) ==
    /\ jobs[j] # NoRow
    /\ StateMatches(jobs[j].status, [initial |-> FALSE, terminal |-> FALSE])
    /\ jobs[j].execution_started_at
    /\ passed[j[2]] >= ResultDeadline
Expired(j) ==
    /\ jobs[j] # NoRow
    /\ StateMatches(jobs[j].status, [initial |-> FALSE, terminal |-> FALSE])
    /\ \/ /\ jobs[j].dispatch_started_at /\ ~jobs[j].execution_started_at
          /\ passed[j[2]] >= DispatchDeadline
       \/ /\ jobs[j].execution_started_at
          /\ passed[j[2]] >= ResultDeadline

\* reconcileStartup and the periodic sweep.  The rows are locked when they are
\* read, so marking them in one transaction is marking them one by one.
MarkExpiredActiveStuck(j) ==
    /\ Expired(j)
    /\ Q!MarkStuck(j)
    /\ UNCHANGED <<legacyMap, memory, sent, passed>>

DeadlinePasses(k) ==
    /\ jobs[JobOf(k)] # NoRow
    /\ passed[k] < ResultDeadline
    /\ passed' = [passed EXCEPT ![k] = @ + 1]
    /\ UNCHANGED <<nodes, jobs, audit, legacyMap, memory, sent>>

\* Everything in memory is gone: sockets, observations, half-done attempts.
Restart ==
    /\ connections' = [d \in Nodes |-> NULL]
    /\ sockets' = [s \in Sockets |->
          IF Unused(s, sockets) THEN NoRow
          ELSE [sockets[s] EXCEPT !.step = "done", !.epoch = NULL]]
    /\ enqueues' = [k \in Keys |-> IF EnqueuePending(k) THEN "settled" ELSE enqueues[k]]
    /\ attempts' = [x \in ExecutionIds |->
          IF Unused(x, attempts) THEN NoRow ELSE [attempts[x] EXCEPT !.step = "done"]]
    /\ UNCHANGED <<nodes, jobs, audit, legacyMap, sent, passed>>

-----------------------------------------------------------------------------
Init ==
    /\ Q!Init
    /\ legacyMap = [k \in Keys |-> NoRow]
    /\ connections = [d \in Nodes |-> NULL]
    /\ sockets = [s \in Sockets |-> NoRow]
    /\ enqueues = [k \in Keys |-> "none"]
    /\ attempts = [x \in ExecutionIds |-> NoRow]
    /\ sent = {}
    /\ passed = [k \in Keys |-> 0]

Next ==
    \/ \E d \in Nodes, s \in Sockets : Connect(d, s)
    \/ \E d \in Nodes : Disconnect(d)
    \/ \E s \in Sockets : AuthRegister(s) \/ AuthBump(s) \/ AuthResolve(s) \/ AuthFails(s)
    \/ \E k \in Keys : \/ EnqueueShadowJob(k) \/ EnqueueRegister(k)
                       \/ EnqueueInsert(k) \/ EnqueueFails(k)
    \/ \E k \in Keys, x \in ExecutionIds : Dispatch(k, x)
    \/ \E x \in ExecutionIds : Claim(x) \/ Start(x) \/ UpdateMap(x) \/ AttemptEnds(x)
    \/ \E s \in Sockets, k \in Keys, success \in BOOLEAN : RecordShadowResult(s, k, success)
    \/ \E j \in Q!Jobs : MarkExpiredActiveStuck(j)
    \/ \E k \in Keys : DeadlinePasses(k)
    \/ Restart

Spec == Init /\ [][Next]_vars

\* setInterval keeps the sweep running in every server that stays up, and the
\* clock moves on; nothing obliges a device to connect or a job to be sent.
SweepFairness ==
    /\ \A j \in Q!Jobs : WF_vars(MarkExpiredActiveStuck(j))
    /\ \A k \in Keys : WF_vars(DeadlinePasses(k))
FairSpec == Spec /\ SweepFairness

-----------------------------------------------------------------------------
(* What the shadow promises. *)

\* The connection registry, the observations and the map keep their shapes.
TypeOK ==
    /\ Q!TypeOK
    /\ legacyMap \in [Keys -> MapRow \cup {NoRow}]
    /\ connections \in [Nodes -> Sockets \cup {NULL}]
    /\ sockets \in [Sockets -> SocketRow \cup {NoRow}]
    /\ enqueues \in [Keys -> EnqueueSteps]
    /\ attempts \in [ExecutionIds -> AttemptRow \cup {NoRow}]
    /\ sent \subseteq Keys
    /\ passed \in [Keys -> 0..ResultDeadline]

\* Two connection objects never hold the same epoch, although a bump that loses
\* its compare-and-swap is answered with the winner's epoch: the result handler
\* trusts the epoch to say which socket claimed the job.
EpochNamesOneSocket ==
    \A s, t \in Sockets :
        /\ ~Unused(s, sockets) /\ ~Unused(t, sockets)
        /\ sockets[s].device = sockets[t].device
        /\ sockets[s].epoch # NULL /\ sockets[s].epoch = sockets[t].epoch
        => s = t

\* The attempt a map row names is the claim of that row's own job: same
\* execution id, generation and epoch, although the row is written two
\* transactions after the claim.
MapNamesTheClaim ==
    \A k \in Keys : ~Unmapped(k) /\ legacyMap[k].attempt_execution_id # NULL =>
        /\ jobs[JobOf(k)].execution_id = legacyMap[k].attempt_execution_id
        /\ jobs[JobOf(k)].dispatch_generation = legacyMap[k].dispatch_generation
        /\ jobs[JobOf(k)].claimed_connection_epoch = legacyMap[k].socket_epoch

\* Only the dispatch of a job starts it.  A dispatch may claim another job, the
\* head of the lane, but it never reports that one as running.
StartedByItsOwnDispatch ==
    \A j \in Q!Jobs : jobs[j] # NoRow /\ jobs[j].execution_started_at =>
        attempts[jobs[j].execution_id].key = j[2]

\* Whatever is lost, a job that left the queue is finished in the end and frees
\* its phone's lane.
ActiveEventuallyFinished ==
    \A j \in Q!Jobs :
        (jobs[j] # NoRow /\ jobs[j].dispatch_started_at /\ ~jobs[j].terminal_at)
            ~> (jobs[j] # NoRow /\ jobs[j].terminal_at)
==============================================================================
