---------------------------- MODULE EdgeWorkflow ----------------------------
(***************************************************************************)
(* Generated workflows that run on the phone ("edge"): the workflows row,   *)
(* its edge_workflow root in the device execution arbiter, the handle that  *)
(* admits the phone's WORKFLOW_STATUS, and everyone who moves them: the     *)
(* task that dispatches and waits, the queue pumps, the status handlers     *)
(* (not awaited, so they overlap), the ACK timers, the progress sweep, the  *)
(* cancellation API, a disconnect and a restart.  One phone.                *)
(*                                                                         *)
(* A root is abstracted to what these actors tell apart: its generation     *)
(* never matters here, because it only grows when a queued root is sent and *)
(* nothing holds a handle before that.                                      *)
(***************************************************************************)
EXTENDS Integers, Sequences, FiniteSets

CONSTANTS
    Workflows,
    Pumps,         \* concurrent runs of dispatchQueuedJobsForDevice
    Statuses, StateDefinitions, Transitions,   \* the lifecycle of workflows
    ActiveStatuses,    \* the states whose metadata says countsAsActive
    MaxPerDevice,      \* scalabilityConfig.maxWorkflowsPerDevice
    MaxReports,    \* bound: WORKFLOW_STATUS messages of one workflow
    MaxDrops,      \* bound: disconnects
    MaxCrashes,    \* bound: restarts of the server
    NULL

W == INSTANCE Lifecycle

\* A device may report status v for a row of status s.
MayReport(s, v) ==
    \E t \in Transitions : t.from_status = s /\ t.to_status = v /\ t.external_allowed
Ended(s) == StateDefinitions[s].terminal

\* A dispatcher is a task of a workflow or a pump, and there is a status to create
\* a row with.  The phone's own states are not statuses of the lifecycle.
ASSUME EdgeAssumption ==
    /\ W!LifecycleAssumption
    /\ MaxReports \in Nat
    /\ Workflows \cap Pumps = {}
    /\ \E s \in Statuses : StateDefinitions[s].initial
    /\ \A s \in Statuses : StateDefinitions[s].initial => ~Ended(s)
    /\ {"idle", "given", "stopped"} \cap Statuses = {}

\* There is one status of each kind of end, named as the ends of a root are.
ASSUME EndAssumption ==
    \A s \in Statuses : Ended(s) =>
        s = IF StateDefinitions[s].administrative THEN "cancelled"
            ELSE IF StateDefinitions[s].retryable THEN "failed" ELSE "completed"

\* A row that has ended neither runs nor fails again; a verdict the device may give
\* late it might have given before, and it may still give it while the row runs or
\* when only the server has failed the row.
ASSUME VerdictAssumption ==
    \A t \in Transitions, v \in Statuses :
        /\ Ended(t.from_status) => Ended(t.to_status) /\ t.to_status # "failed"
        /\ Ended(v) /\ MayReport(t.to_status, v) => MayReport(t.from_status, v)
        /\ Ended(v) /\ MayReport(t.from_status, v) /\ (Ended(t.to_status) => t.to_status = "failed")
              => MayReport(t.to_status, v) \/ v = t.to_status

VARIABLES
    rows,      \* workflows: status, checkpoint by the phone?, checkpoint's id
    roots,     \* state of the edge_workflow root
    lane,      \* roots in fifo_sequence order
    procs,     \* who is dispatching: one task per workflow, and the pumps
    pending,   \* pendingWorkflows: workflows whose handle is registered
    handlers,  \* WORKFLOW_STATUS handlers in flight
    timers,    \* ACK watchdogs that are set
    aged,      \* rows whose current checkpoint has passed its deadline
    sweep,     \* the checkpoint the sweep has judged stale, or NULL
    releases,  \* what a watchdog that failed a row has left to do
    phone,     \* what the phone does with the workflow
    frames,    \* WORKFLOW_START frames sent
    reports,   \* WORKFLOW_STATUS messages arrived
    occupied,  \* another root, of a job, holds the phone
    online, up, drops, crashes

database == <<rows, roots, lane>>
memory == <<procs, pending, handlers, timers, sweep, releases>>
world == <<phone, frames, reports, occupied, online, up, drops, crashes>>
vars == <<database, memory, aged, world>>

Row == [status : Statuses \cup {NULL}, acked : BOOLEAN, stamp : 0 .. MaxReports]
Holding == {"dispatching", "dispatched", "ambiguous"}
RootEnds == {"completed", "failed", "cancelled"}
RootStates == {"none", "queued"} \cup Holding \cup RootEnds
Report == [workflow : Workflows, status : Statuses, id : 1 .. MaxReports]
Handler == [report : Report, phase : {"resolve", "observe", "persist"}]
Phases == {"idle", "created", "fetched", "ready", "sent", "unsent", "mark", "fail",
           "waiting", "done"}
Proc == [phase : Phases, on : Workflows \cup {NULL},
         outcome : Statuses \cup {NULL, "failed"}]

-----------------------------------------------------------------------------
(* The workflows row. *)

InState(w, selector) ==
    rows[w].status \in Statuses /\ W!StateMatches(rows[w].status, selector)
Queued(w) == InState(w, [initial |-> TRUE])
Terminal(w) == InState(w, [terminal |-> TRUE])
Active(w) == rows[w].status \in ActiveStatuses

\* The selectors of markRunning, markFailed... and cancel.
ToRunning == [terminal |-> FALSE, administrative |-> FALSE, dispatchable |-> FALSE]
ToFailed == [terminal |-> TRUE, retryable |-> TRUE, administrative |-> FALSE]
ToCancelled == [terminal |-> TRUE, administrative |-> TRUE]
Starting == [mark_started |-> TRUE, mark_completed |-> FALSE]
Completing == [mark_completed |-> TRUE]
Manually == [manual_allowed |-> TRUE]

\* transitionWorkflow: one candidate moves the row, none or several leave it.
Moves(w, target, edge) == W!HasTarget(rows[w].status, target, edge)
Moved(w, target, edge) ==
    IF Moves(w, target, edge)
    THEN [rows EXCEPT ![w].status = W!TransitionTarget(@, target, edge)] ELSE rows

\* resolveExternalWorkflowLifecycleTarget: the status the phone names, if the
\* lifecycle lets a device move the row there.
ExternallyReachable(w, status) == MayReport(rows[w].status, status)

\* reconcileTerminalWorkflowRoots: every ambiguous root whose row has ended.
Reconciled(state) ==
    [w \in Workflows |->
        IF state[w] = "ambiguous" /\ Terminal(w) THEN rows[w].status ELSE state[w]]

-----------------------------------------------------------------------------
(* dispatchGeneratedWorkflowTemplate, up to the row. *)

Goes(p, phase) == procs' = [procs EXCEPT ![p].phase = phase]
Fails(p) == procs' = [procs EXCEPT ![p].phase = "done", ![p].outcome = "failed"]

\* The admission of a task: the phone is connected and has room.
Accept(w) ==
    /\ up /\ procs[w].phase = "idle"
    /\ IF online /\ Cardinality({v \in Workflows : Active(v)}) < MaxPerDevice
       THEN Goes(w, "created") ELSE Fails(w)
    /\ UNCHANGED <<database, pending, handlers, timers, sweep, releases, aged, world>>

Create(w) ==
    /\ up /\ procs[w].phase = "created"
    /\ rows' = [rows EXCEPT ![w] =
                    [status |-> CHOOSE s \in Statuses : StateDefinitions[s].initial,
                     acked |-> FALSE, stamp |-> 0]]
    /\ Goes(w, "fetched")
    /\ UNCHANGED <<roots, lane, pending, handlers, timers, sweep, releases, aged, world>>

\* nextQueuedDispatchEnvelope: the head of the lane, read without a lock.
HeadOfQueue(w) ==
    \E i \in DOMAIN lane :
        /\ lane[i] = w /\ roots[w] = "queued"
        /\ \A j \in DOMAIN lane : j < i => roots[lane[j]] # "queued"
Fetch(p) ==
    /\ up /\ online /\ procs[p].phase = "idle"
    /\ \E w \in Workflows :
          /\ HeadOfQueue(w)
          /\ procs' = [procs EXCEPT ![p].phase = "fetched", ![p].on = w]
    /\ UNCHANGED <<database, pending, handlers, timers, sweep, releases, aged, world>>

-----------------------------------------------------------------------------
(* runObservedEgress of an edge workflow, and what its caller does next. *)

\* A dispatcher whose workflow is queued waits; a pump that sent nothing stops.
Queues(p) == Goes(p, IF p \in Workflows THEN "waiting" ELSE "idle")
GivesUp(p) == Goes(p, IF p \in Workflows THEN "fail" ELSE "idle")

DeviceHeldByOther(w) == occupied \/ \E v \in Workflows \ {w} : roots[v] \in Holding
Lane(w) == IF roots[w] = "none" THEN Append(lane, w) ELSE lane
OldestQueued(w) == \A v \in Workflows : roots[v] # "queued" \/ v = w \/
    \E i, j \in DOMAIN Lane(w) : i < j /\ Lane(w)[i] = w /\ Lane(w)[j] = v

\* The first transaction: admit the root if need be, and claim the phone for it.
\* A root that is already dispatching or dispatched is ready to send again.
Prepare(p) ==
    LET w == procs[p].on
        admitted == [roots EXCEPT ![w] = IF @ = "none" THEN "queued" ELSE @] IN
    /\ up /\ procs[p].phase = "fetched"
    /\ lane' = Lane(w)
    /\ CASE roots[w] \in RootEnds \cup {"ambiguous"} -> GivesUp(p) /\ roots' = roots
         [] admitted[w] = "queued" /\ (DeviceHeldByOther(w) \/ ~OldestQueued(w)) ->
                Queues(p) /\ roots' = admitted
         [] OTHER -> /\ Goes(p, "ready")
                     /\ roots' = [admitted EXCEPT ![w] = IF @ = "queued" THEN "dispatching" ELSE @]
    /\ UNCHANGED <<rows, pending, handlers, timers, sweep, releases, aged, world>>

\* sendWorkflowStartWithHandle.  The phone takes a repeated frame for the
\* workflow it already has.
Send(p) ==
    LET w == procs[p].on IN
    /\ up /\ procs[p].phase = "ready"
    /\ IF online
       THEN /\ Goes(p, "sent")
            /\ pending' = pending \cup {w}
            /\ frames' = [frames EXCEPT ![w] = @ + 1]
            /\ phone' = [phone EXCEPT ![w] = IF @ = "idle" THEN "given" ELSE @]
       ELSE Goes(p, "unsent") /\ UNCHANGED <<pending, frames, phone>>
    /\ UNCHANGED <<database, handlers, timers, sweep, releases, aged,
                   reports, occupied, online, up, drops, crashes>>

\* The second transaction.
RecordSent(p) ==
    LET w == procs[p].on IN
    /\ up /\ procs[p].phase = "sent"
    /\ roots' = [roots EXCEPT ![w] = IF @ = "dispatching" THEN "dispatched" ELSE @]
    /\ Goes(p, "mark")
    /\ UNCHANGED <<rows, lane, pending, handlers, timers, sweep, releases, aged, world>>

RecordUnsent(p) ==
    LET w == procs[p].on IN
    /\ up /\ procs[p].phase = "unsent"
    /\ roots' = [roots EXCEPT ![w] = IF @ \in {"dispatching", "dispatched"} THEN "ambiguous" ELSE @]
    /\ GivesUp(p)
    /\ UNCHANGED <<rows, lane, pending, handlers, timers, sweep, releases, aged, world>>

\* markRunning and the ACK watchdog: the dispatcher throws when the row did not
\* move, promoteReplayedEdgeWorkflowToRunning looks again.
MarkRunning(p) ==
    LET w == procs[p].on
        moved == Moves(w, ToRunning, Starting) IN
    /\ up /\ procs[p].phase = "mark"
    /\ rows' = Moved(w, ToRunning, Starting)
    /\ IF p \in Workflows
       THEN /\ IF moved THEN Goes(p, "waiting") ELSE Fails(p)
            /\ timers' = IF moved THEN timers \cup {w} ELSE timers
       ELSE /\ procs' = [procs EXCEPT ![p].phase = "idle", ![p].on = NULL]
            /\ timers' = IF moved \/ ~(Terminal(w) \/ rows[w].acked)
                         THEN timers \cup {w} ELSE timers
    /\ UNCHANGED <<roots, lane, pending, handlers, sweep, releases, aged, world>>

\* Neither sent nor queued: markFailed, and the task fails.
MarkFailed(w) ==
    /\ up /\ procs[w].phase = "fail"
    /\ rows' = Moved(w, ToFailed, Completing)
    /\ Fails(w)
    /\ UNCHANGED <<roots, lane, pending, handlers, timers, sweep, releases, aged, world>>

-----------------------------------------------------------------------------
(* The waiting task and the cancellation API. *)

\* waitForGeneratedWorkflowFinal returns with the row it polled.
TaskEnds(w) ==
    /\ up /\ procs[w].phase = "waiting" /\ Terminal(w)
    /\ procs' = [procs EXCEPT ![w].phase = "done", ![w].outcome = rows[w].status]
    /\ UNCHANGED <<database, pending, handlers, timers, sweep, releases, aged, world>>

\* cancelPersistedWorkflowSafely, by the operator or by the queue timeout of the
\* waiting task.  cancelQueuedPersistedWorkflow looks for a server_workflow root
\* and an edge workflow has none, so only the row ends.
Cancel(w) ==
    /\ up /\ Queued(w) /\ Moves(w, ToCancelled, Manually)
    /\ rows' = Moved(w, ToCancelled, Manually)
    /\ UNCHANGED <<roots, lane, memory, aged, world>>

-----------------------------------------------------------------------------
(* The phone and _handleWorkflowStatus. *)

\* A status of the phone reaches the server, or is lost with the connection: a
\* status without a registered handle is refused.
PhoneReports(w, status) ==
    LET id == reports[w] + 1
        report == [workflow |-> w, status |-> status, id |-> id] IN
    /\ phone[w] \in {"given", "running"} /\ id <= MaxReports
    /\ phone' = [phone EXCEPT ![w] = status]
    /\ reports' = [reports EXCEPT ![w] = id]
    /\ handlers' = IF up /\ online /\ w \in pending
                   THEN handlers \cup {[report |-> report, phase |-> "resolve"]} ELSE handlers
    /\ UNCHANGED <<database, procs, pending, timers, sweep, releases, aged,
                   frames, occupied, online, up, drops, crashes>>

Becomes(h, phase) == handlers' = (handlers \ {h}) \cup {[h EXCEPT !.phase = phase]}

\* The target is resolved against the row as it is now; a terminal one goes to
\* the arbiter first.
Resolve(h) ==
    /\ h.phase = "resolve"
    /\ Becomes(h, IF /\ ExternallyReachable(h.report.workflow, h.report.status)
                     /\ StateDefinitions[h.report.status].terminal
                  THEN "observe" ELSE "persist")
    /\ UNCHANGED <<database, procs, pending, timers, sweep, releases, aged, world>>

\* observeTerminal with the handle: a root that has ended refuses the result, and
\* then the status is not persisted.
ObserveTerminal(h) ==
    LET w == h.report.workflow IN
    /\ h.phase = "observe"
    /\ IF roots[w] \in RootEnds
       THEN handlers' = handlers \ {h} /\ UNCHANGED <<roots, pending>>
       ELSE /\ roots' = [roots EXCEPT ![w] = h.report.status]
            /\ pending' = pending \ {w}
            /\ Becomes(h, "persist")
    /\ UNCHANGED <<rows, lane, procs, timers, sweep, releases, aged, world>>

\* (variant: a row that has ended takes no status)
Persist_OpenRowsOnly(h) ==
    LET w == h.report.workflow IN
    /\ h.phase = "persist"
    /\ IF ExternallyReachable(w, h.report.status) /\ ~Terminal(w)
       THEN /\ rows' = [rows EXCEPT ![w] = [status |-> h.report.status, acked |-> TRUE,
                                            stamp |-> h.report.id]]
            /\ aged' = aged \ {w}
       ELSE UNCHANGED <<rows, aged>>
    /\ handlers' = handlers \ {h}
    /\ UNCHANGED <<roots, lane, procs, pending, timers, sweep, releases, world>>

\* _persistWorkflowStatus: resolved again; refused statuses are only logged.
Persist(h) ==
    LET w == h.report.workflow IN
    /\ h.phase = "persist"
    /\ IF ExternallyReachable(w, h.report.status)
       THEN /\ rows' = [rows EXCEPT ![w] = [status |-> h.report.status, acked |-> TRUE,
                                            stamp |-> h.report.id]]
            /\ aged' = aged \ {w}
       ELSE UNCHANGED <<rows, aged>>
    /\ handlers' = handlers \ {h}
    /\ UNCHANGED <<roots, lane, procs, pending, timers, sweep, releases, world>>

-----------------------------------------------------------------------------
(* Watchdogs. *)

\* A deadline of the current checkpoint passes.
Age(w) ==
    /\ Active(w) /\ w \notin aged
    /\ aged' = aged \cup {w}
    /\ UNCHANGED <<database, memory, world>>

\* A watchdog fails the row if its checkpoint is still the one it judged.
WatchdogFails(w, still) ==
    /\ IF still /\ Moves(w, ToFailed, Completing)
       THEN /\ rows' = Moved(w, ToFailed, Completing)
            /\ releases' = [releases EXCEPT ![w] = "release"]
       ELSE UNCHANGED <<rows, releases>>

\* scheduleEdgeWorkflowAckWatchdog's timer.
AckTimeout(w) ==
    /\ up /\ w \in timers
    /\ timers' = timers \ {w}
    /\ WatchdogFails(w, ~rows[w].acked)
    /\ UNCHANGED <<roots, lane, procs, pending, handlers, sweep, aged, world>>

\* (variant: left to the ACK timers)
SweepReads_AckedOnly(w) ==
    /\ up /\ Active(w) /\ w \in aged /\ sweep[w] = NULL /\ rows[w].acked
    /\ sweep' = [sweep EXCEPT ![w] = rows[w]]
    /\ UNCHANGED <<database, procs, pending, handlers, timers, releases, aged, world>>

\* sweepStaleEdgeWorkflows: a stale row is read ...
SweepReads(w) ==
    /\ up /\ Active(w) /\ w \in aged /\ sweep[w] = NULL
    /\ sweep' = [sweep EXCEPT ![w] = rows[w]]
    /\ UNCHANGED <<database, procs, pending, handlers, timers, releases, aged, world>>

\* (variant: no comparison of checkpoints)
SweepFails_NoCas(w) ==
    /\ up /\ sweep[w] # NULL
    /\ sweep' = [sweep EXCEPT ![w] = NULL]
    /\ WatchdogFails(w, sweep[w].acked = rows[w].acked)
    /\ UNCHANGED <<roots, lane, procs, pending, handlers, timers, aged, world>>

\* ... and failed if it was not acknowledged and still is not, or if its
\* checkpoint is still the one read.
SweepFails(w) ==
    /\ up /\ sweep[w] # NULL
    /\ sweep' = [sweep EXCEPT ![w] = NULL]
    /\ WatchdogFails(w, IF sweep[w].acked THEN rows[w].acked /\ rows[w].stamp = sweep[w].stamp
                        ELSE ~rows[w].acked)
    /\ UNCHANGED <<roots, lane, procs, pending, handlers, timers, aged, world>>

\* (variant: no repair)
Release_InFlightOnly(w) ==
    /\ up /\ releases[w] = "release"
    /\ roots' = [roots EXCEPT ![w] = IF @ \in {"dispatching", "dispatched"} THEN "failed" ELSE @]
    /\ releases' = [releases EXCEPT ![w] = "cancel"]
    /\ UNCHANGED <<rows, lane, procs, pending, handlers, timers, sweep, aged, world>>

\* releaseTimedOutEdgeWorkflowOwnership: end a root that is in flight, or else
\* repair the ambiguous ones.
Release(w) ==
    /\ up /\ releases[w] = "release"
    /\ roots' = IF roots[w] \in {"dispatching", "dispatched"}
                THEN [roots EXCEPT ![w] = "failed"] ELSE Reconciled(roots)
    /\ releases' = [releases EXCEPT ![w] = "cancel"]
    /\ UNCHANGED <<rows, lane, procs, pending, handlers, timers, sweep, aged, world>>

\* sendTimedOutEdgeWorkflowCancellation.
SendCancel(w) ==
    /\ up /\ releases[w] = "cancel"
    /\ releases' = [releases EXCEPT ![w] = "no"]
    /\ \/ phone' = phone
       \/ /\ online /\ phone[w] \in {"given", "running"}
          /\ phone' = [phone EXCEPT ![w] = "stopped"]
    /\ UNCHANGED <<database, procs, pending, handlers, timers, sweep, aged,
                   frames, reports, occupied, online, up, drops, crashes>>

\* markAmbiguous on a root in flight, then the handle goes: expirePendingWorkflow,
\* or a disconnect.
Ambiguous(ws) ==
    /\ roots' = [w \in Workflows |->
                    IF w \in ws /\ roots[w] \in {"dispatching", "dispatched"}
                    THEN "ambiguous" ELSE roots[w]]
    /\ pending' = pending \ ws
ExpirePending(w) ==
    /\ up /\ w \in pending /\ roots[w] # "ambiguous"
    /\ Ambiguous({w})
    /\ UNCHANGED <<rows, lane, procs, handlers, timers, sweep, releases, aged, world>>

\* The job that holds the phone ends.
OtherEnds ==
    /\ occupied /\ occupied' = FALSE
    /\ UNCHANGED <<database, memory, aged, phone, frames, reports, online, up, drops, crashes>>

-----------------------------------------------------------------------------
(* Faults. *)

Disconnect ==
    /\ up /\ online /\ drops < MaxDrops
    /\ online' = FALSE /\ drops' = drops + 1
    /\ Ambiguous(pending)
    /\ UNCHANGED <<rows, lane, procs, handlers, timers, sweep, releases, aged,
                   phone, frames, reports, occupied, up, crashes>>

Connect ==
    /\ up /\ ~online /\ online' = TRUE
    /\ UNCHANGED <<database, memory, aged, phone, frames, reports, occupied, up, drops, crashes>>

NoMemory ==
    /\ pending' = {} /\ handlers' = {} /\ timers' = {}
    /\ sweep' = [w \in Workflows |-> NULL]
    /\ releases' = [w \in Workflows |-> "no"]
    \* A task stays without an outcome; pumps start over.
    /\ procs' = [p \in Workflows \cup Pumps |->
                    IF p \in Pumps THEN [procs[p] EXCEPT !.phase = "idle", !.on = NULL]
                    ELSE IF procs[p].phase = "idle" THEN procs[p]
                    ELSE [procs[p] EXCEPT !.phase = "done"]]

\* (variant: the registry of connections outlives the process)
Crash_KeepsConnection ==
    /\ up /\ crashes < MaxCrashes
    /\ up' = FALSE /\ online' = online /\ crashes' = crashes + 1
    /\ NoMemory
    /\ UNCHANGED <<database, aged, phone, frames, reports, occupied, drops>>
Crash ==
    /\ up /\ crashes < MaxCrashes
    /\ up' = FALSE /\ online' = FALSE /\ crashes' = crashes + 1
    /\ NoMemory
    /\ UNCHANGED <<database, aged, phone, frames, reports, occupied, drops>>

\* Startup: roots in flight become ambiguous, then those whose row ended end.
Restart ==
    /\ ~up /\ up' = TRUE
    /\ roots' = Reconciled([w \in Workflows |->
                    IF roots[w] \in {"dispatching", "dispatched"} THEN "ambiguous" ELSE roots[w]])
    /\ UNCHANGED <<rows, lane, memory, aged, phone, frames, reports, occupied, online, drops, crashes>>

-----------------------------------------------------------------------------
Init ==
    /\ rows = [w \in Workflows |-> [status |-> NULL, acked |-> FALSE, stamp |-> 0]]
    /\ roots = [w \in Workflows |-> "none"] /\ lane = <<>>
    /\ procs = [p \in Workflows \cup Pumps |->
                   [phase |-> "idle", on |-> IF p \in Workflows THEN p ELSE NULL, outcome |-> NULL]]
    /\ pending = {} /\ handlers = {} /\ timers = {} /\ aged = {}
    /\ sweep = [w \in Workflows |-> NULL]
    /\ releases = [w \in Workflows |-> "no"]
    /\ phone = [w \in Workflows |-> "idle"]
    /\ frames = [w \in Workflows |-> 0] /\ reports = [w \in Workflows |-> 0]
    /\ occupied \in BOOLEAN
    /\ online = TRUE /\ up = TRUE /\ drops = 0 /\ crashes = 0

Egress(p) == Prepare(p) \/ Send(p) \/ RecordSent(p) \/ RecordUnsent(p) \/ MarkRunning(p)
Handle(h) == Resolve(h) \/ ObserveTerminal(h) \/ Persist(h)
PhoneStatuses == {s \in Statuses : \E t \in Transitions : t.external_allowed /\ t.to_status = s}

Next ==
    \/ \E w \in Workflows :
          \/ Accept(w) \/ Create(w) \/ MarkFailed(w) \/ TaskEnds(w) \/ Cancel(w)
          \/ Age(w) \/ AckTimeout(w) \/ SweepReads(w) \/ SweepFails(w)
          \/ Release(w) \/ SendCancel(w) \/ ExpirePending(w)
          \/ \E status \in PhoneStatuses : PhoneReports(w, status)
    \/ \E p \in Pumps : Fetch(p)
    \/ \E p \in Workflows \cup Pumps : Egress(p)
    \/ \E h \in handlers : Handle(h)
    \/ OtherEnds \/ Disconnect \/ Connect \/ Crash \/ Restart

\* The server's own steps: an awaited call returns, an interval fires again, a
\* deadline passes, a supervisor restarts the process.  The phone owes nothing.
Spec == Init /\ [][Next]_vars
Handling == \E h \in handlers : Handle(h)
FairSpec ==
    /\ Spec /\ WF_vars(Handling) /\ WF_vars(Restart)
    /\ \A w \in Workflows : /\ WF_vars(Age(w)) /\ WF_vars(SweepReads(w)) /\ WF_vars(SweepFails(w))
                            /\ WF_vars(Release(w))
    /\ \A p \in Workflows \cup Pumps : WF_vars(Egress(p))

-----------------------------------------------------------------------------
(* Properties. *)

\* Types of rows, roots, handles and everything the actors keep.
TypeOK ==
    /\ rows \in [Workflows -> Row] /\ roots \in [Workflows -> RootStates]
    /\ lane \in Seq(Workflows) /\ procs \in [Workflows \cup Pumps -> Proc]
    /\ pending \subseteq Workflows /\ timers \subseteq Workflows /\ aged \subseteq Workflows
    /\ handlers \subseteq Handler
    /\ sweep \in [Workflows -> Row \cup {NULL}]
    /\ releases \in [Workflows -> {"no", "release", "cancel"}]
    /\ \A w \in Workflows : frames[w] > 0 <=> phone[w] # "idle"
    /\ online => up

\* Once the phone's verdict has ended the root and its status handler is through,
\* the row says the same, unless it was cancelled: the verdict is not lost to a
\* watchdog that fails the row between the two transactions.
OutcomeReachesRow ==
    \A w \in Workflows :
        crashes = 0 /\ roots[w] \in RootEnds
            /\ (\A h \in handlers : h.report.workflow = w => h.phase # "persist")
        => rows[w].status \in {roots[w], "cancelled"}

\* A watchdog never fails a row on a checkpoint it did not judge: when it does,
\* the phone has not reported yet, or has been silent past the deadline since
\* the checkpoint that is in the row.
WatchdogFailsOnlySilence ==
    [][\A w \in Workflows :
          releases[w] # "release" /\ releases'[w] = "release" => ~rows[w].acked \/ w \in aged]_vars

\* A running workflow ends, whatever became of its phone, its timers or the
\* server's memory: the progress sweep finds every row that went silent.
RunningEnds == \A w \in Workflows : Active(w) ~> Terminal(w)

\* A workflow that a watchdog failed gives its phone back, also when the root has
\* become ambiguous or the server restarts between the two.
WatchdogFreesPhone ==
    \A w \in Workflows : releases[w] = "release" ~> roots[w] \in RootEnds

\* workflow-cancellation.service.ts:32: "Only a workflow that is still queued may be
\* cancelled", row and root in one transaction, so a cancelled one is not sent.
CancelledIsNotSent ==
    [][\A w \in Workflows : rows[w].status = "cancelled" => frames'[w] = frames[w]]_vars
=============================================================================
