---------------------------- MODULE SegmentBuild ----------------------------
(***************************************************************************)
(* A segment build job: the server asks an external agent over a web hook   *)
(* to build the workflow segments of a missing capability; the agent claims *)
(* the job, submits a candidate, has it run once on the device (the canary) *)
(* and whoever then reads the job promotes the candidate.  The job row, the *)
(* execution binding (one row per request key, so one per job), the control *)
(* plane's versions and the canary runs are written by different handlers   *)
(* in transactions of their own, while hook calls, polls, sweeps and agents *)
(* whose lease has run out overlap.                                         *)
(*                                                                         *)
(* Every agent session presents the one configured agent id, so any of them *)
(* passes for the assigned agent.  A version stands for a composition, the  *)
(* segments it names and the execution key computed from them.  The job is  *)
(* one a compile request created because no capability matched its intent.  *)
(***************************************************************************)
EXTENDS Naturals, FiniteSets

CONSTANTS
    Versions,     \* bound: candidate versions the agents submit
    Runs,         \* canary runs: bound on the calls of /canary that queue one
    Callers,      \* compile requests: each dispatches the job it created or found
    Retriers,     \* calls of reconcileBlockedForRetry
    MaxHandlers,  \* bound: handlers in flight at a time
    MaxCrashes,   \* bound: restarts of the server
    Statuses, StateDefinitions, Transitions,   \* the lifecycle of build jobs
    NULL

L == INSTANCE Lifecycle

\* The flags of a status.  An agent works on a job in the open statuses an agent's
\* call leads to; a completed job has ended well.
Flags(s) == StateDefinitions[s]
AtWork(s) == /\ ~Flags(s).terminal /\ ~Flags(s).initial
             /\ \E t \in Transitions : t.to_status = s /\ t.external_allowed
Completed(s) == /\ Flags(s).terminal
                /\ ~Flags(s).retryable /\ ~Flags(s).administrative

\* The lifecycle of build jobs: a new job is open, and no transition starts a job over
\* that has ended or that an agent works on (reopening is not a transition).
ASSUME BuildLifecycleAssumption ==
    /\ L!LifecycleAssumption
    /\ \A s \in Statuses : Flags(s).initial => ~Flags(s).terminal
    /\ \A t \in Transitions :
          Flags(t.to_status).initial => ~Flags(t.from_status).terminal /\ ~AtWork(t.from_status)

ASSUME BoundAssumption == MaxHandlers \in Nat /\ MaxCrashes \in Nat /\ NULL \notin Versions

VARIABLES
    job,         \* the row of segment_build_jobs
    notified,    \* the hook has reached an agent
    dispatches,  \* dispatch() calls in flight, one of them the lease sweep's
    retries,     \* calls that found the job not reopened yet
    submits,     \* candidates whose versions exist and whose job has not moved
    canary,      \* the /canary request in flight
    poll,        \* the GET /jobs/:id in flight
    expiring,    \* the run the offline sweep has selected
    binding,     \* the row of workflow_execution_bindings
    artifacts,   \* lifecycle of each version's segments and composition
    active,      \* the capability is active
    runs,        \* agency_workflow_runs of the canaries, and their tasks
    crashes

handlers == <<dispatches, retries, submits, canary, poll, expiring>>
plane == <<binding, artifacts, active>>
vars == <<job, notified, handlers, plane, runs, crashes>>

Job == [status : Statuses,
        leased : BOOLEAN,    \* claim_expires_at is set; it may pass at any moment
        reopened : BOOLEAN, candidate : Versions \cup {NULL}, execution : Versions \cup {NULL},
        run : Runs \cup {NULL}]
Binding == [version : Versions \cup {NULL}, status : {"resolved", "succeeded", "failed"},
            verified : BOOLEAN]
Parts == {"segments", "composition"}
ArtifactStates == {"absent", "candidate", "promoted", "retired"}
RunStates == {"absent", "queued", "running", "passed", "refused", "succeeded", "failed", "lost"}
Run == [version : Versions \cup {NULL}, state : RunStates]
Sweeper == "sweep"
Dispatchers == Callers \cup Retriers \cup {Sweeper}
DispatchPhases == {"idle", "normal", "recovery", "hook"}
CanaryPhases == {"idle", "compile", "reserve", "queue", "attach", "undo"}
Canary == [phase : CanaryPhases, version : Versions \cup {NULL}, run : Runs \cup {NULL}]
PollPhases == {"idle", "read", "failing", "segments", "composition", "activate", "complete"}
Poll == [phase : PollPhases, candidate : Versions \cup {NULL},
         execution : Versions \cup {NULL}, run : Runs \cup {NULL}]

NoCanary == [phase |-> "idle", version |-> NULL, run |-> NULL]
NoPoll == [phase |-> "idle", candidate |-> NULL, execution |-> NULL, run |-> NULL]

Init ==
    /\ \E s \in Statuses :
        /\ StateDefinitions[s].initial
        /\ job = [status |-> s, leased |-> FALSE, reopened |-> FALSE,
                  candidate |-> NULL, execution |-> NULL, run |-> NULL]
    /\ notified = FALSE
    /\ dispatches = [d \in Dispatchers |-> "idle"]
    /\ retries = {} /\ submits = {} /\ canary = NoCanary /\ poll = NoPoll
    /\ expiring = NULL
    /\ binding = [version |-> NULL, status |-> "resolved", verified |-> FALSE]
    /\ artifacts = [v \in Versions |-> [p \in Parts |-> "absent"]]
    /\ active = FALSE
    /\ runs = [r \in Runs |-> [version |-> NULL, state |-> "absent"]]
    /\ crashes = 0

-----------------------------------------------------------------------------
\* transitionSegmentBuildJob: the row moves when the selector leaves exactly one
\* outcome, whatever the caller has in mind for it.
Open == ~Flags(job.status).terminal
Edges(target, edge) == L!MatchingTransitions(job.status, target, edge)
HasAutomaticNonterminalExit(s) ==
    \E t \in Transitions : /\ t.from_status = s
                           /\ t.automatic
                           /\ ~Flags(t.to_status).terminal
Outcomes(edges) == {[status |-> t.to_status, completed |-> t.mark_completed,
                     started |-> t.mark_started, cleared |-> t.clear_failure] : t \in edges}
CanMove(edges) == Cardinality(Outcomes(edges)) = 1
Moved(edges, refreshLease) ==
    LET outcome == CHOOSE o \in Outcomes(edges) : TRUE
    IN  [job EXCEPT !.status = outcome.status,
                    !.leased = refreshLease \/ (@ /\ ~outcome.completed)]

OnOpen == [terminal |-> FALSE]
OnFailure == [terminal |-> TRUE, retryable |-> TRUE, administrative |-> FALSE]
OnSuccess == [terminal |-> TRUE, retryable |-> FALSE, administrative |-> FALSE]
Automatic == [automatic |-> TRUE]

\* dispatch, the failed hook, claim, heartbeat, submit, canary (to and fro),
\* completion, offline expiry and the agent's report of failure.
ToDispatched == Edges(OnOpen, [automatic |-> TRUE, clear_failure |-> TRUE])
ToInitial == Edges([initial |-> TRUE], Automatic)
ToClaimed == Edges(OnOpen, [external_allowed |-> TRUE, mark_started |-> TRUE])
ToBuilding == {t \in Edges(OnOpen, [external_allowed |-> TRUE, mark_started |-> FALSE]) :
                  ~HasAutomaticNonterminalExit(t.to_status)}
ToCandidate == {t \in Edges(OnOpen, [external_allowed |-> TRUE]) :
                   HasAutomaticNonterminalExit(t.to_status)}
ToAndFro == Edges(OnOpen, Automatic)
ToCompleted == Edges(OnSuccess, [automatic |-> TRUE, mark_completed |-> TRUE,
                                 clear_failure |-> TRUE])
ToExpired == Edges(OnFailure, [automatic |-> TRUE, mark_completed |-> TRUE])
ToFailed == Edges(OnFailure, [external_allowed |-> TRUE])

-----------------------------------------------------------------------------
(* dispatch(): reserve the job, then call the hook.                            *)

\* Bound: how many handlers are in flight when one begins.
Busy == Cardinality({d \in Dispatchers : dispatches[d] # "idle"})
        + Cardinality(retries) + Cardinality(submits)
        + Cardinality({canary.phase, poll.phase} \ {"idle"})
        + Cardinality({expiring} \ {NULL})
Begins == Busy < MaxHandlers

LeaseMayBeOver == Open /\ job.leased

\* A compile request dispatches the job it created or found: it is new or
\* retryable, or its lease has run out.
Normally == /\ Flags(job.status).dispatchable
            /\ Flags(job.status).initial \/ Flags(job.status).retryable

BeginDispatch(d) ==
    /\ Begins /\ d \in Callers /\ dispatches[d] = "idle"
    /\ \/ /\ LeaseMayBeOver
          /\ dispatches' = [dispatches EXCEPT ![d] = "recovery"]
       \/ /\ Normally
          /\ dispatches' = [dispatches EXCEPT ![d] = "normal"]
    /\ UNCHANGED <<job, notified, retries, submits, canary, poll, expiring, plane, runs,
                   crashes>>

SweepLease ==
    /\ Begins /\ dispatches[Sweeper] = "idle"
    /\ LeaseMayBeOver
    /\ dispatches' = [dispatches EXCEPT ![Sweeper] = "recovery"]
    /\ UNCHANGED <<job, notified, retries, submits, canary, poll, expiring, plane, runs,
                   crashes>>

\* The row is asked again: a normal dispatch moves it, a recovery leaves its status
\* alone and is refused while the lease or an earlier dispatch is recent.
Reserve(d) ==
    \/ /\ dispatches[d] = "normal" /\ CanMove(ToDispatched)
       /\ job' = Moved(ToDispatched, FALSE)
    \/ /\ dispatches[d] = "recovery" /\ LeaseMayBeOver
       /\ UNCHANGED job
NotReserved(d) ==
    \/ dispatches[d] = "normal" /\ ~CanMove(ToDispatched)
    \/ dispatches[d] = "recovery"

ReserveDispatch(d) ==
    /\ \/ Reserve(d) /\ dispatches' = [dispatches EXCEPT ![d] = "hook"]
       \/ /\ NotReserved(d)
          /\ dispatches' = [dispatches EXCEPT ![d] = "idle"]
          /\ UNCHANGED job
    /\ UNCHANGED <<notified, retries, submits, canary, poll, expiring, plane, runs, crashes>>

\* The hook may reach the agent and still fail here, by its timeout.
HookAccepted(d) ==
    /\ dispatches[d] = "hook"
    /\ notified' = TRUE
    /\ dispatches' = [dispatches EXCEPT ![d] = "idle"]
    /\ UNCHANGED <<job, retries, submits, canary, poll, expiring, plane, runs, crashes>>

\* (variant: the target is written without asking whether there is one)
Undispatched_Unchecked ==
    [job EXCEPT !.status = L!TransitionTarget(job.status, [initial |-> TRUE], Automatic)]
\* (variant: an UPDATE that puts the job back whatever became of it)
Undispatched_AnyStatus == [job EXCEPT !.status = CHOOSE s \in Statuses : Flags(s).initial]
Undispatched == IF CanMove(ToInitial) THEN Moved(ToInitial, FALSE) ELSE job

HookFailed(d) ==
    /\ dispatches[d] = "hook"
    /\ notified' \in {notified, TRUE}
    /\ job' = Undispatched
    /\ dispatches' = [dispatches EXCEPT ![d] = "idle"]
    /\ UNCHANGED <<retries, submits, canary, poll, expiring, plane, runs, crashes>>

-----------------------------------------------------------------------------
(* The agent sessions the hook has reached.                                    *)

Claim ==
    /\ notified
    /\ \/ /\ CanMove(ToClaimed)
          /\ job' = Moved(ToClaimed, TRUE)
       \/ /\ ~CanMove(ToClaimed) /\ LeaseMayBeOver
          /\ job' = [job EXCEPT !.leased = TRUE]
    /\ UNCHANGED <<notified, handlers, plane, runs, crashes>>

Heartbeat ==
    /\ notified
    /\ \/ /\ CanMove(ToBuilding)
          /\ job' = Moved(ToBuilding, TRUE)
       \/ /\ ~CanMove(ToBuilding) /\ Open
          /\ job' = [job EXCEPT !.leased = TRUE]
    /\ UNCHANGED <<notified, handlers, plane, runs, crashes>>

\* submitCandidate creates and validates the segments and the composition, whose
\* keys must be new; an activated capability no longer names the job its owner.
SubmitCreate(v) ==
    /\ Begins /\ notified /\ Open /\ ~active
    /\ artifacts[v] = [p \in Parts |-> "absent"]
    /\ artifacts' = [artifacts EXCEPT ![v] = [p \in Parts |-> "candidate"]]
    /\ submits' = submits \cup {v}
    /\ UNCHANGED <<job, notified, dispatches, retries, canary, poll, expiring, binding,
                   active, runs, crashes>>

\* ... and then moves the job, if it can still be moved.
SubmitCommit(v) ==
    /\ v \in submits
    /\ submits' = submits \ {v}
    /\ job' = IF CanMove(ToCandidate)
              THEN [Moved(ToCandidate, TRUE) EXCEPT !.candidate = v]
              ELSE job
    /\ UNCHANGED <<notified, dispatches, retries, canary, poll, expiring, plane, runs, crashes>>

Fail ==
    /\ notified /\ CanMove(ToFailed)
    /\ job' = Moved(ToFailed, FALSE)
    /\ UNCHANGED <<notified, handlers, plane, runs, crashes>>

-----------------------------------------------------------------------------
(* POST /jobs/:id/canary, one request at a time.                               *)

CanaryStep(from) ==
    /\ canary.phase = from
    /\ UNCHANGED <<notified, dispatches, retries, submits, poll, expiring, artifacts, active,
                   crashes>>

CanaryRead ==
    /\ Begins /\ notified /\ job.candidate # NULL
    /\ CanaryStep("idle")
    /\ canary' = [NoCanary EXCEPT !.phase = "compile", !.version = job.candidate]
    /\ UNCHANGED <<job, binding, runs>>

\* compileCandidateComposition saves the execution binding of the request key; its
\* upsert starts the status afresh and leaves postcondition_verified as it was.
Dispatchable(v) == \A p \in Parts : artifacts[v][p] \in {"candidate", "promoted"}

CanaryCompile ==
    /\ CanaryStep("compile")
    /\ IF Dispatchable(canary.version)
       THEN /\ binding' = [binding EXCEPT !.version = canary.version, !.status = "resolved"]
            /\ canary' = [canary EXCEPT !.phase = "reserve"]
       ELSE canary' = NoCanary /\ UNCHANGED binding
    /\ UNCHANGED <<job, runs>>

ReserveCanary ==
    /\ CanaryStep("reserve")
    /\ IF CanMove(ToAndFro)
       THEN /\ job' = [Moved(ToAndFro, TRUE) EXCEPT !.execution = canary.version]
            /\ canary' = [canary EXCEPT !.phase = "queue"]
       ELSE canary' = NoCanary /\ UNCHANGED job
    /\ UNCHANGED <<binding, runs>>

QueueCanary(r) ==
    /\ CanaryStep("queue") /\ runs[r].state = "absent"
    /\ runs' = [runs EXCEPT ![r] = [version |-> canary.version, state |-> "queued"]]
    /\ canary' = [canary EXCEPT !.phase = "attach", !.run = r]
    /\ UNCHANGED <<job, binding>>

\* Admission refuses the run, or its transaction fails.
QueueCanaryFails ==
    /\ CanaryStep("queue")
    /\ canary' = [canary EXCEPT !.phase = "undo"]
    /\ UNCHANGED <<job, binding, runs>>

CanaryDispatchFailed ==
    /\ CanaryStep("undo")
    /\ job' = IF job.run = NULL /\ CanMove(ToAndFro) THEN Moved(ToAndFro, TRUE) ELSE job
    /\ canary' = NoCanary
    /\ UNCHANGED <<binding, runs>>

AttachCanaryRun ==
    /\ CanaryStep("attach")
    /\ job' = IF Open /\ job.execution = canary.version
              THEN [job EXCEPT !.run = canary.run]
              ELSE job
    /\ canary' = NoCanary
    /\ UNCHANGED <<binding, runs>>

-----------------------------------------------------------------------------
(* The canary on the device: the task runner takes one task of a device at a    *)
(* time, records the outcome on the binding of its request key and then ends    *)
(* the run.                                                                    *)

InTask == {"running", "passed", "refused"}

RunStep(r, from, to) ==
    /\ runs[r].state = from
    /\ runs' = [runs EXCEPT ![r].state = to]
    /\ UNCHANGED <<job, notified, handlers, artifacts, active, crashes>>

RunStarts(r) ==
    /\ \A o \in Runs : runs[o].state \notin InTask
    /\ RunStep(r, "queued", "running")
    /\ UNCHANGED binding

\* recordGeneratedWorkflowLearning moves a binding that is still unresolved,
\* whatever version it has come to hold.
Recorded(success) ==
    IF binding.status = "resolved"
    THEN [binding EXCEPT !.status = IF success THEN "succeeded" ELSE "failed",
                         !.verified = success]
    ELSE binding

RunPasses(r) == RunStep(r, "running", "passed") /\ binding' = Recorded(TRUE)
RunRefused(r) == RunStep(r, "running", "refused") /\ binding' = Recorded(FALSE)
\* The task threw, or failed before it had a plan: nothing is recorded.
RunThrows(r) == RunStep(r, "running", "refused") /\ UNCHANGED binding

RunEnds(r) ==
    /\ RunStep(r, "passed", "succeeded") \/ RunStep(r, "refused", "failed")
    /\ UNCHANGED binding

-----------------------------------------------------------------------------
(* GET /jobs/:id: reconcileCanary.                                             *)

PollStep(from) ==
    /\ poll.phase = from
    /\ UNCHANGED <<notified, dispatches, retries, submits, canary, expiring, binding, runs,
                   crashes>>

PollRead ==
    /\ Begins /\ job.execution # NULL
    /\ PollStep("idle")
    /\ poll' = [phase |-> "read", candidate |-> job.candidate, execution |-> job.execution,
                run |-> job.run]
    /\ UNCHANGED <<job, artifacts, active>>

\* One query joins the binding of the execution key to the job's run.
Ended(r) == r # NULL /\ runs[r].state \in {"succeeded", "failed"}

PollJudges ==
    /\ PollStep("read")
    /\ poll' = IF binding.version # poll.execution \/ ~Ended(poll.run) THEN NoPoll
               ELSE IF runs[poll.run].state = "failed" \/ ~binding.verified
                    THEN [poll EXCEPT !.phase = "failing"]
               ELSE [poll EXCEPT !.phase = "segments"]
    /\ UNCHANGED <<job, artifacts, active>>

PollFailsCanary ==
    /\ PollStep("failing")
    /\ job' = IF CanMove(ToAndFro) THEN Moved(ToAndFro, TRUE) ELSE job
    /\ poll' = NoPoll
    /\ UNCHANGED <<artifacts, active>>

\* recordCanary reads the evidence again; promote retires the version it replaces.
Proven(v, part) ==
    /\ artifacts[v][part] = "candidate"
    /\ binding.version = poll.execution /\ binding.version = v
    /\ binding.status = "succeeded" /\ binding.verified

Promoted(v, part) ==
    [w \in Versions |->
        [artifacts[w] EXCEPT ![part] = IF w = v THEN "promoted"
                                       ELSE IF @ = "promoted" THEN "retired" ELSE @]]

\* (variant: a promotion that is refused is logged and passed over)
PollPromotes_PassesOver(part, next) ==
    LET v == poll.candidate IN
    /\ PollStep(part)
    /\ artifacts' = IF Proven(v, part) THEN Promoted(v, part) ELSE artifacts
    /\ poll' = [poll EXCEPT !.phase = next]
    /\ UNCHANGED <<job, active>>
PollPromotes(part, next) ==
    LET v == poll.candidate IN
    /\ PollStep(part)
    /\ \/ /\ artifacts[v][part] = "promoted"
          /\ poll' = [poll EXCEPT !.phase = next]
          /\ UNCHANGED artifacts
       \/ /\ Proven(v, part)
          /\ artifacts' = Promoted(v, part)
          /\ poll' = [poll EXCEPT !.phase = next]
       \/ /\ artifacts[v][part] # "promoted" /\ ~Proven(v, part)
          /\ poll' = NoPoll
          /\ UNCHANGED artifacts
    /\ UNCHANGED <<job, active>>

PollActivates ==
    /\ PollStep("activate")
    /\ active' = TRUE
    /\ poll' = [poll EXCEPT !.phase = "complete"]
    /\ UNCHANGED <<job, artifacts>>

PollCompletes ==
    /\ PollStep("complete")
    /\ job' = IF CanMove(ToCompleted)
              THEN [Moved(ToCompleted, FALSE) EXCEPT !.candidate = poll.candidate]
              ELSE job
    /\ poll' = NoPoll
    /\ UNCHANGED <<artifacts, active>>

-----------------------------------------------------------------------------
(* reconcileBlockedForRetry, the offline sweep and restarts.                   *)

RetryRead(q) ==
    /\ Begins /\ notified /\ ~job.reopened /\ job.candidate # NULL /\ q \notin retries
    /\ dispatches[q] = "idle"
    /\ retries' = retries \cup {q}
    /\ UNCHANGED <<job, notified, dispatches, submits, canary, poll, expiring, plane, runs,
                   crashes>>

Restarts == {s \in Statuses : L!StateMatches(s, [initial |-> TRUE, terminal |-> FALSE,
                                                  dispatchable |-> TRUE,
                                                  administrative |-> FALSE])}
\* (variant: the first read is trusted)
Reopenable_Unmarked == /\ Flags(job.status).terminal /\ Flags(job.status).manual
                       /\ Cardinality(Restarts) = 1
Reopenable == /\ Flags(job.status).terminal /\ Flags(job.status).manual
              /\ ~job.reopened
              /\ Cardinality(Restarts) = 1

\* The reopened job is dispatched by the same call.
RetryWrite(q) ==
    /\ q \in retries
    /\ retries' = retries \ {q}
    /\ IF Reopenable
       THEN /\ job' = [job EXCEPT !.status = CHOOSE s \in Restarts : TRUE,
                                  !.leased = FALSE, !.reopened = TRUE]
            /\ dispatches' = [dispatches EXCEPT ![q] = "normal"]
       ELSE UNCHANGED <<job, dispatches>>
    /\ UNCHANGED <<notified, submits, canary, poll, expiring, plane, runs, crashes>>

\* expireOfflineQueuedCanaries selects outside any lock a run whose device is
\* offline, as it may be at any moment ...
Waits(r) == Open /\ job.run = r /\ runs[r].state = "queued"

ExpireSelect(r) ==
    /\ Begins /\ expiring = NULL /\ Waits(r)
    /\ expiring' = r
    /\ UNCHANGED <<job, notified, dispatches, retries, submits, canary, poll, plane, runs,
                   crashes>>

\* ... and decides again in one transaction over the job, its run and its task.
\* (variant: the run is not looked at again)
StillWaits_OfJob(r) == Open /\ job.run = r
StillWaits(r) == Waits(r)

ExpireCanary ==
    /\ expiring # NULL
    /\ expiring' = NULL
    /\ \/ /\ StillWaits(expiring) /\ CanMove(ToExpired)
          /\ job' = Moved(ToExpired, FALSE)
          /\ runs' = [runs EXCEPT ![expiring].state = "failed"]
          /\ binding' = IF binding.version = job.execution THEN Recorded(FALSE) ELSE binding
       \/ UNCHANGED <<job, runs, binding>>   \* it no longer waits, or the device is back
    /\ UNCHANGED <<notified, dispatches, retries, submits, canary, poll, artifacts, active,
                   crashes>>

\* Every handler dies with the process, and the task it ran stays running forever.
Crash ==
    /\ crashes < MaxCrashes
    /\ crashes' = crashes + 1
    /\ dispatches' = [d \in Dispatchers |-> "idle"]
    /\ retries' = {} /\ submits' = {} /\ canary' = NoCanary /\ poll' = NoPoll
    /\ expiring' = NULL
    /\ runs' = [r \in Runs |-> IF runs[r].state \in InTask
                               THEN [runs[r] EXCEPT !.state = "lost"] ELSE runs[r]]
    /\ UNCHANGED <<job, notified, plane>>

Next ==
    \/ \E d \in Dispatchers : \/ BeginDispatch(d) \/ ReserveDispatch(d)
                              \/ HookAccepted(d) \/ HookFailed(d)
    \/ SweepLease
    \/ Claim \/ Heartbeat \/ Fail
    \/ \E v \in Versions : SubmitCreate(v) \/ SubmitCommit(v)
    \/ CanaryRead \/ CanaryCompile \/ ReserveCanary \/ QueueCanaryFails
    \/ CanaryDispatchFailed \/ AttachCanaryRun
    \/ \E r \in Runs : \/ QueueCanary(r) \/ RunStarts(r) \/ RunPasses(r) \/ RunRefused(r)
                       \/ RunThrows(r) \/ RunEnds(r) \/ ExpireSelect(r)
    \/ PollRead \/ PollJudges \/ PollFailsCanary \/ PollActivates \/ PollCompletes
    \/ PollPromotes("segments", "composition") \/ PollPromotes("composition", "activate")
    \/ \E q \in Retriers : RetryRead(q) \/ RetryWrite(q)
    \/ ExpireCanary \/ Crash

Spec == Init /\ [][Next]_vars

-----------------------------------------------------------------------------
(* Type invariant.                                                             *)
TypeOK ==
    /\ job \in Job /\ notified \in BOOLEAN
    /\ dispatches \in [Dispatchers -> DispatchPhases]
    /\ retries \subseteq Retriers /\ submits \subseteq Versions
    /\ canary \in Canary /\ poll \in Poll /\ expiring \in Runs \cup {NULL}
    /\ binding \in Binding /\ artifacts \in [Versions -> [Parts -> ArtifactStates]]
    /\ active \in BOOLEAN /\ runs \in [Runs -> Run]
    /\ crashes \in 0 .. MaxCrashes

\* A completed job names a candidate whose segments and composition were promoted
\* (a later version may have retired them) and whose capability is active, though
\* the poll that completes it wrote those in transactions of its own while agents
\* went on submitting other candidates (reconcileCanary).
CompletedIsPromoted ==
    Completed(job.status) =>
        /\ active
        /\ job.candidate # NULL
        /\ \A p \in Parts : artifacts[job.candidate][p] \in {"promoted", "retired"}

\* A hook call that times out late never sends a job back to the queue once an
\* agent works on it (dispatch's catch).
ClaimIsNotUndone ==
    [][AtWork(job.status) => ~Flags(job'.status).initial]_vars

\* The offline sweep never fails a canary the device has begun, though it selected
\* the run before it took any lock (expireOfflineQueuedCanaries).
RunningCanaryIsNotExpired ==
    [][\A r \in Runs : runs[r].state \in {"running", "passed"} =>
                          runs'[r].state # "failed"]_vars

\* Overlapping reconcile-blocked calls reopen a failed job once in its life
\* (reconcileTerminalSegmentBuildJobForRetry).
ReopenedOnce ==
    [][Flags(job.status).terminal /\ Flags(job'.status).initial => ~job.reopened]_vars

\* A promoted composition passed a canary run of its own: "canary evidence must prove
\* a passed execution and verified postcondition" (control-plane.service.ts:469).
PromotedRanItself ==
    \A v \in Versions : artifacts[v]["composition"] = "promoted" =>
        \E r \in Runs : runs[r].version = v /\ runs[r].state \in {"passed", "succeeded", "lost"}
=============================================================================
