------------------------- MODULE SegmentBuildProofs -------------------------
(***************************************************************************)
(* Proofs about SegmentBuild, for every set of versions, runs, callers and  *)
(* retriers, and every build lifecycle that meets                           *)
(* BuildLifecycleAssumption.                                                *)
(*                                                                         *)
(* Every step is reduced to what it does to the job's row (JobStep): keep   *)
(* its status, follow a transition that does not complete it, complete it   *)
(* for a poll, or reopen it.  What the poll has promoted stays promoted or   *)
(* retired (Monotone), so its phases carry the facts the completed job needs *)
(* from one transaction to the next (PollInv).                              *)
(***************************************************************************)
EXTENDS SegmentBuild, FiniteSetTheorems, TLAPS

-----------------------------------------------------------------------------
(* What the lifecycle offers. *)

LEMMA LifecycleTypes ==
    /\ StateDefinitions \in [Statuses -> L!StateFlags]
    /\ Transitions \subseteq L!TransitionRow
  BY BuildLifecycleAssumption DEF L!LifecycleAssumption

LEMMA FlagsAreBoolean ==
    ASSUME NEW s \in Statuses
    PROVE  /\ Flags(s).initial \in BOOLEAN /\ Flags(s).terminal \in BOOLEAN
           /\ Flags(s).retryable \in BOOLEAN /\ Flags(s).manual \in BOOLEAN
  BY LifecycleTypes DEF Flags, L!StateFlags

\* A transition out of the job's status, to a status that does not complete the job.
Onward(t) == t \in Transitions /\ t.from_status = job.status /\ ~Completed(t.to_status)

LEMMA EdgesOfStatus ==
    ASSUME NEW target, NEW edge, NEW t \in Edges(target, edge)
    PROVE  /\ t \in Transitions /\ t.from_status = job.status /\ t.to_status \in Statuses
           /\ L!Satisfies(Flags(t.to_status), target)
<1>1. t \in Transitions /\ t.from_status = job.status /\ L!Satisfies(StateDefinitions[t.to_status], target)
  BY DEF Edges, L!MatchingTransitions
<1>2. t.to_status \in Statuses
  BY <1>1, LifecycleTypes DEF L!TransitionRow
<1> QED BY <1>1, <1>2 DEF Flags

LEMMA OpenTarget ==
    ASSUME NEW edge, NEW t \in Edges(OnOpen, edge)
    PROVE  Onward(t)
<1>1. L!Satisfies(Flags(t.to_status), OnOpen) /\ t \in Transitions /\ t.from_status = job.status
  BY EdgesOfStatus
<1>2. Flags(t.to_status).terminal = FALSE
  BY <1>1 DEF L!Satisfies, OnOpen
<1> QED BY <1>1, <1>2 DEF Onward, Completed

LEMMA FailureTarget ==
    ASSUME NEW edge, NEW t \in Edges(OnFailure, edge)
    PROVE  Onward(t)
<1>1. L!Satisfies(Flags(t.to_status), OnFailure) /\ t \in Transitions /\ t.from_status = job.status
  BY EdgesOfStatus
<1>2. "retryable" \in DOMAIN OnFailure /\ OnFailure["retryable"] = TRUE
  BY DEF OnFailure
<1>3. Flags(t.to_status).retryable = TRUE
  BY <1>1, <1>2 DEF L!Satisfies
<1> QED BY <1>1, <1>3 DEF Onward, Completed

LEMMA InitialTarget ==
    ASSUME NEW edge, NEW t \in Edges([initial |-> TRUE], edge)
    PROVE  Onward(t)
<1>1. /\ L!Satisfies(Flags(t.to_status), [initial |-> TRUE])
      /\ t \in Transitions /\ t.from_status = job.status /\ t.to_status \in Statuses
  BY EdgesOfStatus
<1>2. Flags(t.to_status).initial = TRUE
  BY <1>1 DEF L!Satisfies
<1>3. ~Flags(t.to_status).terminal
  BY <1>1, <1>2, BuildLifecycleAssumption
<1> QED BY <1>1, <1>3 DEF Onward, Completed

LEMMA OnwardTargets ==
    \A t : \/ t \in ToDispatched \/ t \in ToInitial \/ t \in ToClaimed \/ t \in ToBuilding
           \/ t \in ToCandidate \/ t \in ToAndFro \/ t \in ToExpired \/ t \in ToFailed
           => Onward(t)
  BY OpenTarget, FailureTarget, InitialTarget
     DEF ToDispatched, ToInitial, ToClaimed, ToBuilding, ToCandidate, ToAndFro, ToExpired, ToFailed

LEMMA RestartStatus ==
    ASSUME NEW s \in Restarts
    PROVE  s \in Statuses /\ Flags(s).initial /\ ~Flags(s).terminal
<1> DEFINE selector == [initial |-> TRUE, terminal |-> FALSE, dispatchable |-> TRUE,
                        administrative |-> FALSE]
<1>1. "initial" \in DOMAIN selector /\ selector["initial"] = TRUE
  OBVIOUS
<1> HIDE DEF selector
<1>2. L!StateMatches(s, selector)
  BY DEF Restarts, selector
<1>3. s \in Statuses /\ StateDefinitions[s]["initial"] = TRUE
  BY <1>1, <1>2 DEF L!StateMatches, L!Satisfies
<1> QED BY <1>3, BuildLifecycleAssumption DEF Flags

-----------------------------------------------------------------------------
(* What a move does to the row. *)

LEMMA MovedRow ==
    ASSUME job \in Job, NEW edges, edges \subseteq Transitions, CanMove(edges),
           NEW refresh \in BOOLEAN
    PROVE  LET after == Moved(edges, refresh) IN
           /\ after \in Job
           /\ \E t \in edges : after.status = t.to_status
           /\ after.candidate = job.candidate /\ after.execution = job.execution
           /\ after.reopened = job.reopened
<1> DEFINE outcome == CHOOSE o \in Outcomes(edges) : TRUE
<1>1. Outcomes(edges) # {}
  <2>1. Cardinality({}) = 0
    BY FS_EmptySet
  <2> QED BY <2>1 DEF CanMove
<1>2. outcome \in Outcomes(edges)
  BY <1>1
<1>3. Moved(edges, refresh) = [job EXCEPT !.status = outcome.status,
                                          !.leased = refresh \/ (@ /\ ~outcome.completed)]
  BY DEF Moved
<1> HIDE DEF outcome
<1>4. PICK t \in edges : outcome = [status |-> t.to_status, completed |-> t.mark_completed,
                                    started |-> t.mark_started, cleared |-> t.clear_failure]
  BY <1>2 DEF Outcomes
<1>5. t.to_status \in Statuses /\ outcome.status = t.to_status
  BY <1>4, LifecycleTypes DEF L!TransitionRow
<1>6. (refresh \/ (job.leased /\ ~outcome.completed)) \in BOOLEAN
  OBVIOUS
<1> QED BY <1>3, <1>5, <1>6 DEF Job

-----------------------------------------------------------------------------
(* What a step may do to the job. *)

Keeps(after) ==
    /\ after \in Job
    /\ after.candidate = job.candidate /\ after.execution = job.execution
    /\ after.reopened = job.reopened

Stays(after) == Keeps(after) /\ after.status = job.status
Moves(after) ==
    /\ after \in Job /\ after.reopened = job.reopened
    /\ \E t \in Transitions : Onward(t) /\ after.status = t.to_status
    /\ after.candidate = job.candidate \/ after.candidate \in Versions
    /\ after.execution = job.execution \/ canary.phase = "reserve"
Completes(after) ==
    /\ after \in Job /\ after.reopened = job.reopened
    /\ \E t \in Transitions : t.from_status = job.status /\ after.status = t.to_status
    /\ poll.phase = "complete" /\ after.candidate = poll.candidate
    /\ after.execution = job.execution
Reopens(after) ==
    /\ after \in Job /\ Flags(job.status).terminal /\ ~job.reopened
    /\ Flags(after.status).initial /\ ~Flags(after.status).terminal
    /\ after.candidate = job.candidate /\ after.execution = job.execution

JobStep == Stays(job') \/ Moves(job') \/ Completes(job') \/ Reopens(job')

LEMMA MovesOn ==
    ASSUME job \in Job, NEW edges, \A t \in edges : Onward(t), CanMove(edges),
           NEW refresh \in BOOLEAN
    PROVE  Keeps(Moved(edges, refresh)) /\ Moves(Moved(edges, refresh))
<1>1. edges \subseteq Transitions
  BY DEF Onward
<1> QED BY <1>1, MovedRow DEF Keeps, Moves

LEMMA KeepStays == job \in Job /\ job' = job => Stays(job')
  BY DEF Stays, Keeps

LEMMA DispatchSteps ==
    ASSUME TypeOK, NEW d \in Dispatchers,
           BeginDispatch(d) \/ ReserveDispatch(d) \/ HookAccepted(d) \/ HookFailed(d)
    PROVE  JobStep
<1> job \in Job
  BY DEF TypeOK
<1>1. CASE BeginDispatch(d) \/ HookAccepted(d)
  BY <1>1, KeepStays DEF BeginDispatch, HookAccepted, JobStep
<1>2. CASE ReserveDispatch(d)
  <2>1. CASE Reserve(d) /\ job' # job
    <3>1. CanMove(ToDispatched) /\ job' = Moved(ToDispatched, FALSE)
      BY <2>1 DEF Reserve
    <3> QED BY <3>1, OnwardTargets, MovesOn DEF JobStep
  <2>2. CASE job' = job
    BY <2>2, KeepStays DEF JobStep
  <2> QED BY <1>2, <2>1, <2>2 DEF ReserveDispatch
<1>3. CASE HookFailed(d)
  <2>1. CASE CanMove(ToInitial)
    <3>1. job' = Moved(ToInitial, FALSE)
      BY <1>3, <2>1 DEF HookFailed, Undispatched
    <3> QED BY <2>1, <3>1, OnwardTargets, MovesOn DEF JobStep
  <2>2. CASE ~CanMove(ToInitial)
    BY <1>3, <2>2, KeepStays DEF HookFailed, Undispatched, JobStep
  <2> QED BY <2>1, <2>2
<1> QED BY <1>1, <1>2, <1>3

LEMMA LeaseStays ==
    ASSUME job \in Job
    PROVE  Stays([job EXCEPT !.leased = TRUE])
  BY DEF Stays, Keeps, Job

LEMMA AgentSteps ==
    ASSUME TypeOK, Claim \/ Heartbeat \/ Fail
    PROVE  JobStep
<1> job \in Job
  BY DEF TypeOK
<1>1. CASE Claim
  <2>1. CASE CanMove(ToClaimed) /\ job' = Moved(ToClaimed, TRUE)
    BY <2>1, OnwardTargets, MovesOn DEF JobStep
  <2>2. CASE job' = [job EXCEPT !.leased = TRUE]
    BY <2>2, LeaseStays DEF JobStep
  <2> QED BY <1>1, <2>1, <2>2 DEF Claim
<1>2. CASE Heartbeat
  <2>1. CASE CanMove(ToBuilding) /\ job' = Moved(ToBuilding, TRUE)
    BY <2>1, OnwardTargets, MovesOn DEF JobStep
  <2>2. CASE job' = [job EXCEPT !.leased = TRUE]
    BY <2>2, LeaseStays DEF JobStep
  <2> QED BY <1>2, <2>1, <2>2 DEF Heartbeat
<1>3. CASE Fail
  BY <1>3, OnwardTargets, MovesOn DEF Fail, JobStep
<1> QED BY <1>1, <1>2, <1>3

LEMMA SubmitSteps ==
    ASSUME TypeOK, NEW v \in Versions, SubmitCreate(v) \/ SubmitCommit(v)
    PROVE  JobStep
<1> job \in Job
  BY DEF TypeOK
<1>1. CASE SubmitCreate(v)
  BY <1>1, KeepStays DEF SubmitCreate, JobStep
<1>2. CASE SubmitCommit(v) /\ CanMove(ToCandidate)
  <2> DEFINE after == Moved(ToCandidate, TRUE)
  <2>1. Keeps(after) /\ Moves(after)
    BY <1>2, OnwardTargets, MovesOn
  <2>2. job' = [after EXCEPT !.candidate = v]
    BY <1>2 DEF SubmitCommit
  <2> HIDE DEF after
  <2>3. Moves(job')
    BY <2>1, <2>2 DEF Moves, Job
  <2> QED BY <2>3 DEF JobStep
<1>3. CASE SubmitCommit(v) /\ ~CanMove(ToCandidate)
  BY <1>3, KeepStays DEF SubmitCommit, JobStep
<1> QED BY <1>1, <1>2, <1>3

LEMMA CanarySteps ==
    ASSUME TypeOK,
           \/ CanaryRead \/ CanaryCompile \/ ReserveCanary \/ QueueCanaryFails
           \/ CanaryDispatchFailed \/ AttachCanaryRun \/ \E r \in Runs : QueueCanary(r)
    PROVE  JobStep
<1> job \in Job /\ canary \in Canary
  BY DEF TypeOK
<1>1. CASE CanaryRead \/ CanaryCompile \/ QueueCanaryFails \/ \E r \in Runs : QueueCanary(r)
  BY <1>1, KeepStays DEF CanaryRead, CanaryCompile, QueueCanaryFails, QueueCanary, JobStep
<1>2. CASE ReserveCanary /\ CanMove(ToAndFro)
  <2> DEFINE after == Moved(ToAndFro, TRUE)
  <2>1. Keeps(after) /\ Moves(after)
    BY <1>2, OnwardTargets, MovesOn
  <2>2. job' = [after EXCEPT !.execution = canary.version] /\ canary.phase = "reserve"
    BY <1>2 DEF ReserveCanary, CanaryStep
  <2> HIDE DEF after
  <2>3. canary.version \in Versions \cup {NULL}
    BY DEF Canary
  <2>4. Moves(job')
    BY <2>1, <2>2, <2>3 DEF Moves, Job
  <2> QED BY <2>4 DEF JobStep
<1>3. CASE ReserveCanary /\ ~CanMove(ToAndFro)
  BY <1>3, KeepStays DEF ReserveCanary, JobStep
<1>4. CASE CanaryDispatchFailed
  <2>1. CASE CanMove(ToAndFro) /\ job' = Moved(ToAndFro, TRUE)
    BY <2>1, OnwardTargets, MovesOn DEF JobStep
  <2>2. CASE job' = job
    BY <2>2, KeepStays DEF JobStep
  <2> QED BY <1>4, <2>1, <2>2 DEF CanaryDispatchFailed
<1>5. CASE AttachCanaryRun
  <2>1. CASE job' = [job EXCEPT !.run = canary.run]
    <3>1. canary.run \in Runs \cup {NULL}
      BY DEF Canary
    <3> QED BY <2>1, <3>1 DEF JobStep, Stays, Keeps, Job
  <2>2. CASE job' = job
    BY <2>2, KeepStays DEF JobStep
  <2> QED BY <1>5, <2>1, <2>2 DEF AttachCanaryRun
<1> QED BY <1>1, <1>2, <1>3, <1>4, <1>5

LEMMA PollSteps ==
    ASSUME TypeOK,
           \/ PollRead \/ PollJudges \/ PollFailsCanary \/ PollActivates \/ PollCompletes
           \/ PollPromotes("segments", "composition") \/ PollPromotes("composition", "activate")
    PROVE  JobStep
<1> job \in Job /\ poll \in Poll
  BY DEF TypeOK
<1>1. CASE \/ PollRead \/ PollJudges \/ PollActivates
           \/ PollPromotes("segments", "composition") \/ PollPromotes("composition", "activate")
  BY <1>1, KeepStays DEF PollRead, PollJudges, PollActivates, PollPromotes, JobStep
<1>2. CASE PollFailsCanary
  <2>1. CASE CanMove(ToAndFro) /\ job' = Moved(ToAndFro, TRUE)
    BY <2>1, OnwardTargets, MovesOn DEF JobStep
  <2>2. CASE job' = job
    BY <2>2, KeepStays DEF JobStep
  <2> QED BY <1>2, <2>1, <2>2 DEF PollFailsCanary
<1>3. CASE PollCompletes /\ CanMove(ToCompleted)
  <2> DEFINE after == Moved(ToCompleted, FALSE)
  <2>1. \A t \in ToCompleted : t \in Transitions /\ t.from_status = job.status
    BY EdgesOfStatus DEF ToCompleted
  <2>2. Keeps(after) /\ \E t \in ToCompleted : after.status = t.to_status
    BY <1>3, <2>1, MovedRow DEF Keeps
  <2>3. job' = [after EXCEPT !.candidate = poll.candidate] /\ poll.phase = "complete"
    BY <1>3 DEF PollCompletes, PollStep
  <2> HIDE DEF after
  <2>4. poll.candidate \in Versions \cup {NULL}
    BY DEF Poll
  <2>5. /\ job' \in Job /\ job'.candidate = poll.candidate /\ job'.status = after.status
        /\ job'.reopened = after.reopened /\ job'.execution = after.execution
    BY <2>2, <2>3, <2>4 DEF Keeps, Job
  <2>6. Completes(job')
    BY <2>1, <2>2, <2>3, <2>5 DEF Completes, Keeps
  <2> QED BY <2>6 DEF JobStep
<1>4. CASE PollCompletes /\ ~CanMove(ToCompleted)
  BY <1>4, KeepStays DEF PollCompletes, JobStep
<1> QED BY <1>1, <1>2, <1>3, <1>4

LEMMA RetrySteps ==
    ASSUME TypeOK, NEW q \in Retriers, RetryRead(q) \/ RetryWrite(q)
    PROVE  JobStep
<1> job \in Job
  BY DEF TypeOK
<1>1. CASE RetryRead(q)
  BY <1>1, KeepStays DEF RetryRead, JobStep
<1>2. CASE RetryWrite(q) /\ Reopenable
  <2> DEFINE s == CHOOSE x \in Restarts : TRUE
  <2>1. Restarts # {}
    <3>1. Cardinality({}) = 0
      BY FS_EmptySet
    <3> QED BY <1>2, <3>1 DEF Reopenable
  <2>2. s \in Restarts
    BY <2>1
  <2>3. s \in Statuses /\ Flags(s).initial /\ ~Flags(s).terminal
    BY <2>2, RestartStatus
  <2>4. job' = [job EXCEPT !.status = s, !.leased = FALSE, !.reopened = TRUE]
    BY <1>2 DEF RetryWrite
  <2> HIDE DEF s
  <2>5. /\ job' \in Job /\ job'.status = s /\ job'.candidate = job.candidate
        /\ job'.execution = job.execution
    BY <2>3, <2>4 DEF Job
  <2>6. Reopens(job')
    BY <1>2, <2>3, <2>5 DEF Reopens, Reopenable
  <2> QED BY <2>6 DEF JobStep
<1>3. CASE RetryWrite(q) /\ ~Reopenable
  BY <1>3, KeepStays DEF RetryWrite, JobStep
<1> QED BY <1>1, <1>2, <1>3

LEMMA ExpireSteps ==
    ASSUME TypeOK, ExpireCanary
    PROVE  JobStep
<1> job \in Job
  BY DEF TypeOK
<1>1. CASE CanMove(ToExpired) /\ job' = Moved(ToExpired, FALSE)
  BY <1>1, OnwardTargets, MovesOn DEF JobStep
<1>2. CASE job' = job
  BY <1>2, KeepStays DEF JobStep
<1> QED BY <1>1, <1>2 DEF ExpireCanary

LEMMA RunSteps ==
    ASSUME TypeOK, NEW r \in Runs,
           \/ RunStarts(r) \/ RunPasses(r) \/ RunRefused(r) \/ RunThrows(r) \/ RunEnds(r)
           \/ ExpireSelect(r)
    PROVE  JobStep
<1>1. job' = job
  BY DEF RunStarts, RunPasses, RunRefused, RunThrows, RunEnds, RunStep, ExpireSelect
<1> QED BY <1>1, KeepStays DEF TypeOK, JobStep

LEMMA NextJobStep ==
    ASSUME TypeOK, [Next]_vars
    PROVE  JobStep
<1>1. CASE SweepLease \/ Crash \/ UNCHANGED vars
  BY <1>1, KeepStays DEF SweepLease, Crash, vars, TypeOK, JobStep
<1> QED BY <1>1, DispatchSteps, AgentSteps, SubmitSteps, CanarySteps, PollSteps, RetrySteps,
           ExpireSteps, RunSteps DEF Next

LEMMA JobIsTyped ==
    ASSUME TypeOK, [Next]_vars
    PROVE  job' \in Job
  BY NextJobStep DEF JobStep, Stays, Keeps, Moves, Completes, Reopens

-----------------------------------------------------------------------------
(* Type correctness. *)

LEMMA InitTypeOK == Init => TypeOK
<1> SUFFICES ASSUME Init PROVE TypeOK
  OBVIOUS
<1>1. job \in Job
  BY DEF Init, Job
<1>2. /\ dispatches \in [Dispatchers -> DispatchPhases] /\ retries \subseteq Retriers
      /\ submits \subseteq Versions /\ expiring \in Runs \cup {NULL} /\ notified \in BOOLEAN
  BY DEF Init, DispatchPhases
<1>3. canary \in Canary /\ poll \in Poll
  BY DEF Init, NoCanary, NoPoll, Canary, Poll, CanaryPhases, PollPhases
<1>4. binding \in Binding /\ active \in BOOLEAN
  BY DEF Init, Binding
<1>7. crashes \in 0 .. MaxCrashes
  BY BoundAssumption DEF Init
<1>5. artifacts \in [Versions -> [Parts -> ArtifactStates]]
  BY DEF Init, ArtifactStates
<1>6. runs \in [Runs -> Run]
  BY DEF Init, Run, RunStates
<1> QED BY <1>1, <1>2, <1>3, <1>4, <1>5, <1>6, <1>7 DEF TypeOK

LEMMA IdleIsTyped == NoCanary \in Canary /\ NoPoll \in Poll
  BY DEF NoCanary, NoPoll, Canary, Poll, CanaryPhases, PollPhases

LEMMA RecordedIsTyped ==
    ASSUME binding \in Binding, NEW success \in BOOLEAN
    PROVE  Recorded(success) \in Binding
  BY DEF Recorded, Binding

LEMMA RunIsTyped ==
    ASSUME runs \in [Runs -> Run], NEW r \in Runs, NEW state \in RunStates
    PROVE  [runs EXCEPT ![r].state = state] \in [Runs -> Run]
  BY DEF Run

LEMMA PromotedIsTyped ==
    ASSUME artifacts \in [Versions -> [Parts -> ArtifactStates]], NEW v, NEW part \in Parts
    PROVE  Promoted(v, part) \in [Versions -> [Parts -> ArtifactStates]]
  BY DEF Promoted, ArtifactStates

LEMMA DispatchTypes ==
    ASSUME TypeOK, NEW d \in Dispatchers, job' \in Job,
           BeginDispatch(d) \/ ReserveDispatch(d) \/ HookAccepted(d) \/ HookFailed(d)
    PROVE  TypeOK'
<1>1. UNCHANGED <<retries, submits, canary, poll, expiring, plane, runs, crashes>>
  BY DEF BeginDispatch, ReserveDispatch, HookAccepted, HookFailed
<1>2. dispatches' \in [Dispatchers -> DispatchPhases] /\ notified' \in BOOLEAN
  BY DEF BeginDispatch, ReserveDispatch, HookAccepted, HookFailed, TypeOK, DispatchPhases
<1> QED BY <1>1, <1>2 DEF TypeOK, plane

LEMMA AgentTypes ==
    ASSUME TypeOK, job' \in Job, SweepLease \/ Claim \/ Heartbeat \/ Fail
    PROVE  TypeOK'
<1>1. CASE SweepLease
  <2>1. dispatches' \in [Dispatchers -> DispatchPhases]
    BY <1>1 DEF SweepLease, TypeOK, DispatchPhases
  <2> QED BY <1>1, <2>1 DEF SweepLease, TypeOK, plane
<1>2. CASE Claim \/ Heartbeat \/ Fail
  BY <1>2 DEF Claim, Heartbeat, Fail, TypeOK, plane, handlers
<1> QED BY <1>1, <1>2

LEMMA SubmitTypes ==
    ASSUME TypeOK, job' \in Job, NEW v \in Versions, SubmitCreate(v) \/ SubmitCommit(v)
    PROVE  TypeOK'
<1>1. CASE SubmitCreate(v)
  <2>1. artifacts' \in [Versions -> [Parts -> ArtifactStates]]
    BY <1>1 DEF SubmitCreate, TypeOK, ArtifactStates
  <2> QED BY <1>1, <2>1 DEF SubmitCreate, TypeOK
<1>2. CASE SubmitCommit(v)
  BY <1>2 DEF SubmitCommit, TypeOK, plane
<1> QED BY <1>1, <1>2

LEMMA CanaryTypes ==
    ASSUME TypeOK, job' \in Job,
           \/ CanaryRead \/ CanaryCompile \/ ReserveCanary \/ QueueCanaryFails
           \/ CanaryDispatchFailed \/ AttachCanaryRun \/ \E r \in Runs : QueueCanary(r)
    PROVE  TypeOK'
<1>1. \E from : CanaryStep(from)
  BY DEF CanaryRead, CanaryCompile, ReserveCanary, QueueCanaryFails, CanaryDispatchFailed,
         AttachCanaryRun, QueueCanary
<1>2. UNCHANGED <<notified, dispatches, retries, submits, poll, expiring, artifacts, active, crashes>>
  BY <1>1 DEF CanaryStep
<1>3. canary \in Canary /\ job \in Job /\ runs \in [Runs -> Run] /\ binding \in Binding
  BY DEF TypeOK
<1>4. canary' \in Canary
  <2>1. CASE CanaryRead
    BY <1>3, <2>1, IdleIsTyped DEF CanaryRead, Canary, CanaryPhases, Job
  <2>2. CASE ReserveCanary \/ CanaryCompile \/ QueueCanaryFails
    BY <1>3, <2>2, IdleIsTyped
       DEF ReserveCanary, CanaryCompile, QueueCanaryFails, Canary, CanaryPhases
  <2>3. CASE CanaryDispatchFailed \/ AttachCanaryRun
    BY <2>3, IdleIsTyped DEF CanaryDispatchFailed, AttachCanaryRun
  <2>4. CASE \E r \in Runs : QueueCanary(r)
    BY <1>3, <2>4 DEF QueueCanary, Canary, CanaryPhases
  <2> QED BY <2>1, <2>2, <2>3, <2>4
<1>5. binding' \in Binding
  BY <1>3 DEF CanaryRead, CanaryCompile, ReserveCanary, QueueCanaryFails, CanaryDispatchFailed,
         AttachCanaryRun, QueueCanary, Binding, Canary
<1>6. runs' \in [Runs -> Run]
  <2>1. ASSUME NEW r \in Runs, QueueCanary(r) PROVE runs' \in [Runs -> Run]
    <3>1. [version |-> canary.version, state |-> "queued"] \in Run
      BY <1>3 DEF Run, RunStates, Canary
    <3> QED BY <1>3, <2>1, <3>1 DEF QueueCanary
  <2> QED BY <1>3, <2>1 DEF CanaryRead, CanaryCompile, ReserveCanary, QueueCanaryFails,
                            CanaryDispatchFailed, AttachCanaryRun
<1> QED BY <1>2, <1>4, <1>5, <1>6 DEF TypeOK

LEMMA PollTypes ==
    ASSUME TypeOK, job' \in Job,
           \/ PollRead \/ PollJudges \/ PollFailsCanary \/ PollActivates \/ PollCompletes
           \/ PollPromotes("segments", "composition") \/ PollPromotes("composition", "activate")
    PROVE  TypeOK'
<1>1. \E from : PollStep(from)
  BY DEF PollRead, PollJudges, PollFailsCanary, PollActivates, PollCompletes, PollPromotes
<1>2. UNCHANGED <<notified, dispatches, retries, submits, canary, expiring, binding, runs, crashes>>
  BY <1>1 DEF PollStep
<1>3. poll \in Poll /\ job \in Job
  BY DEF TypeOK
<1>4. poll' \in Poll
  <2>1. CASE PollRead
    BY <1>3, <2>1 DEF PollRead, Poll, PollPhases, Job
  <2>2. CASE PollJudges \/ PollFailsCanary \/ PollActivates \/ PollCompletes
    <3>1. CASE PollJudges
      BY <1>3, <3>1, IdleIsTyped DEF PollJudges, Poll, PollPhases
    <3>2. CASE PollFailsCanary
      BY <1>3, <3>2, IdleIsTyped DEF PollFailsCanary, Poll, PollPhases
    <3>3. CASE PollActivates \/ PollCompletes
      BY <1>3, <3>3, IdleIsTyped DEF PollActivates, PollCompletes, Poll, PollPhases
    <3> QED BY <2>2, <3>1, <3>2, <3>3
  <2>3. CASE PollPromotes("segments", "composition") \/ PollPromotes("composition", "activate")
    BY <1>3, <2>3, IdleIsTyped DEF PollPromotes, Poll, PollPhases
  <2> QED BY <2>1, <2>2, <2>3
<1>5. artifacts' \in [Versions -> [Parts -> ArtifactStates]]
  <2>1. "segments" \in Parts /\ "composition" \in Parts
    BY DEF Parts
  <2>2. ASSUME NEW part \in Parts, NEW next, PollPromotes(part, next)
        PROVE  artifacts' \in [Versions -> [Parts -> ArtifactStates]]
    BY <2>2, PromotedIsTyped DEF PollPromotes, TypeOK
  <2> QED BY <2>1, <2>2 DEF TypeOK, PollRead, PollJudges, PollFailsCanary, PollActivates, PollCompletes
<1>6. active' \in BOOLEAN
  BY DEF TypeOK, PollRead, PollJudges, PollFailsCanary, PollActivates, PollCompletes, PollPromotes
<1> QED BY <1>2, <1>4, <1>5, <1>6 DEF TypeOK

LEMMA RunTypes ==
    ASSUME TypeOK, job' \in Job, NEW r \in Runs,
           RunStarts(r) \/ RunPasses(r) \/ RunRefused(r) \/ RunThrows(r) \/ RunEnds(r)
    PROVE  TypeOK'
<1>1. PICK to \in RunStates : \E from : RunStep(r, from, to)
  <2>1. {"running", "passed", "refused", "succeeded", "failed"} \subseteq RunStates
    BY DEF RunStates
  <2> QED BY <2>1 DEF RunStarts, RunPasses, RunRefused, RunThrows, RunEnds
<1>2. runs' \in [Runs -> Run]
  BY <1>1, RunIsTyped DEF RunStep, TypeOK
<1>3. binding' \in Binding
  BY RecordedIsTyped DEF RunStarts, RunPasses, RunRefused, RunThrows, RunEnds, TypeOK
<1> QED BY <1>1, <1>2, <1>3 DEF RunStep, TypeOK, handlers

LEMMA RetryTypes ==
    ASSUME TypeOK, job' \in Job, NEW q \in Retriers, RetryRead(q) \/ RetryWrite(q)
    PROVE  TypeOK'
<1>1. dispatches' \in [Dispatchers -> DispatchPhases] /\ retries' \subseteq Retriers
  BY DEF RetryRead, RetryWrite, TypeOK, Dispatchers, DispatchPhases
<1> QED BY <1>1 DEF RetryRead, RetryWrite, TypeOK, plane

LEMMA ExpireTypes ==
    ASSUME TypeOK, job' \in Job, ExpireCanary \/ \E r \in Runs : ExpireSelect(r)
    PROVE  TypeOK'
<1>1. CASE ExpireCanary
  <2>1. runs' \in [Runs -> Run]
    <3>1. CASE runs' = [runs EXCEPT ![expiring].state = "failed"]
      BY <1>1, <3>1, RunIsTyped DEF ExpireCanary, TypeOK, Run, RunStates
    <3> QED BY <1>1, <3>1 DEF ExpireCanary, TypeOK
  <2>2. binding' \in Binding
    BY <1>1, RecordedIsTyped DEF ExpireCanary, TypeOK
  <2> QED BY <1>1, <2>1, <2>2 DEF ExpireCanary, TypeOK
<1>2. CASE \E r \in Runs : ExpireSelect(r)
  BY <1>2 DEF ExpireSelect, TypeOK, plane
<1> QED BY <1>1, <1>2

LEMMA CrashTypes ==
    ASSUME TypeOK, Crash
    PROVE  TypeOK'
<1>1. crashes' \in 0 .. MaxCrashes
  BY BoundAssumption DEF Crash, TypeOK
<1>2. runs' \in [Runs -> Run]
  BY DEF Crash, TypeOK, Run, RunStates
<1>3. /\ dispatches' \in [Dispatchers -> DispatchPhases]
      /\ canary' \in Canary /\ poll' \in Poll
  BY IdleIsTyped DEF Crash, DispatchPhases
<1> QED BY <1>1, <1>2, <1>3 DEF Crash, TypeOK, plane

LEMMA NextTypeOK ==
    ASSUME TypeOK, [Next]_vars
    PROVE  TypeOK'
<1>1. job' \in Job
  BY JobIsTyped
<1>2. CASE UNCHANGED vars
  BY <1>2 DEF vars, handlers, plane, TypeOK
<1> QED BY <1>1, <1>2, DispatchTypes, AgentTypes, SubmitTypes, CanaryTypes, PollTypes, RunTypes,
           RetryTypes, ExpireTypes, CrashTypes DEF Next

\* Every row, handler and run keeps to the values the code writes.
THEOREM TypeCorrect == Spec => []TypeOK
<1>1. TypeOK /\ [Next]_vars => TypeOK'
  BY NextTypeOK
<1> QED BY <1>1, InitTypeOK, PTL DEF Spec

-----------------------------------------------------------------------------
(* A completed job is promoted: the inductive invariant. *)

PromotedOnce(v, part) == artifacts[v][part] \in {"promoted", "retired"}

\* A canary, and so a poll, starts from a candidate, and no step takes it away.
CandidateInv ==
    /\ job.execution # NULL => job.candidate # NULL
    /\ canary.phase # "idle" => job.candidate # NULL

\* What each phase of the poll has already made true of its candidate.
PollInv ==
    /\ poll.phase # "idle" => poll.candidate # NULL
    /\ poll.phase \in {"composition", "activate", "complete"} => PromotedOnce(poll.candidate, "segments")
    /\ poll.phase \in {"activate", "complete"} => PromotedOnce(poll.candidate, "composition")
    /\ poll.phase = "complete" => active

IInv == TypeOK /\ CandidateInv /\ PollInv /\ CompletedIsPromoted

LEMMA InitIInv == Init => IInv
<1> SUFFICES ASSUME Init PROVE IInv
  OBVIOUS
<1>1. ~Completed(job.status)
  BY BuildLifecycleAssumption DEF Init, Completed, Flags
<1>2. CandidateInv /\ PollInv
  BY DEF Init, NoCanary, NoPoll, CandidateInv, PollInv
<1> QED BY <1>1, <1>2, InitTypeOK DEF IInv, CompletedIsPromoted

\* The steps that write the artifacts or the activation.
LEMMA PlaneSteps ==
    ASSUME TypeOK, [Next]_vars
    PROVE  \/ artifacts' = artifacts /\ (active' = active \/ active')
           \/ active' = active /\ \E v \in Versions : SubmitCreate(v)
           \/ active' = active /\ \E part \in Parts, next \in PollPhases : PollPromotes(part, next)
<1>1. ASSUME NEW d \in Dispatchers,
             BeginDispatch(d) \/ ReserveDispatch(d) \/ HookAccepted(d) \/ HookFailed(d)
      PROVE  UNCHANGED plane
  BY <1>1 DEF BeginDispatch, ReserveDispatch, HookAccepted, HookFailed
<1>2. CASE \/ SweepLease \/ Claim \/ Heartbeat \/ Fail \/ Crash
           \/ \E v \in Versions : SubmitCommit(v)
           \/ \E q \in Retriers : RetryRead(q) \/ RetryWrite(q)
           \/ \E r \in Runs : ExpireSelect(r)
  BY <1>2 DEF SweepLease, Claim, Heartbeat, Fail, Crash, SubmitCommit, RetryRead, RetryWrite,
              ExpireSelect, plane
<1>3. CASE \/ CanaryRead \/ CanaryCompile \/ ReserveCanary \/ QueueCanaryFails
           \/ CanaryDispatchFailed \/ AttachCanaryRun \/ \E r \in Runs : QueueCanary(r)
  BY <1>3 DEF CanaryRead, CanaryCompile, ReserveCanary, QueueCanaryFails, CanaryDispatchFailed,
              AttachCanaryRun, QueueCanary, CanaryStep
<1>4. ASSUME NEW r \in Runs,
             RunStarts(r) \/ RunPasses(r) \/ RunRefused(r) \/ RunThrows(r) \/ RunEnds(r)
      PROVE  artifacts' = artifacts /\ active' = active
  BY <1>4 DEF RunStarts, RunPasses, RunRefused, RunThrows, RunEnds, RunStep
<1>5. CASE PollRead \/ PollJudges \/ PollFailsCanary \/ PollActivates \/ PollCompletes
  BY <1>5 DEF PollRead, PollJudges, PollFailsCanary, PollActivates, PollCompletes
<1>6. CASE PollPromotes("segments", "composition") \/ PollPromotes("composition", "activate")
  BY <1>6 DEF PollPromotes, Parts, PollPhases
<1>7. CASE ExpireCanary \/ UNCHANGED vars
  BY <1>7 DEF ExpireCanary, vars, plane
<1>8. ASSUME NEW v \in Versions, SubmitCreate(v)
      PROVE  active' = active
  BY <1>8 DEF SubmitCreate
<1> QED BY <1>1, <1>2, <1>3, <1>4, <1>5, <1>6, <1>7, <1>8 DEF Next, plane

\* What was promoted stays promoted or retired, and the capability stays active.
LEMMA Monotone ==
    ASSUME TypeOK, [Next]_vars, NEW v \in Versions, NEW part \in Parts, PromotedOnce(v, part)
    PROVE  PromotedOnce(v, part)' /\ (active => active')
<1>1. artifacts \in [Versions -> [Parts -> ArtifactStates]]
  BY DEF TypeOK
<1>2. CASE artifacts' = artifacts
  BY <1>2, PlaneSteps DEF PromotedOnce
<1>3. ASSUME NEW w \in Versions, SubmitCreate(w) PROVE PromotedOnce(v, part)'
  <2>1. artifacts[w] = [p \in Parts |-> "absent"]
    BY <1>3 DEF SubmitCreate
  <2>2. w # v
    BY <2>1 DEF PromotedOnce
  <2> QED BY <1>1, <1>3, <2>2 DEF SubmitCreate, PromotedOnce
<1>4. ASSUME NEW p \in Parts, NEW next \in PollPhases, PollPromotes(p, next), artifacts' # artifacts
      PROVE  PromotedOnce(v, part)'
  <2>1. artifacts' = Promoted(poll.candidate, p)
    BY <1>4 DEF PollPromotes
  <2> QED BY <1>1, <2>1 DEF Promoted, PromotedOnce
<1> QED BY <1>2, <1>3, <1>4, PlaneSteps

LEMMA CandidateStep ==
    ASSUME IInv, [Next]_vars
    PROVE  CandidateInv'
<1>1. job.candidate # NULL => job'.candidate # NULL
  BY NextJobStep, BoundAssumption
     DEF IInv, JobStep, Stays, Keeps, Moves, Completes, Reopens, PollInv
<1>2. job'.execution = job.execution \/ canary.phase = "reserve"
  BY NextJobStep DEF IInv, JobStep, Stays, Keeps, Moves, Completes, Reopens
<1>3. job'.execution # NULL => job'.candidate # NULL
  BY <1>1, <1>2 DEF IInv, CandidateInv
<1>4. canary'.phase # "idle" => canary.phase # "idle" \/ job.candidate # NULL
  <2>1. CASE canary' = canary \/ canary' = NoCanary \/ canary.phase # "idle" \/ CanaryRead
    BY <2>1 DEF NoCanary, CanaryRead
  <2>2. CASE \/ CanaryCompile \/ ReserveCanary \/ QueueCanaryFails
             \/ CanaryDispatchFailed \/ AttachCanaryRun \/ \E r \in Runs : QueueCanary(r)
    BY <2>2 DEF CanaryCompile, ReserveCanary, QueueCanaryFails, CanaryDispatchFailed,
                AttachCanaryRun, QueueCanary, CanaryStep, NoCanary
  <2>3. ASSUME NEW d \in Dispatchers,
               BeginDispatch(d) \/ ReserveDispatch(d) \/ HookAccepted(d) \/ HookFailed(d)
        PROVE  canary' = canary
    BY <2>3 DEF BeginDispatch, ReserveDispatch, HookAccepted, HookFailed
  <2>4. CASE \/ SweepLease \/ Claim \/ Heartbeat \/ Fail \/ Crash \/ UNCHANGED vars
             \/ \E v \in Versions : SubmitCreate(v) \/ SubmitCommit(v)
             \/ \E q \in Retriers : RetryRead(q) \/ RetryWrite(q)
             \/ ExpireCanary \/ \E r \in Runs : ExpireSelect(r)
    <3>1. canary' = canary \/ canary' = NoCanary
      BY <2>4 DEF SweepLease, Claim, Heartbeat, Fail, Crash, SubmitCreate, SubmitCommit, RetryRead,
                  RetryWrite, ExpireCanary, ExpireSelect, handlers, vars
    <3> QED BY <3>1, <2>1
  <2>5. ASSUME NEW r \in Runs,
               RunStarts(r) \/ RunPasses(r) \/ RunRefused(r) \/ RunThrows(r) \/ RunEnds(r)
        PROVE  canary' = canary
    BY <2>5 DEF RunStarts, RunPasses, RunRefused, RunThrows, RunEnds, RunStep, handlers
  <2>6. ASSUME \/ PollRead \/ PollJudges \/ PollFailsCanary \/ PollActivates \/ PollCompletes
               \/ PollPromotes("segments", "composition") \/ PollPromotes("composition", "activate")
        PROVE  canary' = canary
    BY <2>6
       DEF PollRead, PollJudges, PollFailsCanary, PollActivates, PollCompletes, PollPromotes, PollStep
  <2> QED BY <2>1, <2>2, <2>3, <2>4, <2>5, <2>6 DEF Next
<1> QED BY <1>1, <1>3, <1>4 DEF IInv, CandidateInv

\* The poll's phases: it begins, judges, and leaves a phase with its work done.
PollKeeps == poll' = poll \/ poll' = NoPoll
PollGoes(from, to) == poll.phase = from /\ poll' = [poll EXCEPT !.phase = to]
PollAdvances ==
    \/ \E to \in {"failing", "segments"} : PollGoes("read", to)
    \/ PollGoes("segments", "composition") /\ PromotedOnce(poll.candidate, "segments")'
    \/ PollGoes("composition", "activate") /\ PromotedOnce(poll.candidate, "composition")'
    \/ PollGoes("activate", "complete") /\ active'

LEMMA PromotesStep ==
    ASSUME IInv, NEW part \in Parts, NEW next, PollPromotes(part, next)
    PROVE  PollKeeps \/ (PollGoes(part, next) /\ artifacts'[poll.candidate][part] \in {"promoted", "retired"})
<1>1. poll.phase = part
  BY DEF PollPromotes, PollStep
<1>2. poll.candidate \in Versions /\ artifacts \in [Versions -> [Parts -> ArtifactStates]]
  BY <1>1 DEF IInv, PollInv, TypeOK, Poll, Parts
<1>3. CASE artifacts[poll.candidate][part] = "promoted" /\ artifacts' = artifacts
  BY <1>1, <1>3 DEF PollPromotes, PollKeeps, PollGoes
<1>4. CASE artifacts' = Promoted(poll.candidate, part) /\ poll' = [poll EXCEPT !.phase = next]
  <2>1. artifacts'[poll.candidate][part] = "promoted"
    BY <1>2, <1>4 DEF Promoted
  <2> QED BY <1>1, <1>4, <2>1 DEF PollGoes
<1>5. CASE poll' = NoPoll
  BY <1>5 DEF PollKeeps
<1> QED BY <1>3, <1>4, <1>5 DEF PollPromotes

LEMMA PollSequence ==
    ASSUME IInv, [Next]_vars
    PROVE  PollKeeps \/ PollRead \/ PollAdvances
<1>1. CASE PollPromotes("segments", "composition") \/ PollPromotes("composition", "activate")
  <2>1. "segments" \in Parts /\ "composition" \in Parts
    BY DEF Parts
  <2>2. CASE PollPromotes("segments", "composition")
    <3>1. \/ PollKeeps
          \/ /\ PollGoes("segments", "composition")
             /\ artifacts'[poll.candidate]["segments"] \in {"promoted", "retired"}
      BY <2>1, <2>2, PromotesStep
    <3>2. PollGoes("segments", "composition") => poll'.candidate = poll.candidate
      BY DEF PollGoes, IInv, TypeOK, Poll
    <3> QED BY <3>1, <3>2 DEF PollAdvances, PromotedOnce
  <2>3. CASE PollPromotes("composition", "activate")
    <3>1. \/ PollKeeps
          \/ /\ PollGoes("composition", "activate")
             /\ artifacts'[poll.candidate]["composition"] \in {"promoted", "retired"}
      BY <2>1, <2>3, PromotesStep
    <3>2. PollGoes("composition", "activate") => poll'.candidate = poll.candidate
      BY DEF PollGoes, IInv, TypeOK, Poll
    <3> QED BY <3>1, <3>2 DEF PollAdvances, PromotedOnce
  <2> QED BY <1>1, <2>2, <2>3
<1>2. CASE PollJudges \/ PollFailsCanary \/ PollActivates \/ PollCompletes
  BY <1>2 DEF PollJudges, PollFailsCanary, PollActivates, PollCompletes, PollStep, PollKeeps,
              PollAdvances, PollGoes
<1>3. ASSUME NEW d \in Dispatchers,
             BeginDispatch(d) \/ ReserveDispatch(d) \/ HookAccepted(d) \/ HookFailed(d)
      PROVE  poll' = poll
  BY <1>3 DEF BeginDispatch, ReserveDispatch, HookAccepted, HookFailed
<1>4. CASE \/ SweepLease \/ Claim \/ Heartbeat \/ Fail \/ Crash \/ UNCHANGED vars
           \/ \E v \in Versions : SubmitCreate(v) \/ SubmitCommit(v)
           \/ \E q \in Retriers : RetryRead(q) \/ RetryWrite(q)
           \/ ExpireCanary \/ \E r \in Runs : ExpireSelect(r)
  BY <1>4 DEF SweepLease, Claim, Heartbeat, Fail, Crash, SubmitCreate, SubmitCommit, RetryRead,
              RetryWrite, ExpireCanary, ExpireSelect, handlers, vars, PollKeeps
<1>5. ASSUME NEW r \in Runs,
             RunStarts(r) \/ RunPasses(r) \/ RunRefused(r) \/ RunThrows(r) \/ RunEnds(r)
      PROVE  poll' = poll
  BY <1>5 DEF RunStarts, RunPasses, RunRefused, RunThrows, RunEnds, RunStep, handlers
<1>6. CASE \/ CanaryRead \/ CanaryCompile \/ ReserveCanary \/ QueueCanaryFails
           \/ CanaryDispatchFailed \/ AttachCanaryRun \/ \E r \in Runs : QueueCanary(r)
  BY <1>6 DEF CanaryRead, CanaryCompile, ReserveCanary, QueueCanaryFails, CanaryDispatchFailed,
              AttachCanaryRun, QueueCanary, CanaryStep, PollKeeps
<1> QED BY <1>1, <1>2, <1>3, <1>4, <1>5, <1>6 DEF Next, PollKeeps

LEMMA PollStepInv ==
    ASSUME IInv, [Next]_vars
    PROVE  PollInv'
<1>1. TypeOK /\ CandidateInv /\ PollInv /\ poll \in Poll
  BY DEF IInv, TypeOK
<1>2. \A v \in Versions, part \in Parts : PromotedOnce(v, part) => PromotedOnce(v, part)'
  BY <1>1, Monotone
<1>3. active => active'
  BY <1>1, PlaneSteps
<1>4. poll.phase # "idle" => poll.candidate \in Versions
  BY <1>1 DEF PollInv, Poll
<1>5. "segments" \in Parts /\ "composition" \in Parts
  BY DEF Parts
<1>6. CASE poll' = poll
  BY <1>1, <1>2, <1>3, <1>4, <1>5, <1>6 DEF PollInv, PromotedOnce
<1>7. CASE poll' = NoPoll
  BY <1>7 DEF NoPoll, PollInv
<1>8. CASE PollRead
  <2>1. poll'.phase = "read" /\ poll'.candidate = job.candidate /\ job.candidate # NULL
    BY <1>1, <1>8 DEF PollRead, CandidateInv
  <2> QED BY <2>1 DEF PollInv
<1>9. CASE PollAdvances
  <2>1. PICK from, to : PollGoes(from, to)
    BY <1>9 DEF PollAdvances
  <2>2. poll'.candidate = poll.candidate
    BY <1>1, <2>1 DEF PollGoes, Poll
  <2>3. CASE \E to2 \in {"failing", "segments"} : PollGoes("read", to2)
    BY <1>1, <2>2, <2>3 DEF PollGoes, PollInv, Poll
  <2>4. CASE PollGoes("segments", "composition") /\ PromotedOnce(poll.candidate, "segments")'
    BY <1>1, <2>2, <2>4 DEF PollGoes, PollInv, Poll, PromotedOnce
  <2>5. CASE PollGoes("composition", "activate") /\ PromotedOnce(poll.candidate, "composition")'
    <3>1. PromotedOnce(poll.candidate, "segments")'
      BY <1>1, <1>2, <1>4, <1>5, <2>5 DEF PollGoes, PollInv, PromotedOnce
    <3> QED BY <1>1, <2>2, <2>5, <3>1 DEF PollGoes, PollInv, Poll, PromotedOnce
  <2>6. CASE PollGoes("activate", "complete") /\ active'
    <3>1. PromotedOnce(poll.candidate, "segments")' /\ PromotedOnce(poll.candidate, "composition")'
      BY <1>1, <1>2, <1>4, <1>5, <2>6 DEF PollGoes, PollInv, PromotedOnce
    <3> QED BY <1>1, <2>2, <2>6, <3>1 DEF PollGoes, PollInv, Poll, PromotedOnce
  <2> QED BY <1>9, <2>3, <2>4, <2>5, <2>6 DEF PollAdvances
<1> QED BY <1>6, <1>7, <1>8, <1>9, PollSequence DEF PollKeeps

LEMMA PromotedStep ==
    ASSUME IInv, [Next]_vars
    PROVE  CompletedIsPromoted'
<1>1. TypeOK /\ PollInv /\ CompletedIsPromoted /\ poll \in Poll /\ job \in Job
  BY DEF IInv, TypeOK
<1>2. \A v \in Versions, part \in Parts : PromotedOnce(v, part) => PromotedOnce(v, part)'
  BY <1>1, Monotone
<1>3. active => active'
  BY <1>1, PlaneSteps
<1>4. CASE Stays(job') /\ Completed(job'.status)
  <2>1. Completed(job.status) /\ job'.candidate = job.candidate
    BY <1>4 DEF Stays, Keeps
  <2>2. /\ active /\ job.candidate # NULL /\ job.candidate \in Versions
        /\ \A p \in Parts : PromotedOnce(job.candidate, p)
    BY <1>1, <2>1 DEF CompletedIsPromoted, PromotedOnce, Job
  <2> QED BY <1>2, <1>3, <2>1, <2>2 DEF CompletedIsPromoted, PromotedOnce
<1>5. CASE Moves(job')
  BY <1>5 DEF Moves, Onward, CompletedIsPromoted
<1>6. CASE Reopens(job')
  BY <1>6 DEF Reopens, Completed, CompletedIsPromoted
<1>7. CASE Completes(job')
  <2>1. /\ active /\ poll.candidate # NULL /\ poll.candidate \in Versions
        /\ \A p \in Parts : PromotedOnce(poll.candidate, p)
    BY <1>1, <1>7 DEF Completes, PollInv, Poll, Parts
  <2>2. job'.candidate = poll.candidate
    BY <1>7 DEF Completes
  <2> QED BY <1>2, <1>3, <2>1, <2>2 DEF CompletedIsPromoted, PromotedOnce
<1>8. CASE ~Completed(job'.status)
  BY <1>8 DEF CompletedIsPromoted
<1> QED BY <1>1, <1>4, <1>5, <1>6, <1>7, <1>8, NextJobStep DEF JobStep

LEMMA NextIInv == IInv /\ [Next]_vars => IInv'
<1> SUFFICES ASSUME IInv, [Next]_vars PROVE IInv'
  OBVIOUS
<1>1. TypeOK'
  BY NextTypeOK DEF IInv
<1> QED BY <1>1, CandidateStep, PollStepInv, PromotedStep DEF IInv

\* A completed job names a candidate whose segments and composition were promoted and
\* whose capability is active, however polls, submissions, canaries, sweeps and
\* restarts interleave (reconcileCanary).
THEOREM CompletedAlwaysPromoted == Spec => []CompletedIsPromoted
<1>1. IInv => CompletedIsPromoted
  BY DEF IInv
<1> QED BY <1>1, InitIInv, NextIInv, PTL DEF Spec

-----------------------------------------------------------------------------
(* What a step never does. *)

LEMMA StatusStep ==
    ASSUME TypeOK, [Next]_vars
    PROVE  \/ job'.status = job.status
           \/ \E t \in Transitions : t.from_status = job.status /\ job'.status = t.to_status
           \/ Flags(job.status).terminal /\ ~job.reopened
  BY NextJobStep DEF JobStep, Stays, Keeps, Moves, Onward, Completes, Reopens

\* A hook call that fails late never sends a job back to the queue once an agent
\* works on it, nor does any other step (dispatch's catch).
THEOREM ClaimsNotUndone == Spec => ClaimIsNotUndone
<1>1. TypeOK /\ [Next]_vars => (AtWork(job.status) => ~Flags(job'.status).initial)
  BY StatusStep, BuildLifecycleAssumption DEF AtWork
<1> QED BY <1>1, TypeCorrect, PTL DEF Spec, ClaimIsNotUndone

\* However many reconcile-blocked calls overlap, a failed job is reopened once in its
\* life (reconcileTerminalSegmentBuildJobForRetry).
THEOREM ReopenedAtMostOnce == Spec => ReopenedOnce
<1>1. TypeOK /\ [Next]_vars
        => (Flags(job.status).terminal /\ Flags(job'.status).initial => ~job.reopened)
  <2> SUFFICES ASSUME TypeOK, [Next]_vars, Flags(job.status).terminal, Flags(job'.status).initial
               PROVE  ~job.reopened
    OBVIOUS
  <2>1. job.status \in Statuses
    BY DEF TypeOK, Job
  <2>2. job'.status # job.status
    BY <2>1, BuildLifecycleAssumption
  <2> QED BY <2>2, StatusStep, BuildLifecycleAssumption
<1> QED BY <1>1, TypeCorrect, PTL DEF Spec, ReopenedOnce

LEMMA RunStepKeeps ==
    ASSUME TypeOK, [Next]_vars, NEW r \in Runs, runs[r].state \in {"running", "passed"}
    PROVE  runs'[r].state # "failed"
<1>1. runs \in [Runs -> Run]
  BY DEF TypeOK
<1>2. CASE runs' = runs
  BY <1>2
<1>3. ASSUME NEW o \in Runs, QueueCanary(o) PROVE runs'[r].state # "failed"
  BY <1>1, <1>3 DEF QueueCanary, Run
<1>4. ASSUME NEW o \in Runs,
             RunStarts(o) \/ RunPasses(o) \/ RunRefused(o) \/ RunThrows(o) \/ RunEnds(o)
      PROVE  runs'[r].state # "failed"
  <2>1. \/ RunStep(o, "queued", "running") \/ RunStep(o, "running", "passed")
        \/ RunStep(o, "running", "refused") \/ RunStep(o, "passed", "succeeded")
        \/ RunStep(o, "refused", "failed")
    BY <1>4 DEF RunStarts, RunPasses, RunRefused, RunThrows, RunEnds
  <2> QED BY <1>1, <2>1 DEF RunStep, Run
<1>5. CASE ExpireCanary
  <2>1. \/ runs' = runs
        \/ /\ runs[expiring].state = "queued" /\ expiring # NULL
           /\ runs' = [runs EXCEPT ![expiring].state = "failed"]
    BY <1>5 DEF ExpireCanary, StillWaits, Waits
  <2> QED BY <1>1, <2>1 DEF Run
<1>6. CASE Crash
  BY <1>1, <1>6 DEF Crash, Run
<1>7. ASSUME NEW d \in Dispatchers,
             BeginDispatch(d) \/ ReserveDispatch(d) \/ HookAccepted(d) \/ HookFailed(d)
      PROVE  runs' = runs
  BY <1>7 DEF BeginDispatch, ReserveDispatch, HookAccepted, HookFailed
<1>8. CASE \/ SweepLease \/ Claim \/ Heartbeat \/ Fail \/ UNCHANGED vars
           \/ \E v \in Versions : SubmitCreate(v) \/ SubmitCommit(v)
           \/ \E q \in Retriers : RetryRead(q) \/ RetryWrite(q)
           \/ \E o \in Runs : ExpireSelect(o)
  BY <1>2, <1>8 DEF SweepLease, Claim, Heartbeat, Fail, SubmitCreate, SubmitCommit, RetryRead,
                    RetryWrite, ExpireSelect, vars
<1>9. CASE \/ CanaryRead \/ CanaryCompile \/ ReserveCanary \/ QueueCanaryFails
           \/ CanaryDispatchFailed \/ AttachCanaryRun
  BY <1>2, <1>9 DEF CanaryRead, CanaryCompile, ReserveCanary, QueueCanaryFails,
                    CanaryDispatchFailed, AttachCanaryRun
<1>10. CASE \/ PollRead \/ PollJudges \/ PollFailsCanary \/ PollActivates \/ PollCompletes
            \/ PollPromotes("segments", "composition") \/ PollPromotes("composition", "activate")
  BY <1>2, <1>10 DEF PollRead, PollJudges, PollFailsCanary, PollActivates, PollCompletes,
                     PollPromotes, PollStep
<1> QED BY <1>2, <1>3, <1>4, <1>5, <1>6, <1>7, <1>8, <1>9, <1>10 DEF Next

\* The offline sweep never fails a canary the device has begun, though it selected the
\* run before it took any lock (expireOfflineQueuedCanaries).
THEOREM RunningCanaryKept == Spec => RunningCanaryIsNotExpired
<1>1. TypeOK /\ [Next]_vars
        => \A r \in Runs : runs[r].state \in {"running", "passed"} => runs'[r].state # "failed"
  BY RunStepKeeps
<1> QED BY <1>1, TypeCorrect, PTL DEF Spec, RunningCanaryIsNotExpired
=============================================================================
