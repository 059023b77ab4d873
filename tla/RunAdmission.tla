---------------------------- MODULE RunAdmission ----------------------------
(***************************************************************************)
(* Queueing a human workflow run: POST calls that become one run and one    *)
(* task, guarded by the idempotency key and by the workflow safety          *)
(* admission ledger (migration 120).                                        *)
(*                                                                         *)
(* A call is one PostgreSQL transaction under READ COMMITTED with two       *)
(* transaction-scoped advisory locks: first the one of its request, then,   *)
(* if the policy keeps a ledger, the one of its safety scope.  NOW() is the *)
(* time the transaction began, however long it waits for a lock.  One       *)
(* safety class is modelled; a scope stands for a rendered scope_key.       *)
(***************************************************************************)
EXTENDS Integers, FiniteSets

CONSTANTS
    Calls,      \* HTTP requests, a client's retries included
    Keys,       \* idempotency identities (client, account and device included)
    KeyOf,      \* call |-> its key
    LockOf,     \* call |-> the name of its request lock
    Scopes, ScopeOf,   \* key |-> the safety scope its context renders to
    Plans,      \* contents of the cached artifact (compiled_plan_hash)
    Policies,   \* rows of the policy that can be active
    Limits,     \* limits of the policy: a window and a cap on runs, on units or both
    UnitCost,   \* units one admission consumes
    MaxNow,     \* bound on the clock
    NULL

Policy == [version : STRING, ledgered : BOOLEAN, granted : BOOLEAN, allowed : SUBSET Plans]
Limit == [window : Nat, maxRuns : Nat \cup {NULL}, maxUnits : Nat \cup {NULL}]
LedgerRow == [key : Keys, scope : Scopes, version : STRING, plan : Plans, created : Nat]
Run == [key : Keys, call : Calls, plan : Plans, admission : LedgerRow \cup {NULL}]

ASSUME AdmissionAssumption ==
    /\ KeyOf \in [Calls -> Keys] /\ ScopeOf \in [Keys -> Scopes]
    /\ Policies \subseteq Policy /\ Limits \subseteq Limit
    /\ UnitCost \in Nat \ {0} /\ MaxNow \in Nat
    /\ NULL \notin Nat /\ NULL \notin Plans /\ NULL \notin LedgerRow /\ NULL \notin Policy

VARIABLES
    now,         \* the clock
    plan,        \* the dispatchable artifact in the plan cache, or NULL
    policy,      \* the active policy
    calls,       \* the transactions
    ledger,      \* committed rows of workflow_safety_admission_ledger
    runs,        \* committed agency_workflow_runs, each with its task
    dispatched   \* the newest dispatch: the artifact queued and the one sent

tables == <<ledger, runs>>
vars == <<now, plan, policy, calls, ledger, runs, dispatched>>

\* A call that holds its request's lock goes "locked", "admitting", "scoped" (if its
\* policy keeps a ledger), "reserved", "checked"; "row" is the ledger row it relies
\* on, "fresh" if it inserted it.
Phases == {"idle", "begun", "locked", "admitting", "scoped", "reserved", "checked", "done"}
Call == [phase : Phases, began : Nat, plan : Plans \cup {NULL}, policy : Policies \cup {NULL},
         row : LedgerRow \cup {NULL}, fresh : BOOLEAN]

-----------------------------------------------------------------------------
HoldsRequest(c) == calls[c].phase \in {"locked", "admitting", "scoped", "reserved", "checked"}
\* (variant: a session's lock, which survives the transaction)
HoldsScope_Session(c) == calls[c].phase \in {"scoped", "reserved", "checked", "done"}
HoldsScope(c) ==
    calls[c].phase = "scoped" \/ (calls[c].phase \in {"reserved", "checked"} /\ calls[c].row # NULL)
Scope(c) == ScopeOf[KeyOf[c]]
RequestLockFree(c) == ~\E d \in Calls : HoldsRequest(d) /\ LockOf[d] = LockOf[c]
\* (variant: no lock)
ScopeLockFree_NoLock(c) == TRUE
ScopeLockFree(c) == ~\E d \in Calls : HoldsScope(d) /\ Scope(d) = Scope(c)

Goes(c, phase) == calls' = [calls EXCEPT ![c].phase = phase]

\* The end of a transaction, with an answer to the client: ROLLBACK takes an
\* inserted ledger row with it, COMMIT publishes it.
NewCall == [phase |-> "idle", began |-> 0, plan |-> NULL, policy |-> NULL,
            row |-> NULL, fresh |-> FALSE]
Ends(c) == calls' = [calls EXCEPT ![c] = [NewCall EXCEPT !.phase = "done"]]
\* (variant: the admission is written outside the transaction)
Rollback_KeepsAdmission(c) ==
    /\ Ends(c) /\ UNCHANGED runs
    /\ ledger' = IF calls[c].fresh THEN ledger \cup {calls[c].row} ELSE ledger
Rollback(c) == Ends(c) /\ UNCHANGED tables
Commit(c) ==
    /\ Ends(c)
    /\ ledger' = IF calls[c].fresh THEN ledger \cup {calls[c].row} ELSE ledger

\* findExistingRun: none, a replay of this request, or a different request that
\* already owns the key.
RunsOf(c) == {r \in runs : r.key = KeyOf[c]}
Replayed(c) == \E r \in RunsOf(c) : r.plan = calls[c].plan
Conflicts(c) == RunsOf(c) # {} /\ ~Replayed(c)

\* assertApproval; an approval that expires is a policy that is no longer granted.
Approved(p) == p.granted

-----------------------------------------------------------------------------
(* queueHumanAgencyWorkflowRun *)

Begin(c) ==
    /\ calls[c].phase = "idle"
    /\ calls' = [calls EXCEPT ![c].phase = "begun", ![c].began = now]
    /\ UNCHANGED <<now, plan, policy, tables, dispatched>>

\* (variant: a missing artifact is not noticed)
TakeRequestLock_Unread(c) ==
    /\ calls[c].phase = "begun" /\ RequestLockFree(c)
    /\ calls' = [calls EXCEPT ![c].phase = "locked", ![c].plan = plan]
    /\ UNCHANGED <<now, plan, policy, tables, dispatched>>
\* The request lock is granted; the artifact is read under it.
TakeRequestLock(c) ==
    /\ calls[c].phase = "begun" /\ RequestLockFree(c)
    /\ IF plan = NULL THEN Ends(c)
       ELSE calls' = [calls EXCEPT ![c].phase = "locked", ![c].plan = plan]
    /\ UNCHANGED <<now, plan, policy, tables, dispatched>>

\* replayBeforeAdmission, then the policy the admission goes by.
ReplayBefore(c) ==
    /\ calls[c].phase = "locked"
    /\ CASE Replayed(c) -> Rollback(c)
         [] Conflicts(c) -> Rollback(c)
         [] OTHER -> /\ calls' = [calls EXCEPT ![c].phase = "admitting", ![c].policy = policy]
                     /\ UNCHANGED tables
    /\ UNCHANGED <<now, plan, policy, dispatched>>

\* reserveWorkflowSafetyAdmission up to its lock: a policy without a ledger admits
\* at once.
TakeScopeLock(c) ==
    LET p == calls[c].policy IN
    /\ calls[c].phase = "admitting"
    /\ IF calls[c].plan \notin p.allowed \/ (p.ledgered /\ ~Approved(p)) THEN Rollback(c)
       ELSE /\ p.ledgered => ScopeLockFree(c)
            /\ Goes(c, IF p.ledgered THEN "scoped" ELSE "reserved")
            /\ UNCHANGED tables
    /\ UNCHANGED <<now, plan, policy, dispatched>>

\* The usage a limit counts: rows of the scope since the caller's NOW() less the
\* window, without an upper bound.
Usage(scope, since) == {row \in ledger : row.scope = scope /\ row.created >= since}
Exhausted(limit, used) ==
    \/ limit.maxRuns # NULL /\ Cardinality(used) >= limit.maxRuns
    \/ limit.maxUnits # NULL /\ (Cardinality(used) + 1) * UnitCost > limit.maxUnits
WithinLimits(c) ==
    \A limit \in Limits : ~Exhausted(limit, Usage(Scope(c), calls[c].began - limit.window))

Ticket(c) == [key |-> KeyOf[c], scope |-> Scope(c), version |-> calls[c].policy.version,
              plan |-> calls[c].plan, created |-> calls[c].began]
Admitted(c) == {row \in ledger : row.scope = Scope(c) /\ row.key = KeyOf[c]}

\* reserveWorkflowSafetyAdmission under its lock: replay, limits, insert.
Reserve(c) ==
    /\ calls[c].phase = "scoped"
    /\ CASE \E row \in Admitted(c) : row.version = calls[c].policy.version /\ row.plan = calls[c].plan ->
                calls' = [calls EXCEPT ![c].phase = "reserved",
                                       ![c].row = CHOOSE row \in Admitted(c) : TRUE]
         [] Admitted(c) = {} /\ WithinLimits(c) ->
                calls' = [calls EXCEPT ![c].phase = "reserved", ![c].row = Ticket(c),
                                       ![c].fresh = TRUE]
         [] OTHER -> Ends(c)
    /\ UNCHANGED <<now, plan, policy, tables, dispatched>>

\* replayAfterAdmission.
ReplayAfter(c) ==
    /\ calls[c].phase = "reserved"
    /\ CASE Replayed(c) -> Commit(c) /\ UNCHANGED runs
         [] Conflicts(c) -> Rollback(c)
         [] OTHER -> Goes(c, "checked") /\ UNCHANGED tables
    /\ UNCHANGED <<now, plan, policy, dispatched>>

\* Run, task and COMMIT.  The unique index on the key makes a second insert wait
\* for the first transaction and then fail.
IndexAdmits_NoIndex(c) == TRUE
IndexAdmits(c) == RunsOf(c) = {}
CommitRun(c) ==
    /\ calls[c].phase = "checked"
    /\ IF IndexAdmits(c)
       THEN /\ Commit(c)
            /\ runs' = runs \cup {[key |-> KeyOf[c], call |-> c, plan |-> calls[c].plan,
                                   admission |-> calls[c].row]}
       ELSE Rollback(c)
    /\ UNCHANGED <<now, plan, policy, dispatched>>

\* A lost connection, a statement error or a crash rolls the transaction back.
Fail(c) ==
    /\ calls[c].phase \notin {"idle", "done"}
    /\ Rollback(c)
    /\ UNCHANGED <<now, plan, policy, dispatched>>

-----------------------------------------------------------------------------
\* assertWorkflowSafetyDispatch on the artifact the task runner finds in the cache.
ReceiptValid_AnyPlan(r) ==
    Approved(policy) /\ r.admission \in ledger /\ r.admission.version = policy.version
ReceiptValid(r) ==
    /\ Approved(policy)
    /\ r.admission \in ledger
    /\ r.admission.version = policy.version
    /\ r.admission.plan = plan
Dispatch(r) ==
    /\ plan # NULL /\ plan \in policy.allowed
    /\ policy.ledgered => ReceiptValid(r)
    /\ dispatched' = [queued |-> r.plan, sent |-> plan, ledgered |-> policy.ledgered]
    /\ UNCHANGED <<now, plan, policy, calls, tables>>

\* Time, operators and recompilations.
Tick == now < MaxNow /\ now' = now + 1 /\ UNCHANGED <<plan, policy, calls, tables, dispatched>>
ChangePolicy == /\ \E p \in Policies \ {policy} : policy' = p
                /\ UNCHANGED <<now, plan, calls, tables, dispatched>>
ReplacePlan == /\ \E p \in (Plans \cup {NULL}) \ {plan} : plan' = p
               /\ UNCHANGED <<now, policy, calls, tables, dispatched>>

Init ==
    /\ now = 0 /\ plan \in Plans /\ policy \in Policies
    /\ calls = [c \in Calls |-> NewCall]
    /\ ledger = {} /\ runs = {} /\ dispatched = NULL

Step(c) == Begin(c) \/ TakeRequestLock(c) \/ ReplayBefore(c) \/ TakeScopeLock(c)
           \/ Reserve(c) \/ ReplayAfter(c) \/ CommitRun(c) \/ Fail(c)
Next ==
    \/ \E c \in Calls : Step(c)
    \/ \E r \in runs : Dispatch(r)
    \/ Tick \/ ChangePolicy \/ ReplacePlan

Spec == Init /\ [][Next]_vars

\* PostgreSQL goes on with a transaction it can go on with.
Advances(c) == TakeRequestLock(c) \/ ReplayBefore(c) \/ TakeScopeLock(c)
               \/ Reserve(c) \/ ReplayAfter(c) \/ CommitRun(c)
FairSpec == Spec /\ \A c \in Calls : WF_vars(Advances(c))

-----------------------------------------------------------------------------
(* Properties *)

\* The tables keep their column types and each call only what its phase has read.
TypeOK ==
    /\ now \in 0..MaxNow /\ plan \in Plans \cup {NULL} /\ policy \in Policies
    /\ calls \in [Calls -> Call]
    /\ ledger \subseteq LedgerRow /\ runs \subseteq Run
    /\ dispatched \in [queued : Plans, sent : Plans, ledgered : BOOLEAN] \cup {NULL}
    /\ \A c \in Calls : /\ HoldsRequest(c) => calls[c].plan \in Plans
                        /\ calls[c].phase \in {"admitting", "scoped", "reserved", "checked"}
                              => calls[c].policy \in Policies

\* A retried, doubled or concurrent request never becomes a second run, also when
\* its retries hold different request locks and no scope lock is taken.
OneRunPerKey == \A r, s \in runs : r.key = s.key => r = s

\* No window of a limit ever holds more admissions, or dearer ones, than the limit
\* allows, although the calls count before they insert, at times fixed before they
\* wait for the lock.
RowsIn(scope, from, to) ==
    {row \in ledger : row.scope = scope /\ row.created >= from /\ row.created <= to}
LimitsHold ==
    \A limit \in Limits, scope \in Scopes, from \in 0..MaxNow :
        LET n == Cardinality(RowsIn(scope, from, from + limit.window)) IN
        /\ limit.maxRuns # NULL => n <= limit.maxRuns
        /\ limit.maxUnits # NULL => n * UnitCost <= limit.maxUnits

\* No admission is consumed for a run that was never queued, whatever failed in
\* between: the ledger row and the run are written together or not at all.  (A consequence
\* of AdmissionIsAtomic.)
AdmissionHasItsRun == \A row \in ledger : \E r \in runs : r.key = row.key

\* Under a ledger a run is only ever dispatched with the artifact it was queued
\* with, however the plan cache and the policy changed since.
DispatchedAsQueued ==
    dispatched # NULL /\ dispatched.ledgered => dispatched.sent = dispatched.queued

\* However the calls' transactions overlap, retry and fail, the two tables look as if
\* runs and admissions had been made one at a time, each by the commit that publishes it
\* (queueHumanAgencyWorkflowRun): two transactions that read before either wrote
\* cannot both count on what they read.
Atomic == INSTANCE AtomicAdmission WITH Times <- 0..MaxNow
AdmissionIsAtomic == Atomic!Spec

\* Every call that has begun is answered: the two locks cannot deadlock.  A call
\* begins once, so this is to say that from some time on no call is under way.
EveryCallAnswered == <>[](\A c \in Calls : calls[c].phase \in {"idle", "done"})
=============================================================================
