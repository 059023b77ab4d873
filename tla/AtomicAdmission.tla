-------------------------- MODULE AtomicAdmission --------------------------
(***************************************************************************)
(* What queueing a run promises, without transactions, locks or retries:    *)
(* runs and admissions appear one at a time, a run together with the        *)
(* admission it needs, one of each per key, and no limit is ever exceeded.  *)
(***************************************************************************)
EXTENDS Integers, FiniteSets

CONSTANTS
    Scopes,     \* whose admissions are counted together
    Limits,     \* [window, maxRuns, maxUnits], a cap being NULL if there is none
    UnitCost,   \* what one admission uses up
    Times,      \* when a window may begin
    NULL

VARIABLES
    ledger,     \* the admissions, records with key, scope, plan and created
    runs        \* the runs, records with key, plan and admission

tables == <<ledger, runs>>

RowsIn(rows, scope, from, to) ==
    {row \in rows : row.scope = scope /\ row.created >= from /\ row.created <= to}
Fits(rows) ==
    \A limit \in Limits, scope \in Scopes, from \in Times :
        LET n == Cardinality(RowsIn(rows, scope, from, from + limit.window)) IN
        /\ limit.maxRuns # NULL => n <= limit.maxRuns
        /\ limit.maxUnits # NULL => n * UnitCost <= limit.maxUnits

\* The key has no admission yet, and there is room for this one.
Admit(row) ==
    /\ ~\E other \in ledger : other.scope = row.scope /\ other.key = row.key
    /\ Fits(ledger \cup {row})
    /\ ledger' = ledger \cup {row}

Init == ledger = {} /\ runs = {}

\* A new run, with the admission of its own plan if it needs one.
Queue(run) ==
    /\ ~\E other \in runs : other.key = run.key
    /\ runs' = runs \cup {run}
    /\ \/ run.admission = NULL /\ UNCHANGED ledger
       \/ /\ run.admission.key = run.key /\ run.admission.plan = run.plan
          /\ Admit(run.admission)

\* An admission for a run that was queued without one.
Cover(row) ==
    /\ \E run \in runs : run.key = row.key /\ run.plan = row.plan
    /\ Admit(row)
    /\ UNCHANGED runs

\* What may be queued and admitted is left open: anything that is there afterwards.
Next == (\E run \in runs' : Queue(run)) \/ (\E row \in ledger' : Cover(row))

Spec == Init /\ [][Next]_tables
=============================================================================
