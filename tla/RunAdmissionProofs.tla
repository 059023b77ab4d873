------------------------- MODULE RunAdmissionProofs -------------------------
(***************************************************************************)
(* Proofs about RunAdmission, for every set of calls, keys, scopes,         *)
(* policies and limits.                                                     *)
(*                                                                         *)
(* The heart is LimitsHold: a call counts before it inserts and commits, but *)
(* it keeps its scope's lock in between (ScopeLocked), so what it counted is *)
(* still the whole ledger of its scope when its row is published             *)
(* (FreshIsAdmissible), and the count has no upper time bound, so no window  *)
(* that holds the new row holds a row it missed.                             *)
(***************************************************************************)
EXTENDS RunAdmission, FiniteSetTheorems, TLAPS

-----------------------------------------------------------------------------
(* The inductive invariant. *)

\* Two calls never hold one scope's lock.
ScopeLocked == \A c, d \in Calls : HoldsScope(c) /\ HoldsScope(d) /\ Scope(c) = Scope(d) => c = d

\* A call relies on a row of its own key and artifact, and only once it has reserved.
RowIsOwn ==
    \A c \in Calls : calls[c].row # NULL =>
        /\ calls[c].phase \in {"reserved", "checked"}
        /\ calls[c].row.key = KeyOf[c] /\ calls[c].row.plan = calls[c].plan

\* An uncommitted row would still be admitted.
FreshIsAdmissible ==
    \A c \in Calls : calls[c].fresh =>
        calls[c].row = Ticket(c) /\ calls[c].row # NULL /\ Admitted(c) = {} /\ WithinLimits(c)

\* The unique index of the ledger.
OneRowPerKey == \A r, s \in ledger : r.scope = s.scope /\ r.key = s.key => r = s

\* A run keeps the artifact its admission names.
RunHasItsPlan == \A r \in runs : r.admission # NULL => r.admission.plan = r.plan

IInv ==
    /\ TypeOK /\ IsFiniteSet(ledger)
    /\ ScopeLocked /\ RowIsOwn /\ FreshIsAdmissible /\ OneRowPerKey /\ RunHasItsPlan
    /\ OneRunPerKey /\ LimitsHold /\ AdmissionHasItsRun /\ DispatchedAsQueued

-----------------------------------------------------------------------------
(* What a step does. *)

Others(c) == \A d \in Calls \ {c} : calls'[d] = calls[d]
Ended == [NewCall EXCEPT !.phase = "done"]

LEMMA EndedIsTyped ==
    Ended \in Call /\ Ended.phase = "done" /\ Ended.row = NULL /\ Ended.fresh = FALSE
<1>1. NewCall \in Call /\ NewCall.row = NULL /\ NewCall.fresh = FALSE
  BY DEF NewCall, Call, Phases
<1>2. "done" \in Phases
  BY DEF Phases
<1> QED BY <1>1, <1>2 DEF Ended, Call

LEMMA EndsEffect ==
    ASSUME TypeOK, NEW c \in Calls, Ends(c)
    PROVE  calls' \in [Calls -> Call] /\ calls'[c] = Ended /\ Others(c)
<1>1. calls' = [calls EXCEPT ![c] = Ended]
  BY DEF Ends, Ended
<1> QED BY <1>1, EndedIsTyped DEF TypeOK, Others

LEMMA UpdateEffect ==
    ASSUME TypeOK, NEW c \in Calls, NEW call \in Call, calls' = [calls EXCEPT ![c] = call]
    PROVE  calls' \in [Calls -> Call] /\ Others(c) /\ calls'[c] = call
  BY DEF TypeOK, Others

LEMMA GoesEffect ==
    ASSUME TypeOK, NEW c \in Calls, NEW phase \in Phases, Goes(c, phase)
    PROVE  /\ calls' \in [Calls -> Call] /\ Others(c)
           /\ calls'[c] = [calls[c] EXCEPT !.phase = phase]
  BY DEF TypeOK, Goes, Others, Call

\* Only a call that has reserved publishes a row, its own, and ends.
Publishes(c) ==
    /\ calls[c].phase \in {"reserved", "checked"} /\ calls[c].fresh
    /\ calls'[c] = Ended /\ ledger' = ledger \cup {calls[c].row}

LEMMA CommitEffect ==
    ASSUME TypeOK, NEW c \in Calls, Commit(c), calls[c].phase \in {"reserved", "checked"}
    PROVE  /\ calls' \in [Calls -> Call] /\ calls'[c] = Ended /\ Others(c)
           /\ (~calls[c].fresh /\ ledger' = ledger) \/ Publishes(c)
<1>1. Ends(c)
  BY DEF Commit
<1> QED BY <1>1, EndsEffect DEF Commit, Publishes

LEMMA TicketIsTyped ==
    ASSUME TypeOK, NEW c \in Calls, calls[c].phase = "scoped"
    PROVE  Ticket(c) \in LedgerRow /\ Ticket(c) # NULL
<1>1. calls[c].plan \in Plans /\ calls[c].policy \in Policies /\ calls[c].began \in Nat
  BY DEF TypeOK, HoldsRequest, Call
<1>2. calls[c].policy.version \in STRING
  BY <1>1, AdmissionAssumption DEF Policy
<1>3. KeyOf[c] \in Keys /\ Scope(c) \in Scopes
  BY AdmissionAssumption DEF Scope
<1> QED BY <1>1, <1>2, <1>3, AdmissionAssumption DEF Ticket, LedgerRow

-----------------------------------------------------------------------------
(* How one call may change: the cases every conjunct is preserved in. *)

Kept(c) ==  \* what a call keeps while it goes on
    /\ calls'[c].row = calls[c].row /\ calls'[c].fresh = calls[c].fresh
    /\ calls'[c].began = calls[c].began /\ calls'[c].plan = calls[c].plan
    /\ calls'[c].policy = calls[c].policy

\* A call that holds no scope lock and relies on no row still does not.
Early(c) ==
    /\ calls[c].phase \in {"idle", "begun", "locked", "admitting"}
    /\ calls'[c].row = calls[c].row /\ calls'[c].fresh = calls[c].fresh
    /\ \/ calls'[c].phase = "begun"
       \/ calls'[c].phase = "locked" /\ calls'[c].plan \in Plans
       \/ /\ calls[c].phase = "locked" /\ calls'[c].phase = "admitting"
          /\ calls'[c].plan = calls[c].plan /\ calls'[c].policy \in Policies
       \/ calls[c].phase = "admitting" /\ calls'[c].phase = "reserved" /\ Kept(c)
Locks(c) ==  \* it takes the scope's lock
    /\ calls[c].phase = "admitting" /\ calls'[c].phase = "scoped" /\ ScopeLockFree(c) /\ Kept(c)
Relies(c) ==  \* it finds the row of its key
    /\ calls[c].phase = "scoped" /\ calls'[c].phase = "reserved"
    /\ \E row \in Admitted(c) : row.version = calls[c].policy.version /\ row.plan = calls[c].plan
    /\ calls'[c] = [calls[c] EXCEPT !.phase = "reserved", !.row = CHOOSE row \in Admitted(c) : TRUE]
Inserts(c) ==
    /\ calls[c].phase = "scoped" /\ calls'[c].phase = "reserved"
    /\ Admitted(c) = {} /\ WithinLimits(c)
    /\ calls'[c] = [calls[c] EXCEPT !.phase = "reserved", !.row = Ticket(c), !.fresh = TRUE]
Checks(c) == calls[c].phase = "reserved" /\ calls'[c].phase = "checked" /\ Kept(c)

CallStep(c) ==
    /\ Others(c)
    /\ \/ /\ UNCHANGED tables
          /\ \/ calls'[c] = Ended \/ Early(c) \/ Locks(c)
             \/ Relies(c) \/ Inserts(c) \/ Checks(c)
       \/ /\ calls[c].phase = "reserved" /\ Replayed(c) /\ UNCHANGED runs
          /\ calls'[c] = Ended /\ ((~calls[c].fresh /\ ledger' = ledger) \/ Publishes(c))
       \/ /\ calls[c].phase = "checked" /\ IndexAdmits(c)
          /\ calls'[c] = Ended /\ ((~calls[c].fresh /\ ledger' = ledger) \/ Publishes(c))
          /\ runs' = runs \cup {[key |-> KeyOf[c], call |-> c, plan |-> calls[c].plan,
                                 admission |-> calls[c].row]}

LEMMA TakeRequestLockStep ==
    ASSUME TypeOK, NEW c \in Calls, TakeRequestLock(c)
    PROVE  calls' \in [Calls -> Call] /\ CallStep(c)
<1>1. CASE plan = NULL
  BY <1>1, EndsEffect DEF TakeRequestLock, CallStep
<1>2. CASE plan # NULL
  <2>1. calls' = [calls EXCEPT ![c].phase = "locked", ![c].plan = plan] /\ plan \in Plans
    BY <1>2 DEF TakeRequestLock, TypeOK
  <2> DEFINE call == [calls[c] EXCEPT !.phase = "locked", !.plan = plan]
  <2>2. calls[c] \in Call /\ "locked" \in Phases
    BY DEF TypeOK, Phases
  <2>3. /\ call \in Call /\ call.phase = "locked" /\ call.plan = plan
        /\ call.row = calls[c].row /\ call.fresh = calls[c].fresh
    BY <2>1, <2>2 DEF Call
  <2>4. calls' = [calls EXCEPT ![c] = call]
    BY <2>1
  <2> HIDE DEF call
  <2>5. calls' \in [Calls -> Call] /\ Others(c) /\ calls'[c] = call
    BY <2>3, <2>4, UpdateEffect
  <2>6. Early(c)
    BY <2>1, <2>3, <2>5 DEF Early, TakeRequestLock
  <2> QED BY <2>5, <2>6 DEF TakeRequestLock, CallStep
<1> QED BY <1>1, <1>2

LEMMA ReplayBeforeStep ==
    ASSUME TypeOK, NEW c \in Calls, ReplayBefore(c)
    PROVE  calls' \in [Calls -> Call] /\ CallStep(c)
<1>1. CASE Rollback(c)
  BY <1>1, EndsEffect DEF Rollback, CallStep
<1>2. CASE ~Rollback(c)
  <2>1. calls' = [calls EXCEPT ![c].phase = "admitting", ![c].policy = policy] /\ policy \in Policies
    BY <1>2 DEF ReplayBefore, TypeOK
  <2>2. UNCHANGED tables
    BY <1>2 DEF ReplayBefore
  <2> DEFINE call == [calls[c] EXCEPT !.phase = "admitting", !.policy = policy]
  <2>3. calls[c] \in Call /\ "admitting" \in Phases
    BY DEF TypeOK, Phases
  <2>4. /\ call \in Call /\ call.phase = "admitting" /\ call.plan = calls[c].plan
        /\ call.policy = policy /\ call.row = calls[c].row /\ call.fresh = calls[c].fresh
    BY <2>1, <2>3 DEF Call
  <2>5. calls' = [calls EXCEPT ![c] = call]
    BY <2>1
  <2> HIDE DEF call
  <2>6. calls' \in [Calls -> Call] /\ Others(c) /\ calls'[c] = call
    BY <2>4, <2>5, UpdateEffect
  <2>7. Early(c)
    BY <2>1, <2>4, <2>6 DEF Early, ReplayBefore
  <2> QED BY <2>2, <2>6, <2>7 DEF CallStep
<1> QED BY <1>1, <1>2

LEMMA TakeScopeLockStep ==
    ASSUME TypeOK, NEW c \in Calls, TakeScopeLock(c)
    PROVE  calls' \in [Calls -> Call] /\ CallStep(c)
<1>1. CASE Rollback(c)
  BY <1>1, EndsEffect DEF Rollback, CallStep
<1>2. CASE ~Rollback(c)
  <2> DEFINE ledgered == calls[c].policy.ledgered
  <2>1. /\ calls[c].phase = "admitting" /\ UNCHANGED tables
        /\ ledgered => ScopeLockFree(c)
        /\ Goes(c, IF ledgered THEN "scoped" ELSE "reserved")
    BY <1>2 DEF TakeScopeLock
  <2>2. CASE ledgered
    <3>1. Goes(c, "scoped") /\ "scoped" \in Phases
      BY <2>1, <2>2 DEF Phases
    <3>2. calls'[c] = [calls[c] EXCEPT !.phase = "scoped"] /\ calls[c] \in Call
      BY <3>1, GoesEffect DEF TypeOK
    <3>3. calls'[c].phase = "scoped" /\ Kept(c)
      BY <3>2 DEF Kept, Call
    <3>4. Locks(c)
      BY <2>1, <2>2, <3>3 DEF Locks
    <3> QED BY <2>1, <3>1, <3>4, GoesEffect DEF CallStep
  <2>3. CASE ~ledgered
    <3>1. Goes(c, "reserved") /\ "reserved" \in Phases
      BY <2>1, <2>3 DEF Phases
    <3>2. calls'[c] = [calls[c] EXCEPT !.phase = "reserved"] /\ calls[c] \in Call
      BY <3>1, GoesEffect DEF TypeOK
    <3>3. Early(c)
      BY <2>1, <3>2 DEF Early, Kept, Call
    <3> QED BY <2>1, <3>1, <3>3, GoesEffect DEF CallStep
  <2> QED BY <2>2, <2>3
<1> QED BY <1>1, <1>2

LEMMA ReserveStep ==
    ASSUME TypeOK, NEW c \in Calls, Reserve(c)
    PROVE  calls' \in [Calls -> Call] /\ CallStep(c)
<1> DEFINE matches == \E row \in Admitted(c) : row.version = calls[c].policy.version /\ row.plan = calls[c].plan
<1>0. calls \in [Calls -> Call] /\ calls[c].phase = "scoped" /\ UNCHANGED tables
  BY DEF TypeOK, Reserve
<1>1. CASE matches
  <2> DEFINE found == CHOOSE row \in Admitted(c) : TRUE
             call == [calls[c] EXCEPT !.phase = "reserved", !.row = found]
  <2>1. calls' = [calls EXCEPT ![c].phase = "reserved", ![c].row = found]
    BY <1>1 DEF Reserve
  <2>2. found \in LedgerRow
    BY <1>1 DEF Admitted, TypeOK
  <2> HIDE DEF found
  <2>3. call \in Call /\ call.phase = "reserved"
    BY <1>0, <2>2 DEF Call, Phases
  <2>4. calls' = [calls EXCEPT ![c] = call]
    BY <2>1
  <2> HIDE DEF call
  <2>5. calls' \in [Calls -> Call] /\ Others(c) /\ calls'[c] = call
    BY <2>3, <2>4, UpdateEffect
  <2>6. Relies(c)
    BY <1>0, <1>1, <2>3, <2>5 DEF Relies, call, found
  <2> QED BY <1>0, <2>5, <2>6 DEF CallStep
<1>2. CASE ~matches /\ Admitted(c) = {} /\ WithinLimits(c)
  <2>1. calls' = [calls EXCEPT ![c].phase = "reserved", ![c].row = Ticket(c), ![c].fresh = TRUE]
    BY <1>2 DEF Reserve
  <2>2. Ticket(c) \in LedgerRow
    BY <1>0, TicketIsTyped
  <2> DEFINE call == [calls[c] EXCEPT !.phase = "reserved", !.row = Ticket(c), !.fresh = TRUE]
  <2>3. call \in Call /\ call.phase = "reserved"
    BY <1>0, <2>2 DEF Call, Phases
  <2>4. calls' = [calls EXCEPT ![c] = call]
    BY <2>1
  <2> HIDE DEF call
  <2>5. calls' \in [Calls -> Call] /\ Others(c) /\ calls'[c] = call
    BY <2>3, <2>4, UpdateEffect
  <2>6. Inserts(c)
    BY <1>0, <1>2, <2>3, <2>5 DEF Inserts, call
  <2> QED BY <1>0, <2>5, <2>6 DEF CallStep
<1>3. CASE ~matches /\ ~(Admitted(c) = {} /\ WithinLimits(c))
  <2>1. Ends(c)
    BY <1>3 DEF Reserve
  <2> QED BY <1>0, <2>1, EndsEffect DEF CallStep
<1> QED BY <1>1, <1>2, <1>3

LEMMA ReplayAfterStep ==
    ASSUME TypeOK, NEW c \in Calls, ReplayAfter(c)
    PROVE  calls' \in [Calls -> Call] /\ CallStep(c)
<1>1. CASE Replayed(c)
  <2>1. Commit(c) /\ UNCHANGED runs /\ calls[c].phase = "reserved"
    BY <1>1 DEF ReplayAfter, Conflicts
  <2> QED BY <1>1, <2>1, CommitEffect DEF CallStep
<1>2. CASE ~Replayed(c) /\ Rollback(c)
  BY <1>2, EndsEffect DEF Rollback, CallStep
<1>3. CASE ~Replayed(c) /\ ~Rollback(c)
  <2>1. Goes(c, "checked") /\ "checked" \in Phases /\ UNCHANGED tables /\ calls[c].phase = "reserved"
    BY <1>3 DEF ReplayAfter, Phases
  <2>2. calls'[c] = [calls[c] EXCEPT !.phase = "checked"] /\ calls[c] \in Call
    BY <2>1, GoesEffect DEF TypeOK
  <2>3. Checks(c)
    BY <2>1, <2>2 DEF Checks, Kept, Call
  <2> QED BY <2>1, <2>3, GoesEffect DEF CallStep
<1> QED BY <1>1, <1>2, <1>3

LEMMA CommitRunStep ==
    ASSUME TypeOK, NEW c \in Calls, CommitRun(c)
    PROVE  calls' \in [Calls -> Call] /\ CallStep(c)
<1>1. CASE IndexAdmits(c)
  <2>1. /\ Commit(c) /\ calls[c].phase = "checked"
        /\ runs' = runs \cup {[key |-> KeyOf[c], call |-> c, plan |-> calls[c].plan,
                               admission |-> calls[c].row]}
    BY <1>1 DEF CommitRun
  <2> QED BY <1>1, <2>1, CommitEffect DEF CallStep
<1>2. CASE ~IndexAdmits(c)
  <2>1. Rollback(c)
    BY <1>2 DEF CommitRun
  <2> QED BY <2>1, EndsEffect DEF Rollback, CallStep
<1> QED BY <1>1, <1>2

\* Every step of a call is one of the cases above.
LEMMA StepIsCallStep ==
    ASSUME TypeOK, NEW c \in Calls, Step(c)
    PROVE  /\ calls' \in [Calls -> Call] /\ CallStep(c)
           /\ UNCHANGED <<now, plan, policy, dispatched>>
<1>1. UNCHANGED <<now, plan, policy, dispatched>>
  BY DEF Step, Begin, TakeRequestLock, ReplayBefore, TakeScopeLock, Reserve, ReplayAfter,
         CommitRun, Fail
<1>2. CASE Begin(c)
  <2>1. now \in Nat
    BY AdmissionAssumption DEF TypeOK
  <2>2. calls' = [calls EXCEPT ![c].phase = "begun", ![c].began = now] /\ calls[c].phase = "idle"
    BY <1>2 DEF Begin
  <2> DEFINE call == [calls[c] EXCEPT !.phase = "begun", !.began = now]
  <2>3. calls[c] \in Call /\ "begun" \in Phases
    BY DEF TypeOK, Phases
  <2>4. /\ call \in Call /\ call.phase = "begun"
        /\ call.row = calls[c].row /\ call.fresh = calls[c].fresh
    BY <2>1, <2>3 DEF Call
  <2>5. calls' = [calls EXCEPT ![c] = call]
    BY <2>2
  <2> HIDE DEF call
  <2>6. calls' \in [Calls -> Call] /\ Others(c) /\ calls'[c] = call
    BY <2>4, <2>5, UpdateEffect
  <2>7. Early(c)
    BY <2>2, <2>4, <2>6 DEF Early
  <2> QED BY <1>1, <1>2, <2>6, <2>7 DEF CallStep, Begin, tables
<1>3. CASE Fail(c)
  BY <1>1, <1>3, EndsEffect DEF Fail, Rollback, CallStep
<1> QED BY <1>1, <1>2, <1>3, TakeRequestLockStep, ReplayBeforeStep, TakeScopeLockStep,
           ReserveStep, ReplayAfterStep, CommitRunStep DEF Step

-----------------------------------------------------------------------------
(* Each conjunct under a step of a call. *)

LEMMA NoRowBeforeReserve ==
    ASSUME TypeOK, RowIsOwn, FreshIsAdmissible, NEW c \in Calls,
           calls[c].phase \notin {"reserved", "checked"}
    PROVE  calls[c].row = NULL /\ calls[c].fresh = FALSE
  BY DEF RowIsOwn, FreshIsAdmissible, TypeOK, Call

NewRun(c) == [key |-> KeyOf[c], call |-> c, plan |-> calls[c].plan, admission |-> calls[c].row]

LEMMA TableStep ==
    ASSUME NEW c \in Calls, CallStep(c)
    PROVE  /\ ledger' = ledger \/ (Publishes(c) /\ (Replayed(c) \/ runs' = runs \cup {NewRun(c)}))
           /\ \/ runs' = runs
              \/ /\ calls[c].phase = "checked" /\ IndexAdmits(c)
                 /\ runs' = runs \cup {NewRun(c)}
<1>1. CASE UNCHANGED tables
  BY <1>1 DEF tables
<1>2. CASE ~UNCHANGED tables
  BY <1>2 DEF CallStep, NewRun
<1> QED BY <1>1, <1>2

LEMMA TypeKept ==
    ASSUME TypeOK, NEW c \in Calls, CallStep(c), calls' \in [Calls -> Call], FreshIsAdmissible,
           UNCHANGED <<now, plan, policy, dispatched>>
    PROVE  TypeOK'
<1> DEFINE PhaseTyped(d) == /\ HoldsRequest(d) => calls[d].plan \in Plans
                            /\ calls[d].phase \in {"admitting", "scoped", "reserved", "checked"}
                                  => calls[d].policy \in Policies
<1>1. ASSUME NEW d \in Calls PROVE PhaseTyped(d)'
  <2>0. PhaseTyped(d) /\ calls[d] \in Call
    BY DEF TypeOK
  <2>1. CASE d # c
    <3>1. calls'[d] = calls[d]
      BY <2>1 DEF CallStep, Others
    <3> QED BY <2>0, <3>1 DEF HoldsRequest
  <2>2. CASE d = c /\ calls'[c] = Ended
    BY <2>2, EndedIsTyped DEF HoldsRequest
  <2>3. CASE d = c /\ Early(c)
    BY <2>0, <2>3 DEF Early, Kept, HoldsRequest
  <2>4. CASE d = c /\ (Locks(c) \/ Checks(c))
    BY <2>0, <2>4 DEF Locks, Checks, Kept, HoldsRequest
  <2>5. CASE d = c /\ (Relies(c) \/ Inserts(c))
    BY <2>0, <2>5 DEF Relies, Inserts, HoldsRequest, Call
  <2> QED BY <2>1, <2>2, <2>3, <2>4, <2>5 DEF CallStep
<1>2. ledger' \subseteq LedgerRow
  <2>1. CASE Publishes(c)
    <3>1. calls[c].row \in LedgerRow
      BY <2>1 DEF Publishes, FreshIsAdmissible, TypeOK, Call
    <3> QED BY <2>1, <3>1 DEF Publishes, TypeOK
  <2>2. CASE ledger' = ledger
    BY <2>2 DEF TypeOK
  <2> QED BY <2>1, <2>2, TableStep
<1>3. runs' \subseteq Run
  <2>1. CASE runs' = runs
    BY <2>1 DEF TypeOK
  <2>2. CASE runs' # runs
    <3>1. calls[c].phase = "checked" /\ runs' = runs \cup {NewRun(c)}
      BY <2>2, TableStep
    <3>2. calls[c].plan \in Plans /\ calls[c].row \in LedgerRow \cup {NULL} /\ KeyOf[c] \in Keys
      BY <3>1, AdmissionAssumption DEF TypeOK, HoldsRequest, Call
    <3>3. NewRun(c) \in Run
      BY <3>2 DEF NewRun, Run
    <3> QED BY <3>1, <3>3 DEF TypeOK
  <2> QED BY <2>1, <2>2
<1> QED BY <1>1, <1>2, <1>3 DEF TypeOK

LEMMA ScopeLockedKept ==
    ASSUME TypeOK, RowIsOwn, FreshIsAdmissible, ScopeLocked, NEW c \in Calls, CallStep(c)
    PROVE  ScopeLocked'
<1>1. \A d \in Calls \ {c} : HoldsScope(d)' <=> HoldsScope(d)
  BY DEF CallStep, Others, HoldsScope
<1>2. HoldsScope(c)' => HoldsScope(c) \/ ScopeLockFree(c)
  <2>1. CASE calls'[c] = Ended
    BY <2>1, EndedIsTyped DEF HoldsScope
  <2>2. CASE Early(c)
    BY <2>2, NoRowBeforeReserve DEF Early, HoldsScope
  <2>3. CASE Locks(c)
    BY <2>3 DEF Locks
  <2>4. CASE Relies(c) \/ Inserts(c)
    BY <2>4 DEF Relies, Inserts, HoldsScope
  <2>5. CASE Checks(c)
    BY <2>5 DEF Checks, Kept, HoldsScope
  <2> QED BY <2>1, <2>2, <2>3, <2>4, <2>5 DEF CallStep
<1> QED BY <1>1, <1>2 DEF ScopeLocked, ScopeLockFree, Scope

LEMMA RowIsOwnKept ==
    ASSUME TypeOK, RowIsOwn, FreshIsAdmissible, OneRowPerKey, NEW c \in Calls, CallStep(c)
    PROVE  RowIsOwn'
<1> SUFFICES ASSUME NEW d \in Calls, calls'[d].row # NULL
             PROVE  /\ calls'[d].phase \in {"reserved", "checked"}
                    /\ calls'[d].row.key = KeyOf[d] /\ calls'[d].row.plan = calls'[d].plan
  BY DEF RowIsOwn
<1>0. calls[c] \in Call
  BY DEF TypeOK
<1>1. CASE d # c
  BY <1>1 DEF CallStep, Others, RowIsOwn
<1>2. CASE d = c /\ (calls'[c] = Ended \/ Early(c) \/ Locks(c))
  BY <1>2, EndedIsTyped, NoRowBeforeReserve DEF Early, Locks, Kept
<1>3. CASE d = c /\ Relies(c)
  <2> DEFINE found == CHOOSE row \in Admitted(c) : TRUE
  <2>1. PICK row \in Admitted(c) : row.plan = calls[c].plan
    BY <1>3 DEF Relies
  <2>2. found \in Admitted(c)
    BY <2>1
  <2>3. found = row /\ row.key = KeyOf[c]
    BY <2>1, <2>2 DEF Admitted, OneRowPerKey
  <2>4. /\ calls'[c].row = found /\ calls'[c].plan = calls[c].plan
        /\ calls'[c].phase = "reserved"
    BY <1>0, <1>3 DEF Relies, Call
  <2> QED BY <1>3, <2>1, <2>3, <2>4
<1>4. CASE d = c /\ Inserts(c)
  <2>1. /\ calls'[c].row = Ticket(c) /\ calls'[c].plan = calls[c].plan
        /\ calls'[c].phase = "reserved"
    BY <1>0, <1>4 DEF Inserts, Call
  <2> QED BY <1>4, <2>1 DEF Ticket
<1>5. CASE d = c /\ Checks(c)
  BY <1>5 DEF Checks, Kept, RowIsOwn
<1> QED BY <1>1, <1>2, <1>3, <1>4, <1>5 DEF CallStep

\* Publishing a row of another scope disturbs neither a call's count nor its replay.
LEMMA AdmissibleElsewhere ==
    ASSUME TypeOK, NEW d \in Calls, NEW row, row.scope # Scope(d), calls'[d] = calls[d],
           ledger' = ledger \cup {row}, Admitted(d) = {}, WithinLimits(d)
    PROVE  Admitted(d)' = {} /\ WithinLimits(d)'
<1>1. Admitted(d)' = {}
  BY DEF Admitted, Scope
<1>2. \A since : Usage(Scope(d), since)' = Usage(Scope(d), since)
  BY DEF Usage, Scope
<1>3. Scope(d)' = Scope(d)
  BY DEF Scope
<1> QED BY <1>1, <1>2, <1>3 DEF WithinLimits

LEMMA FreshKept ==
    ASSUME TypeOK, RowIsOwn, FreshIsAdmissible, ScopeLocked, NEW c \in Calls, CallStep(c)
    PROVE  FreshIsAdmissible'
<1> SUFFICES ASSUME NEW d \in Calls, calls'[d].fresh
             PROVE  /\ calls'[d].row = Ticket(d)' /\ calls'[d].row # NULL
                    /\ Admitted(d)' = {} /\ WithinLimits(d)'
  BY DEF FreshIsAdmissible
<1>0. calls[c] \in Call /\ calls[d] \in Call
  BY DEF TypeOK
<1>1. CASE d # c
  <2>1. calls'[d] = calls[d] /\ calls[d].fresh
    BY <1>1 DEF CallStep, Others
  <2>2. /\ calls[d].row = Ticket(d) /\ calls[d].row # NULL /\ Admitted(d) = {} /\ WithinLimits(d)
    BY <2>1 DEF FreshIsAdmissible
  <2>3. Ticket(d)' = Ticket(d)
    BY <2>1 DEF Ticket, Scope
  <2>4. CASE ledger' = ledger
    <3>1. Admitted(d)' = Admitted(d) /\ (WithinLimits(d)' <=> WithinLimits(d))
      BY <2>1, <2>4 DEF Admitted, WithinLimits, Usage, Scope
    <3> QED BY <2>1, <2>2, <2>3, <3>1
  <2>5. CASE Publishes(c)
    <3>1. calls[c].row = Ticket(c) /\ calls[c].row # NULL
      BY <2>5 DEF Publishes, FreshIsAdmissible
    <3>2. HoldsScope(c) /\ HoldsScope(d)
      BY <2>2, <2>5, <3>1 DEF HoldsScope, Publishes, RowIsOwn
    <3>3. calls[c].row.scope # Scope(d)
      BY <1>1, <3>1, <3>2 DEF ScopeLocked, Ticket
    <3> QED BY <2>1, <2>2, <2>3, <2>5, <3>3, AdmissibleElsewhere DEF Publishes
  <2> QED BY <2>4, <2>5, TableStep
<1>2. CASE d = c /\ (calls'[c] = Ended \/ Early(c) \/ Locks(c))
  BY <1>2, EndedIsTyped, NoRowBeforeReserve DEF Early, Locks, Kept
<1>3. CASE d = c /\ Relies(c)
  <2>1. calls[c].fresh = FALSE /\ calls'[c].fresh = calls[c].fresh
    BY <1>0, <1>3, NoRowBeforeReserve DEF Relies, Call
  <2> QED BY <1>3, <2>1
<1>4. CASE d = c /\ (Inserts(c) \/ Checks(c)) /\ UNCHANGED tables
  <2>0. Inserts(d) \/ Checks(d)
    BY <1>4
  <2>1. /\ calls'[d].began = calls[d].began /\ calls'[d].plan = calls[d].plan
        /\ calls'[d].policy = calls[d].policy
    BY <1>0, <2>0 DEF Inserts, Checks, Kept, Call
  <2>2. Ticket(d)' = Ticket(d)
    BY <2>1 DEF Ticket, Scope
  <2>3. Admitted(d)' = Admitted(d) /\ (WithinLimits(d)' <=> WithinLimits(d))
    BY <1>4, <2>1 DEF Admitted, WithinLimits, Usage, Scope, tables
  <2>4. calls'[d].row = Ticket(d) /\ Admitted(d) = {} /\ WithinLimits(d) /\ calls'[d].row # NULL
    <3>1. CASE Inserts(d)
      BY <1>0, <3>1, TicketIsTyped DEF Inserts, Call
    <3>2. CASE Checks(d)
      BY <3>2 DEF Checks, Kept, FreshIsAdmissible
    <3> QED BY <2>0, <3>1, <3>2
  <2> QED BY <2>2, <2>3, <2>4
<1> QED BY <1>1, <1>2, <1>3, <1>4 DEF CallStep

LEMMA OneRowPerKeyKept ==
    ASSUME TypeOK, FreshIsAdmissible, OneRowPerKey, NEW c \in Calls, CallStep(c)
    PROVE  OneRowPerKey'
<1>1. CASE ledger' = ledger
  BY <1>1 DEF OneRowPerKey
<1>2. CASE Publishes(c)
  <2>1. calls[c].row = Ticket(c) /\ Admitted(c) = {}
    BY <1>2 DEF Publishes, FreshIsAdmissible
  <2>2. calls[c].row.scope = Scope(c) /\ calls[c].row.key = KeyOf[c]
    BY <2>1 DEF Ticket
  <2> QED BY <1>2, <2>1, <2>2 DEF Publishes, Admitted, OneRowPerKey
<1> QED BY <1>1, <1>2, TableStep

LEMMA RunsKept ==
    ASSUME TypeOK, RowIsOwn, FreshIsAdmissible, NEW c \in Calls, CallStep(c),
           RunHasItsPlan, OneRunPerKey, AdmissionHasItsRun
    PROVE  RunHasItsPlan' /\ OneRunPerKey' /\ AdmissionHasItsRun'
<1>1. RunHasItsPlan' /\ OneRunPerKey'
  <2>1. CASE runs' = runs
    BY <2>1 DEF RunHasItsPlan, OneRunPerKey
  <2>2. CASE IndexAdmits(c) /\ runs' = runs \cup {NewRun(c)}
    <3>1. NewRun(c).key = KeyOf[c] /\ \A r \in runs : r.key # KeyOf[c]
      BY <2>2 DEF NewRun, IndexAdmits, RunsOf
    <3>2. NewRun(c).admission # NULL => NewRun(c).admission.plan = NewRun(c).plan
      BY DEF NewRun, RowIsOwn
    <3>3. OneRunPerKey'
      BY <2>2, <3>1 DEF OneRunPerKey
    <3>4. RunHasItsPlan'
      BY <2>2, <3>2 DEF RunHasItsPlan
    <3> QED BY <3>3, <3>4
  <2> QED BY <2>1, <2>2, TableStep
<1>2. AdmissionHasItsRun'
  <2>0. runs \subseteq runs'
    BY TableStep
  <2>1. CASE ledger' = ledger
    BY <2>0, <2>1 DEF AdmissionHasItsRun
  <2>2. CASE Publishes(c) /\ (Replayed(c) \/ runs' = runs \cup {NewRun(c)})
    <3>1. calls[c].row.key = KeyOf[c]
      BY <2>2 DEF Publishes, RowIsOwn, FreshIsAdmissible
    <3>2. \E r \in runs' : r.key = KeyOf[c]
      <4>1. CASE Replayed(c)
        BY <2>0, <4>1 DEF Replayed, RunsOf
      <4>2. CASE runs' = runs \cup {NewRun(c)}
        <5>1. NewRun(c).key = KeyOf[c]
          BY DEF NewRun
        <5> QED BY <4>2, <5>1
      <4> QED BY <2>2, <4>1, <4>2
    <3> QED BY <2>0, <2>2, <3>1, <3>2 DEF AdmissionHasItsRun, Publishes
  <2> QED BY <2>1, <2>2, TableStep
<1> QED BY <1>1, <1>2

\* What a window that holds the new row held before is part of what its call counted.
LEMMA WindowWithinUsage ==
    ASSUME NEW limit \in Limits, NEW row, row \in LedgerRow, NEW from \in 0..MaxNow,
           row.created <= from + limit.window, from <= row.created
    PROVE  RowsIn(row.scope, from, from + limit.window) \subseteq
               Usage(row.scope, row.created - limit.window)
               \/ ~(ledger \subseteq LedgerRow)
  BY AdmissionAssumption DEF RowsIn, Usage, LedgerRow, Limit

LEMMA LimitsKept ==
    ASSUME TypeOK, IsFiniteSet(ledger), FreshIsAdmissible, LimitsHold,
           NEW c \in Calls, CallStep(c)
    PROVE  LimitsHold' /\ IsFiniteSet(ledger')
<1>1. CASE ledger' = ledger
  BY <1>1 DEF LimitsHold, RowsIn
<1>2. CASE Publishes(c)
  <2> DEFINE row == calls[c].row
  <2>1. /\ row = Ticket(c) /\ row \in LedgerRow /\ WithinLimits(c)
        /\ ledger' = ledger \cup {row} /\ calls[c].began \in Nat
    BY <1>2 DEF Publishes, FreshIsAdmissible, TypeOK, Call
  <2>2. row.scope = Scope(c) /\ row.created = calls[c].began
    BY <2>1 DEF Ticket
  <2> HIDE DEF row
  <2>3. IsFiniteSet(ledger')
    BY <2>1, FS_AddElement
  <2>4. ASSUME NEW limit \in Limits, NEW scope \in Scopes, NEW from \in 0..MaxNow
        PROVE  LET n == Cardinality(RowsIn(scope, from, from + limit.window)') IN
               /\ limit.maxRuns # NULL => n <= limit.maxRuns
               /\ limit.maxUnits # NULL => n * UnitCost <= limit.maxUnits
    <3> DEFINE old == RowsIn(scope, from, from + limit.window)
               new == RowsIn(scope, from, from + limit.window)'
    <3>1. /\ old \subseteq ledger /\ IsFiniteSet(old) /\ Cardinality(old) \in Nat
      BY FS_Subset, FS_CardinalityType DEF RowsIn
    <3>2. CASE new = old
      BY <3>2 DEF LimitsHold
    <3>3. CASE new # old
      <4> DEFINE used == Usage(Scope(c), calls[c].began - limit.window)
      <4>1. /\ new = old \cup {row} /\ row.scope = scope
            /\ row.created <= from + limit.window /\ from <= row.created
        BY <2>1, <3>3 DEF RowsIn
      <4>2. old \subseteq used
        BY <2>1, <2>2, <4>1, WindowWithinUsage DEF TypeOK
      <4>3. IsFiniteSet(used) /\ Cardinality(old) <= Cardinality(used) /\ Cardinality(used) \in Nat
        BY <4>2, FS_Subset, FS_CardinalityType DEF Usage
      <4>4. ~Exhausted(limit, used)
        BY <2>1 DEF WithinLimits
      <4>5. Cardinality(new) \in Nat /\ Cardinality(new) <= Cardinality(used) + 1
        <5>1. \A n \in Nat : n <= Cardinality(used) => n + 1 <= Cardinality(used) + 1
          BY <4>3
        <5>2. Cardinality(new) = IF row \in old THEN Cardinality(old) ELSE Cardinality(old) + 1
          BY <3>1, <4>1, FS_AddElement
        <5> HIDE DEF new, old, used
        <5> QED BY <3>1, <4>3, <5>1, <5>2
      <4> HIDE DEF new, used, old
      <4>6. ASSUME limit.maxRuns # NULL PROVE Cardinality(new) <= limit.maxRuns
        <5>1. limit.maxRuns \in Nat /\ ~(Cardinality(used) >= limit.maxRuns)
          BY <4>4, <4>6, AdmissionAssumption DEF Exhausted, Limit
        <5> QED BY <4>3, <4>5, <5>1
      <4>7. ASSUME limit.maxUnits # NULL PROVE Cardinality(new) * UnitCost <= limit.maxUnits
        <5>1. limit.maxUnits \in Nat /\ ~((Cardinality(used) + 1) * UnitCost > limit.maxUnits)
          BY <4>4, <4>7, AdmissionAssumption DEF Exhausted, Limit
        <5>2. \A m, n, u \in Nat : m <= n => m * u <= n * u
          OBVIOUS
        <5>3. Cardinality(new) * UnitCost <= (Cardinality(used) + 1) * UnitCost
          BY <4>3, <4>5, <5>2, AdmissionAssumption
        <5>4. Cardinality(new) * UnitCost \in Nat /\ (Cardinality(used) + 1) * UnitCost \in Nat
          BY <4>3, <4>5, AdmissionAssumption
        <5> QED BY <5>1, <5>3, <5>4
      <4> QED BY <4>6, <4>7 DEF new
    <3> QED BY <3>2, <3>3
  <2> QED BY <2>3, <2>4 DEF LimitsHold
<1> QED BY <1>1, <1>2, TableStep

-----------------------------------------------------------------------------
(* The steps of the world. *)

LEMMA WorldKeeps ==
    ASSUME IInv, UNCHANGED <<calls, tables>>,
           now' \in 0..MaxNow, plan' \in Plans \cup {NULL}, policy' \in Policies,
           dispatched' \in [queued : Plans, sent : Plans, ledgered : BOOLEAN] \cup {NULL},
           dispatched' # NULL /\ dispatched'.ledgered => dispatched'.sent = dispatched'.queued
    PROVE  IInv'
<1>1. calls' = calls /\ ledger' = ledger /\ runs' = runs
  BY DEF tables
<1>2. TypeOK' /\ IsFiniteSet(ledger)'
  BY <1>1 DEF IInv, TypeOK, HoldsRequest
<1>3. ScopeLocked' /\ RowIsOwn'
  BY <1>1 DEF IInv, ScopeLocked, HoldsScope, Scope, RowIsOwn
<1>4. FreshIsAdmissible'
  BY <1>1 DEF IInv, FreshIsAdmissible, Ticket, Scope, Admitted, WithinLimits, Usage
<1>5. OneRowPerKey' /\ RunHasItsPlan' /\ OneRunPerKey' /\ LimitsHold' /\ AdmissionHasItsRun'
  BY <1>1 DEF IInv, OneRowPerKey, RunHasItsPlan, OneRunPerKey, LimitsHold, RowsIn, AdmissionHasItsRun
<1> QED BY <1>2, <1>3, <1>4, <1>5 DEF IInv, DispatchedAsQueued

LEMMA DispatchKeeps ==
    ASSUME IInv, NEW r \in runs, Dispatch(r)
    PROVE  IInv'
<1> DEFINE d == [queued |-> r.plan, sent |-> plan, ledgered |-> policy.ledgered]
<1>1. /\ plan # NULL
      /\ policy.ledgered => ReceiptValid(r)
      /\ dispatched' = d /\ UNCHANGED <<now, plan, policy, calls, tables>>
  BY DEF Dispatch
<1>2. r.plan \in Plans /\ plan \in Plans /\ policy.ledgered \in BOOLEAN
  BY <1>1, AdmissionAssumption DEF IInv, TypeOK, Run, Policy
<1>3. d \in [queued : Plans, sent : Plans, ledgered : BOOLEAN]
  BY <1>2
<1>4. d.ledgered => d.sent = d.queued
  <2>1. SUFFICES ASSUME policy.ledgered PROVE plan = r.plan
    OBVIOUS
  <2>2. r.admission \in ledger /\ r.admission.plan = plan
    BY <1>1, <2>1 DEF ReceiptValid
  <2>3. r.admission # NULL
    BY <2>2, AdmissionAssumption DEF IInv, TypeOK
  <2> QED BY <2>2, <2>3 DEF IInv, RunHasItsPlan
<1> HIDE DEF d
<1>5. now' \in 0..MaxNow /\ plan' \in Plans \cup {NULL} /\ policy' \in Policies
  BY <1>1 DEF IInv, TypeOK
<1>6. UNCHANGED <<calls, tables>>
  BY <1>1
<1> QED BY <1>1, <1>3, <1>4, <1>5, <1>6, WorldKeeps

-----------------------------------------------------------------------------
(* The invariant and the theorems. *)

LEMMA InitIInv == Init => IInv
<1> SUFFICES ASSUME Init PROVE IInv
  OBVIOUS
<1>1. NewCall \in Call /\ NewCall.phase = "idle" /\ NewCall.row = NULL /\ NewCall.fresh = FALSE
  BY DEF NewCall, Call, Phases
<1>2. calls \in [Calls -> Call] /\ \A c \in Calls : calls[c] = NewCall
  BY <1>1 DEF Init
<1>3. ledger = {} /\ runs = {} /\ dispatched = NULL
  BY DEF Init
<1>4. TypeOK
  BY <1>1, <1>2, AdmissionAssumption DEF Init, TypeOK, HoldsRequest
<1>5. ScopeLocked /\ RowIsOwn /\ FreshIsAdmissible
  BY <1>1, <1>2 DEF ScopeLocked, HoldsScope, RowIsOwn, FreshIsAdmissible
<1>6. OneRowPerKey /\ RunHasItsPlan /\ OneRunPerKey /\ AdmissionHasItsRun /\ DispatchedAsQueued
  BY <1>3 DEF OneRowPerKey, RunHasItsPlan, OneRunPerKey, AdmissionHasItsRun, DispatchedAsQueued
<1>7. IsFiniteSet(ledger) /\ LimitsHold
  <2>1. \A scope, from, to : RowsIn(scope, from, to) = {}
    BY <1>3 DEF RowsIn
  <2>2. ASSUME NEW limit \in Limits
        PROVE  /\ limit.maxRuns # NULL => 0 <= limit.maxRuns
               /\ limit.maxUnits # NULL => 0 * UnitCost <= limit.maxUnits
    BY AdmissionAssumption DEF Limit
  <2> QED BY <1>3, <2>1, <2>2, FS_EmptySet DEF LimitsHold
<1> QED BY <1>4, <1>5, <1>6, <1>7 DEF IInv

LEMMA NextIInv == IInv /\ [Next]_vars => IInv'
<1> SUFFICES ASSUME IInv, [Next]_vars PROVE IInv'
  OBVIOUS
<1>0. /\ now \in 0..MaxNow /\ plan \in Plans \cup {NULL} /\ policy \in Policies
      /\ dispatched \in [queued : Plans, sent : Plans, ledgered : BOOLEAN] \cup {NULL}
      /\ dispatched # NULL /\ dispatched.ledgered => dispatched.sent = dispatched.queued
  BY DEF IInv, TypeOK, DispatchedAsQueued
<1>1. ASSUME NEW c \in Calls, Step(c) PROVE IInv'
  <2>1. CallStep(c) /\ calls' \in [Calls -> Call] /\ UNCHANGED <<now, plan, policy, dispatched>>
    BY <1>1, StepIsCallStep DEF IInv
  <2>2. TypeOK'
    BY <2>1, TypeKept DEF IInv
  <2>3. ScopeLocked' /\ RowIsOwn'
    BY <2>1, ScopeLockedKept, RowIsOwnKept DEF IInv
  <2>4. FreshIsAdmissible' /\ OneRowPerKey'
    BY <2>1, FreshKept, OneRowPerKeyKept DEF IInv
  <2>5. RunHasItsPlan' /\ OneRunPerKey' /\ AdmissionHasItsRun'
    BY <2>1, RunsKept DEF IInv
  <2>6. LimitsHold' /\ IsFiniteSet(ledger)'
    BY <2>1, LimitsKept DEF IInv
  <2>7. DispatchedAsQueued'
    BY <2>1 DEF IInv, DispatchedAsQueued
  <2> QED BY <2>2, <2>3, <2>4, <2>5, <2>6, <2>7 DEF IInv
<1>2. ASSUME NEW r \in runs, Dispatch(r) PROVE IInv'
  BY <1>2, DispatchKeeps
<1>3. CASE Tick
  <2>1. now' \in 0..MaxNow /\ UNCHANGED <<plan, policy, calls, tables, dispatched>>
    BY <1>0, <1>3, AdmissionAssumption DEF Tick
  <2> QED BY <1>0, <2>1, WorldKeeps
<1>4. CASE ChangePolicy
  <2>1. policy' \in Policies /\ UNCHANGED <<now, plan, calls, tables, dispatched>>
    BY <1>4 DEF ChangePolicy
  <2> QED BY <1>0, <2>1, WorldKeeps
<1>5. CASE ReplacePlan
  <2>1. plan' \in Plans \cup {NULL} /\ UNCHANGED <<now, policy, calls, tables, dispatched>>
    BY <1>5 DEF ReplacePlan
  <2> QED BY <1>0, <2>1, WorldKeeps
<1>6. CASE UNCHANGED vars
  <2>1. UNCHANGED <<now, plan, policy, calls, tables, dispatched>>
    BY <1>6 DEF vars, tables
  <2> QED BY <1>0, <2>1, WorldKeeps
<1> QED BY <1>1, <1>2, <1>3, <1>4, <1>5, <1>6 DEF Next

LEMMA InvariantHolds == Spec => []IInv
  BY InitIInv, NextIInv, PTL DEF Spec

\* The tables and the calls keep their types: no call reads what its phase has not
\* loaded (routes.ts, queueHumanAgencyWorkflowRun).
THEOREM TypeCorrect == Spec => []TypeOK
<1>1. IInv => TypeOK
  BY DEF IInv
<1> QED BY <1>1, InvariantHolds, PTL

\* A key owns at most one run, whatever locks its requests took: the last word is
\* the unique index of agency_workflow_runs.
THEOREM OneRun == Spec => []OneRunPerKey
<1>1. IInv => OneRunPerKey
  BY DEF IInv
<1> QED BY <1>1, InvariantHolds, PTL

\* Count-then-insert under the scope's advisory lock never exceeds a limit in any
\* window (reserveWorkflowSafetyAdmission).
THEOREM LimitsNeverExceeded == Spec => []LimitsHold
<1>1. IInv => LimitsHold
  BY DEF IInv
<1> QED BY <1>1, InvariantHolds, PTL

\* An admission is committed with a run of its key or not at all.
THEOREM NoAdmissionWithoutRun == Spec => []AdmissionHasItsRun
<1>1. IInv => AdmissionHasItsRun
  BY DEF IInv
<1> QED BY <1>1, InvariantHolds, PTL

\* A receipt that assertWorkflowSafetyDispatch accepts names the artifact its run
\* was queued with.
THEOREM DispatchMatchesQueue == Spec => []DispatchedAsQueued
<1>1. IInv => DispatchedAsQueued
  BY DEF IInv
<1> QED BY <1>1, InvariantHolds, PTL

-----------------------------------------------------------------------------
(* The refinement of AtomicAdmission.  The commit that writes the tables is   *)
(* the step that counts; every other step is a stutter.                       *)

\* A row a call relies on without having inserted it is in the ledger.
ReliedOn == \A c \in Calls : calls[c].row # NULL /\ ~calls[c].fresh => calls[c].row \in ledger

LEMMA ReliedOnKept ==
    ASSUME IInv, ReliedOn, NEW c \in Calls, CallStep(c) PROVE ReliedOn'
<1> SUFFICES ASSUME NEW d \in Calls, calls'[d].row # NULL, ~calls'[d].fresh
             PROVE  calls'[d].row \in ledger'
  BY DEF ReliedOn
<1>1. ledger \subseteq ledger'
  BY TableStep DEF Publishes
<1>2. CASE d # c
  BY <1>1, <1>2 DEF CallStep, Others, ReliedOn
<1>3. CASE d = c /\ calls'[c] = Ended
  BY <1>3, EndedIsTyped
<1>4. CASE d = c /\ (Early(c) \/ Locks(c) \/ Checks(c))
  BY <1>1, <1>4 DEF Early, Locks, Checks, Kept, ReliedOn
<1>5. CASE d = c /\ Relies(c)
  <2>1. calls[c] \in Call
    BY DEF IInv, TypeOK
  <2>2. calls'[c].row \in Admitted(c)
    BY <1>5, <2>1 DEF Relies, Call
  <2> QED BY <1>1, <1>5, <2>2 DEF Admitted
<1>6. CASE d = c /\ Inserts(c)
  <2>1. calls[c] \in Call
    BY DEF IInv, TypeOK
  <2> QED BY <1>6, <2>1 DEF Inserts, Call
<1> QED BY <1>2, <1>3, <1>4, <1>5, <1>6 DEF CallStep

LEMMA ReliedOnStep == IInv /\ ReliedOn /\ [Next]_vars => ReliedOn'
<1> SUFFICES ASSUME IInv, ReliedOn, [Next]_vars PROVE ReliedOn'
  OBVIOUS
<1>1. ASSUME NEW c \in Calls, Step(c) PROVE ReliedOn'
  BY <1>1, StepIsCallStep, ReliedOnKept DEF IInv
<1>2. CASE UNCHANGED <<calls, tables>>
  BY <1>2 DEF ReliedOn, tables
<1> QED BY <1>1, <1>2 DEF Next, Dispatch, Tick, ChangePolicy, ReplacePlan, vars, tables

\* A published row has room and no predecessor.
LEMMA PublishedIsAdmitted ==
    ASSUME IInv, LimitsHold', NEW c \in Calls, Publishes(c)
    PROVE  /\ Atomic!Admit(calls[c].row)
           /\ calls[c].row \in ledger' /\ calls[c].row # NULL
           /\ calls[c].row.key = KeyOf[c] /\ calls[c].row.plan = calls[c].plan
<1>1. /\ calls[c].row = Ticket(c) /\ calls[c].row # NULL /\ Admitted(c) = {}
      /\ calls[c].row.plan = calls[c].plan
  BY DEF IInv, FreshIsAdmissible, RowIsOwn, Publishes
<1>2. calls[c].row.key = KeyOf[c] /\ calls[c].row.scope = Scope(c)
  BY <1>1 DEF Ticket
<1>3. ~\E other \in ledger : other.scope = calls[c].row.scope /\ other.key = calls[c].row.key
  BY <1>1, <1>2 DEF Admitted
<1>4. ledger' = ledger \cup {calls[c].row}
  BY DEF Publishes
<1>5. \A rows : Atomic!Cardinality(rows) = Cardinality(rows)
  BY DEF Atomic!Cardinality, Cardinality, Atomic!IsFiniteSet, IsFiniteSet
<1>6. \A scope, from, to : Atomic!RowsIn(ledger', scope, from, to) = RowsIn(scope, from, to)'
  BY DEF RowsIn, Atomic!RowsIn
<1>7. Atomic!Fits(ledger')
  BY <1>5, <1>6 DEF LimitsHold, Atomic!Fits
<1> QED BY <1>1, <1>2, <1>3, <1>4, <1>7 DEF Atomic!Admit

LEMMA AtomicCallStep ==
    ASSUME IInv, IInv', ReliedOn, NEW c \in Calls, CallStep(c)
    PROVE  [Atomic!Next]_(Atomic!tables)
<1>1. CASE UNCHANGED tables
  BY <1>1 DEF tables, Atomic!tables
<1>2. CASE Replayed(c) /\ UNCHANGED runs /\ Publishes(c)
  <2>1. \E run \in runs : run.key = KeyOf[c] /\ run.plan = calls[c].plan
    BY <1>2 DEF Replayed, RunsOf
  <2>2. Atomic!Cover(calls[c].row) /\ calls[c].row \in ledger'
    BY <1>2, <2>1, PublishedIsAdmitted DEF IInv, Atomic!Cover
  <2> QED BY <2>2 DEF Atomic!Next
<1>3. CASE /\ IndexAdmits(c) /\ runs' = runs \cup {NewRun(c)}
           /\ (~calls[c].fresh /\ ledger' = ledger) \/ Publishes(c)
  <2>1. ~\E other \in runs : other.key = NewRun(c).key
    BY <1>3 DEF IndexAdmits, RunsOf, NewRun
  <2>2. NewRun(c).admission = calls[c].row /\ NewRun(c).key = KeyOf[c] /\ NewRun(c).plan = calls[c].plan
    BY DEF NewRun
  <2>3. CASE Publishes(c)
    BY <1>3, <2>1, <2>2, <2>3, PublishedIsAdmitted DEF IInv, Atomic!Queue, Atomic!Next
  <2>4. CASE ~calls[c].fresh /\ ledger' = ledger
    <3>1. calls[c].row = NULL
      BY <2>1, <2>2, <2>4 DEF IInv, ReliedOn, RowIsOwn, AdmissionHasItsRun
    <3> QED BY <1>3, <2>1, <2>2, <2>4, <3>1 DEF Atomic!Queue, Atomic!Next
  <2> QED BY <1>3, <2>3, <2>4
<1> QED BY <1>1, <1>2, <1>3 DEF CallStep, NewRun, tables

LEMMA AtomicStep == IInv /\ IInv' /\ ReliedOn /\ [Next]_vars => [Atomic!Next]_(Atomic!tables)
<1> SUFFICES ASSUME IInv, IInv', ReliedOn, [Next]_vars PROVE [Atomic!Next]_(Atomic!tables)
  OBVIOUS
<1>1. ASSUME NEW c \in Calls, Step(c) PROVE [Atomic!Next]_(Atomic!tables)
  BY <1>1, StepIsCallStep, AtomicCallStep DEF IInv
<1>2. CASE UNCHANGED tables
  BY <1>2 DEF tables, Atomic!tables
<1> QED BY <1>1, <1>2 DEF Next, Dispatch, Tick, ChangePolicy, ReplacePlan, vars, tables

\* However many calls overlap, retry and fail, runs and admissions come one at a time: the
\* locks and the unique index make each transaction of queueHumanAgencyWorkflowRun
\* count and insert as if it were alone.
THEOREM AdmissionsAreAtomic == Spec => AdmissionIsAtomic
<1>1. Init => Atomic!Init /\ ReliedOn
  BY DEF Init, Atomic!Init, ReliedOn, NewCall
<1> QED BY <1>1, ReliedOnStep, AtomicStep, InvariantHolds, PTL
       DEF Spec, AdmissionIsAtomic, Atomic!Spec
=============================================================================
