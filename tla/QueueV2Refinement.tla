-------------------------- MODULE QueueV2Refinement --------------------------
(* Queue v2 implements PhoneLane: the unclaimed rows, in node_seq order, are  *)
(* the waiting line, and the claimed unfinished row is the slot.              *)
EXTENDS QueueV2

WaitingKeys(n) == {k \in Keys : <<n, k>> \in JobsOf(n) /\ ~Claimed(<<n, k>>)
                                /\ ~jobs[<<n, k>>].terminal_at}
OrderOf(n) == {p \in WaitingKeys(n) \X WaitingKeys(n) :
                  jobs[<<n, p[1]>>].node_seq < jobs[<<n, p[2]>>].node_seq}
SlotOf(n) == IF Busy(n) THEN CHOOSE k \in Keys : <<n, k>> \in ActiveJobs(n) ELSE NULL
OutcomeOf(n, k) ==
    LET row == jobs[<<n, k>>] IN
    IF ~Exists(<<n, k>>) \/ ~row.terminal_at THEN "open"
    ELSE IF row.terminal_reason \in ResultReasons THEN "reported" ELSE "recovered"

Lane == INSTANCE PhoneLane WITH
    Free <- NULL, Repairs <- FALSE,
    waiting <- [n \in Nodes |-> WaitingKeys(n)],
    before <- [n \in Nodes |-> OrderOf(n)],
    slot <- [n \in Nodes |-> SlotOf(n)],
    outcome <- [n \in Nodes |-> [k \in Keys |-> OutcomeOf(n, k)]]

\* Every behaviour of the pnq_* functions, whatever epochs, versions and
\* execution ids their callers present, is one FIFO line and one slot per phone
\* in which each request gets at most one outcome.  The lane is read off the rows, so
\* a step that leaves them alone is a stutter.
ImplementsPhoneLane == Lane!Init /\ [][UNCHANGED jobs \/ Lane!Next]_(Lane!laneVars)
==============================================================================
