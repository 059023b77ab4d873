----------------------- MODULE DeviceArbiterRefinement -----------------------
(* The arbiter's device implements PhoneLane: the roots in the queue are the   *)
(* waiting line, the one active root is in the slot, and a root's outcome is   *)
(* "recovered" when its status is an administrative one or it never was active.*)
EXTENDS DeviceArbiter

Device == "device"

Before == {p \in QueuedRoots \X QueuedRoots : roots[p[1]].fifo < roots[p[2]].fifo}
Holder ==
    LET active == ActiveRoots
    IN  IF active = {} THEN NULL ELSE CHOOSE r \in active : TRUE
OutcomeOf(r) ==
    IF ~Admitted(r) \/ ~RootStates[roots[r].state].terminal THEN "open"
    ELSE IF RootStates[roots[r].state].administrative \/ roots[r].generation = 0 THEN "recovered"
    ELSE "reported"

Lane == INSTANCE PhoneLane WITH
            Nodes <- {Device}, Keys <- Roots, Free <- NULL, Repairs <- TRUE,
            waiting <- [n \in {Device} |-> QueuedRoots],
            before <- [n \in {Device} |-> Before],
            slot <- [n \in {Device} |-> Holder],
            outcome <- [n \in {Device} |-> [r \in Roots |-> OutcomeOf(r)]]

\* The arbiter keeps the promises of the lane: one line, served from the front,
\* one slot, one outcome per root, through every dispatch, answer, timer and restart.  The
\* lane is read off the rows, so a step that leaves them alone is a stutter.
LaneSpec == Lane!Init /\ [][UNCHANGED roots \/ Lane!Next]_(Lane!laneVars)

\* What a root's caller is told it ended with is never taken back: no late answer, timer,
\* cancellation or repair turns one outcome into another or opens the root again.
OutcomeIsFinal == [][\A r \in Roots : OutcomeOf(r) # "open" => OutcomeOf(r)' = OutcomeOf(r)]_roots
=============================================================================
