------------------------------ MODULE PhoneLane ------------------------------
(***************************************************************************)
(* What a phone's queue promises its callers, without epochs, versions or   *)
(* attempts: every phone has one waiting line and one slot.  A request      *)
(* joins its line once, behind all who wait there; only the front of the    *)
(* line enters the slot, and only when the slot is free; a request leaves   *)
(* the slot with exactly one outcome.  A waiting request can also be given  *)
(* up where it stands.  Where one step may repair a whole phone, it may do  *)
(* these to several requests at once.                                       *)
(*                                                                         *)
(* A line is the set of those who wait and the order they came in.          *)
(***************************************************************************)
CONSTANTS
    Nodes, Keys,
    Free,      \* nothing is in the slot
    Repairs    \* may one step end several requests of a phone?

VARIABLES
    waiting,   \* waiting[n]: the requests in the line of phone n
    before,    \* before[n]: <<k, l>> where k came to the line before l
    slot,      \* slot[n]: the request phone n is working on, or Free
    outcome    \* outcome[n][k]: "open", "reported" or "recovered"

laneVars == <<waiting, before, slot, outcome>>

Open(n, k) == outcome[n][k] = "open"
Front(n, k) == k \in waiting[n] /\ \A l \in waiting[n] \ {k} : <<k, l>> \in before[n]

\* k joins the line of n behind the others; some leave it wherever they stand.
Join(n, k) ==
    /\ waiting' = [waiting EXCEPT ![n] = @ \cup {k}]
    /\ before' = [before EXCEPT ![n] = @ \cup (waiting[n] \X {k})]
Leave(n, gone) ==
    /\ waiting' = [waiting EXCEPT ![n] = @ \ gone]
    /\ before' = [before EXCEPT ![n] = {p \in @ : p[1] \notin gone /\ p[2] \notin gone}]

Init ==
    /\ waiting = [n \in Nodes |-> {}]
    /\ before = [n \in Nodes |-> {}]
    /\ slot = [n \in Nodes |-> Free]
    /\ outcome = [n \in Nodes |-> [k \in Keys |-> "open"]]

Submit(n, k) ==
    /\ Open(n, k) /\ k \notin waiting[n] /\ slot[n] # k
    /\ Join(n, k)
    /\ UNCHANGED <<slot, outcome>>

\* Nobody waits and nothing runs: a request may go straight to the slot.
SubmitToFreeSlot(n, k) ==
    /\ Open(n, k)
    /\ waiting[n] = {} /\ slot[n] = Free
    /\ slot' = [slot EXCEPT ![n] = k]
    /\ UNCHANGED <<waiting, before, outcome>>

Dispatch(n, k) ==
    /\ slot[n] = Free
    /\ Front(n, k)
    /\ slot' = [slot EXCEPT ![n] = k]
    /\ Leave(n, {k})
    /\ UNCHANGED outcome

Finish(n, how) ==
    /\ slot[n] # Free
    /\ outcome' = [outcome EXCEPT ![n][slot[n]] = how]
    /\ slot' = [slot EXCEPT ![n] = Free]
    /\ UNCHANGED <<waiting, before>>

GiveUp(n, k) ==
    /\ k \in waiting[n]
    /\ Leave(n, {k})
    /\ outcome' = [outcome EXCEPT ![n][k] = "recovered"]
    /\ UNCHANGED slot

\* What is in the slot may end, and some of those who wait are given up.
Repair(n, gone, ended, how) ==
    /\ Repairs
    /\ gone \subseteq waiting[n] /\ ended \subseteq {slot[n]}
    /\ Leave(n, gone)
    /\ slot' = [slot EXCEPT ![n] = IF ended = {} THEN @ ELSE Free]
    /\ outcome' = [outcome EXCEPT ![n] = [k \in Keys |->
                      IF k \in gone THEN "recovered" ELSE IF k \in ended THEN how ELSE @[k]]]

Next ==
    \E n \in Nodes :
        \/ \E how \in {"reported", "recovered"} : Finish(n, how)
        \/ \E how \in {"reported", "recovered"}, gone, ended \in SUBSET Keys :
              Repair(n, gone, ended, how)
        \/ \E k \in Keys :
              Submit(n, k) \/ SubmitToFreeSlot(n, k) \/ Dispatch(n, k) \/ GiveUp(n, k)

Spec == Init /\ [][Next]_laneVars
==============================================================================
