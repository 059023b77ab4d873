--------------------------- MODULE MCRunAdmission ---------------------------
(* TLC instance of RunAdmission: two clients with a key each, the first of  *)
(* which retries under another request lock.                                *)
EXTENDS RunAdmission, TLC

CONSTANTS a1, a2, b1, ka, kb, la, lb, lc, s1, p1, p2

CallKeys == a1 :> ka @@ a2 :> ka @@ b1 :> kb
CallLocks == a1 :> la @@ a2 :> lb @@ b1 :> lc
KeyScopes == ka :> s1 @@ kb :> s1

\* A policy with a ledger, and a narrower one without.
PolicyTable ==
    {[version |-> "v1", ledgered |-> TRUE, granted |-> TRUE, allowed |-> {p1, p2}],
     [version |-> "v2", ledgered |-> FALSE, granted |-> TRUE, allowed |-> {p1}]}

\* One run a tick, and three units in two ticks.
LimitTable ==
    {[window |-> 0, maxRuns |-> 1, maxUnits |-> NULL],
     [window |-> 1, maxRuns |-> NULL, maxUnits |-> 3]}

(* TLC evaluates the right-hand side of a <- at every use, and a definition it  *)
(* reaches by name once: the tables have names here for that.                  *)
MCKeyOf == CallKeys
MCLockOf == CallLocks
MCScopeOf == KeyScopes
MCPolicies == PolicyTable
MCLimits == LimitTable
=============================================================================
