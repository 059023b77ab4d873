CONSTANTS
    a1 = a1  a2 = a2  b1 = b1
    ka = ka  kb = kb
    la = la  lb = lb  lc = lc
    s1 = s1  p1 = p1  p2 = p2
    NULL = NULL
    Calls = {a1, a2, b1}
    Keys = {ka, kb}
    Scopes = {s1}
    Plans = {p1, p2}
    KeyOf <- MCKeyOf
    LockOf <- MCLockOf
    ScopeOf <- MCScopeOf
    Policies <- MCPolicies
    Limits <- MCLimits
    UnitCost = 2
    MaxNow = 1
SPECIFICATION FairSpec
CHECK_DEADLOCK FALSE
INVARIANTS TypeOK OneRunPerKey LimitsHold DispatchedAsQueued
PROPERTIES AdmissionIsAtomic EveryCallAnswered
