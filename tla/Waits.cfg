\* Two slots, one per namespace, four checks; and one PR.
SPECIFICATION WaitsSpec
CONSTANTS
    a1 = a1  a2 = a2  b1 = b1  c1 = c1  A = A  B = B  C = C
    Keys <- MCKeys
    Namespaces <- MCNamespaces
    nsOf <- MCnsOf
    Global = 2
    PerNamespace = 1
    MaxSeq = 5
INVARIANTS
    LimiterSafe
PROPERTIES
    FirstComeFirstServed
    LateExpiryIsHarmless
    WaiterIsServed
    WaitEnds
CHECK_DEADLOCK FALSE
