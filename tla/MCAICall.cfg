\* Four calls of two players in one pool, two at a time, one a day each.
SPECIFICATION Spec
SYMMETRY Alike
CONSTANTS
    c1 = c1
    c2 = c2
    c3 = c3
    c4 = c4
    p1 = p1
    p2 = p2
    Unset = Unset
    NoProvider = NoProvider
    Nobody = Nobody
    Env <- Gemini
    Player = {p1, p2}
    Call = {c1, c2, c3, c4}
    Asks <- Mixed
    MaxPasses = 1
    Window = 1
    Retention = 2
    MaxSkew = 1
    MaxTime = 2
    MaxParallel = 2
    MaxOpen = 2
CHECK_DEADLOCK FALSE
INVARIANTS
    AllowanceHolds
    CeilingHolds
    EveryCallCounted
