\* Two matches at once, passes that outlive the stale window.
SPECIFICATION Spec
SYMMETRY AllAlikeButP1
CONSTANTS
    p1 = p1
    p2 = p2
    p3 = p3
    m1 = m1
    m2 = m2
    i1 = i1
    i2 = i2
    i3 = i3
    s1 = s1
    s2 = s2
    Player = {p1, p2, p3}
    Match = {m1, m2}
    Instance = {i1}
    Slot = {s1, s2}
    NoPlayer = NoPlayer
    NoMatch = NoMatch
    Home <- TwoSlots
    InitRating <- Unequal
    RoundSecs = 1
    OpenTTL = 1
    OpenPulse = 1
    PassSecs = 2
    StaleSecs = 1
    MaxAttempts = 2
    MaxDelay = 1
    MaxCrashes = 0
INVARIANTS
    LadderAddsUp
    BoardFitsLadder
    BilledExactly
PROPERTIES
    OneMatchInPlay
    SettledForGood
    ContractKept
