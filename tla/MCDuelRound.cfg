\* One round, passes within their budget, two instances with a slot each and one whose
\* slots are all busy; and the round ends.
SPECIFICATION FairSpec
CONSTANTS
    p1 = p1
    p2 = p2
    p3 = p3
    m1 = m1
    m2 = m2
    i1 = i1
    i2 = i2
    i3 = i3
    s1 = s1
    s2 = s2
    Player = {p1, p2}
    Match = {m1}
    Instance = {i1, i2, i3}
    Slot = {s1, s2}
    NoPlayer = NoPlayer
    NoMatch = NoMatch
    Home <- OneSlotEach
    InitRating <- Unequal
    RoundSecs = 2
    OpenTTL = 2
    OpenPulse = 1
    PassSecs = 1
    StaleSecs = 3
    MaxAttempts = 2
    MaxDelay = 1
    MaxCrashes = 1
INVARIANTS
    NoWedgedRound
    ResultFitsRound
    NoWedgedJudging
    OnePassPerMatch
PROPERTIES
    NoAbortUnderPass
    RoundRunsItsTime
    EveryMatchEnds
