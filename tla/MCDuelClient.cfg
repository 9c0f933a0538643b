SPECIFICATION Spec
CONSTANTS
    m1 = m1
    NoMatch = NoMatch
    Match = {m1}
    MaxFaults = 1
    MaxFrames = 1
    MaxRequests = 2
INVARIANTS TypeOK OneLoop LoopNeverDies ShowsTheTruth
PROPERTIES PhaseNeverGoesBack
