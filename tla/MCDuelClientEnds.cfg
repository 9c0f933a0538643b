SPECIFICATION FairSpec
CONSTANTS
    m1 = m1
    NoMatch = NoMatch
    Match = {m1}
    MaxFaults = 1
    MaxFrames = 0
    MaxRequests = 2
PROPERTIES CatchesUp
