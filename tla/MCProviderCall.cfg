SPECIFICATION Spec
CONSTANTS
    one = one
    two = two
    draw = draw
    Job = {one, two, draw}
    KindOf <- Jobs
    Concurrency = 1
    Budget <- Seconds
    Timeout <- PerTry
    Backoff = 1
    WriteBy <- Writes
    MaxStall = 1
CHECK_DEADLOCK FALSE
INVARIANTS
    SlotsBalance
    RetriesFitPass
    AnswersAreWritten
PROPERTY
    CallsEnd
