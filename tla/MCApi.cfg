SPECIFICATION Spec
SYMMETRY People
CONSTANTS
    b1 = b1
    b2 = b2
    c1 = c1
    c2 = c2
    Browser = {b1, b2}
    Client = {c1, c2}
    Pager = {b1}
    AddressOf <- Addresses
    Hop = {elsewhere}
    TrustProxy = TRUE
    Limiter = {"write"}
    Burst <- Two
    Interval <- One
    IdleTTL = 2
    MaxBuckets = 1
    Drawing = {1, 2}
    Instant = {1, 2}
    NoRow = NoRow
    Gone = Gone
    NoCursor = NoCursor
    ann = ann
    bob = bob
    Login = {ann, bob}
    NoOne = NoOne
    PageLimit = 1
    MaxRequests = 5
CHECK_DEADLOCK FALSE
INVARIANTS
    KeysAreClients
    AnswersTrue
    WalkComplete
PROPERTIES
    ForgottenWhenFull
