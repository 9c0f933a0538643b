SPECIFICATION Spec
SYMMETRY Alike
CONSTANTS
    a1 = a1
    a2 = a2
    b1 = b1
    alice = alice
    bob = bob
    home = home
    cafe = cafe
    Nobody = Nobody
    Conn = {a1, a2, b1}
    Player = {alice, bob}
    UserOf <- Users
    IPOf <- Addresses
    MaxConns = 4
    MaxConnsPerIP = 2
    MaxConnsPerUser = 1
    SendBuffer = 2
    Elsewhere <- Others
    Kinds = {"judging", "match_changed"}
    MaxVersion = 1
CHECK_DEADLOCK FALSE
INVARIANTS
    Bounded
    PresenceExact
    NothingSkipped
    StoppedMeansClosed
    NeverStuck
