------------------------------ MODULE RateLimit ------------------------------
(***************************************************************************)
(* The token buckets in front of the API, one for each client address and  *)
(* tier. Tokens are counted in ticks of refill: a request costs Interval   *)
(* of them, and a full bucket holds Burst requests.                        *)
(***************************************************************************)
EXTENDS Integers, FiniteSets, SequencesExt

CONSTANTS
    Client,         \* the addresses requests really come from
    Hop,            \* what else X-Forwarded-For may name: a client's own proxies
    TrustProxy,     \* TRUST_PROXY, on where a proxy of ours is in front
    Limiter,        \* the limiters of the tiers
    Burst, Interval, IdleTTL, MaxBuckets

ASSUME RateLimitAssumption ==
    /\ TrustProxy \in BOOLEAN /\ Client \cap Hop = {}
    /\ Burst \in [Limiter -> Nat \ {0}] /\ Interval \in [Limiter -> Nat \ {0}]
    /\ IdleTTL \in Nat /\ \A l \in Limiter : Burst[l] * Interval[l] <= IdleTTL
    /\ MaxBuckets \in Nat \ {0}

VARIABLE
    buckets         \* by limiter: the keys it tracks, with their buckets

(***************************************************************************)
(* The key. Our proxy appends the address it saw to what the header held;  *)
(* without one the header is the client's own and is not read.             *)
(***************************************************************************)
Forwarded(c, own) == IF TrustProxy THEN Append(own, c) ELSE own

\* Mutant: the entry the chain began with.
ClientIP_First(c, own) == IF TrustProxy THEN Head(Forwarded(c, own)) ELSE c

ClientIP(c, own) == IF TrustProxy THEN Last(Forwarded(c, own)) ELSE c

(***************************************************************************)
(* Allow: one critical section under the limiter's mutex.                  *)
(***************************************************************************)
Full(l) == Burst[l] * Interval[l]

\* A bucket is filled up when it is next touched.
Filled(l, b) == IF b.tokens + b.idle > Full(l) THEN Full(l) ELSE b.tokens + b.idle

\* Mutant: whoever spent nothing since the last tick is forgotten.
evictIdleLocked_Early(bs) == [k \in {j \in DOMAIN bs : bs[j].idle < 1} |-> bs[k]]

evictIdleLocked(bs) == [k \in {j \in DOMAIN bs : bs[j].idle <= IdleTTL} |-> bs[k]]

Tracked(l, k) == k \in DOMAIN buckets[l]

AtCapacity(bs) == Cardinality(DOMAIN bs) >= MaxBuckets

\* What a key finds: for a new one the idle go first when the map is at its cap.
Kept(l, k) ==
    IF ~Tracked(l, k) /\ AtCapacity(buckets[l])
    THEN evictIdleLocked(buckets[l]) ELSE buckets[l]

\* Still at the cap: the request rides through, and is not remembered.
Untracked(l, k) == ~Tracked(l, k) /\ AtCapacity(Kept(l, k))

Holds(l, k) == IF Tracked(l, k) THEN Filled(l, buckets[l][k]) ELSE Full(l)

Allowed(l, k) == Untracked(l, k) \/ Holds(l, k) >= Interval[l]

Allow(l, k) ==
    LET spent == [tokens |-> IF Allowed(l, k) THEN Holds(l, k) - Interval[l] ELSE Holds(l, k),
                  idle   |-> 0]
    IN  buckets' = [buckets EXCEPT ![l] =
            IF Untracked(l, k) THEN Kept(l, k)
            ELSE [j \in DOMAIN Kept(l, k) \union {k} |-> IF j = k THEN spent ELSE Kept(l, k)[j]]]

RunSweeper(l) == buckets' = [buckets EXCEPT ![l] = evictIdleLocked(@)]

\* Idleness is told apart up to what evicts, by when a bucket is full.
Older(b) == [b EXCEPT !.idle = IF @ > IdleTTL THEN @ ELSE @ + 1]

Ages == buckets' = [l \in Limiter |-> [k \in DOMAIN buckets[l] |-> Older(buckets[l][k])]]
=============================================================================
