------------------------------ MODULE ApiProofs ------------------------------
(***************************************************************************)
(* Proofs about Api, for any number of browsers, accounts, drawings and    *)
(* limiters, any page size and any cap: the limiters keep to their keys    *)
(* and forget nothing that was spent, submissions are kept, answers are    *)
(* true and a paged walk is complete.                                      *)
(***************************************************************************)
EXTENDS ApiProperties, FiniteSetTheorems, WellFoundedInduction, TLAPS

(***************************************************************************)
(* The limiters.                                                           *)
(***************************************************************************)
BucketsInv ==
    /\ buckets = [l \in Limiter |-> buckets[l]]
    /\ \A l \in Limiter : /\ buckets[l] = [k \in DOMAIN buckets[l] |-> buckets[l][k]]
                          /\ \A k \in DOMAIN buckets[l] : buckets[l][k] \in Bucket(l)
                          /\ IsFiniteSet(DOMAIN buckets[l])
                          /\ Cardinality(DOMAIN buckets[l]) <= MaxBuckets
                          /\ DOMAIN buckets[l] \subseteq Client

\* A step of the limiters that gives nobody a token.
NothingGiven ==
    \A l \in Limiter : \A k \in DOMAIN buckets[l] :
        k \in DOMAIN buckets'[l] \/ Filled(l, buckets[l][k]) = Full(l)

LEMMA Limits ==
    /\ MaxBuckets \in Nat \ {0} /\ IdleTTL \in Nat
    /\ \A l \in Limiter : Full(l) \in Nat /\ Interval[l] \in Nat /\ Full(l) <= IdleTTL
<1>1. ASSUME NEW l \in Limiter
      PROVE  Full(l) \in Nat /\ Interval[l] \in Nat /\ Full(l) <= IdleTTL
  <2>1. Burst[l] \in Nat /\ Interval[l] \in Nat /\ Burst[l] * Interval[l] <= IdleTTL
    BY RateLimitAssumption
  <2>2. \A m, n \in Nat : m * n \in Nat
    OBVIOUS
  <2> QED
    BY <2>1, <2>2 DEF Full
<1> QED
    BY <1>1, RateLimitAssumption

LEMMA KeysOfBrowser ==
    ASSUME NEW b \in Browser, NEW k \in Key(b)
    PROVE  k \in Client
<1>1. PICK own \in {<< >>} \union {<<h>> : h \in Hop} : k = ClientIP(AddressOf[b], own)
    BY DEF Key
<1>2. AddressOf[b] \in Client
    BY ApiAssumption
<1>3. own \in Seq(Hop)
  <2>1. CASE own = << >>
    BY <2>1
  <2>2. ASSUME NEW h \in Hop, own = <<h>>
        PROVE  own \in Seq(Hop)
    BY <2>2
  <2> QED
    BY <1>1, <2>1, <2>2
<1>4. Last(Append(own, AddressOf[b])) = AddressOf[b]
    BY <1>3 DEF Last
<1> QED
    BY <1>1, <1>2, <1>4 DEF ClientIP, Forwarded

\* What an idle bucket is worth: evicting gives no token, and leaves a smaller map.
LEMMA Evicting ==
    ASSUME BucketsInv, NEW l \in Limiter
    PROVE  LET bs == evictIdleLocked(buckets[l])
           IN  /\ bs = [k \in DOMAIN bs |-> bs[k]]
               /\ DOMAIN bs \subseteq DOMAIN buckets[l]
               /\ \A k \in DOMAIN bs : bs[k] = buckets[l][k]
               /\ IsFiniteSet(DOMAIN bs) /\ Cardinality(DOMAIN bs) <= MaxBuckets
               /\ \A k \in DOMAIN buckets[l] :
                     k \in DOMAIN bs \/ Filled(l, buckets[l][k]) = Full(l)
<1> DEFINE bs == evictIdleLocked(buckets[l])
<1>1. /\ bs = [k \in DOMAIN bs |-> bs[k]]
      /\ DOMAIN bs = {k \in DOMAIN buckets[l] : buckets[l][k].idle <= IdleTTL}
      /\ \A k \in DOMAIN bs : bs[k] = buckets[l][k]
    BY DEF evictIdleLocked
<1>2. IsFiniteSet(DOMAIN buckets[l]) /\ Cardinality(DOMAIN buckets[l]) <= MaxBuckets
    BY DEF BucketsInv
<1>3. IsFiniteSet(DOMAIN bs) /\ Cardinality(DOMAIN bs) <= Cardinality(DOMAIN buckets[l])
    BY <1>1, <1>2, FS_Subset
<1>4. Cardinality(DOMAIN bs) <= MaxBuckets
    BY <1>2, <1>3, FS_CardinalityType, Limits
<1>5. ASSUME NEW k \in DOMAIN buckets[l], k \notin DOMAIN bs
      PROVE  Filled(l, buckets[l][k]) = Full(l)
  <2>1. buckets[l][k] \in Bucket(l)
    BY DEF BucketsInv
  <2>2. /\ buckets[l][k].tokens \in 0 .. Full(l) /\ buckets[l][k].idle \in 0 .. IdleTTL + 1
        /\ buckets[l][k].idle > IdleTTL
    BY <1>1, <1>5, <2>1, Limits DEF Bucket
  <2> QED
    BY <2>2, Limits DEF Filled
<1> QED
    BY <1>1, <1>3, <1>4, <1>5

LEMMA Keeping ==
    ASSUME BucketsInv, NEW l \in Limiter, NEW k
    PROVE  LET bs == Kept(l, k)
           IN  /\ bs = [j \in DOMAIN bs |-> bs[j]]
               /\ DOMAIN bs \subseteq DOMAIN buckets[l]
               /\ \A j \in DOMAIN bs : bs[j] = buckets[l][j]
               /\ IsFiniteSet(DOMAIN bs) /\ Cardinality(DOMAIN bs) <= MaxBuckets
               /\ \A j \in DOMAIN buckets[l] :
                     j \in DOMAIN bs \/ Filled(l, buckets[l][j]) = Full(l)
               /\ Tracked(l, k) => bs = buckets[l]
<1>1. CASE Kept(l, k) = buckets[l]
    BY <1>1 DEF BucketsInv
<1>2. CASE Kept(l, k) = evictIdleLocked(buckets[l]) /\ ~Tracked(l, k)
    BY <1>2, Evicting
<1> QED
    BY <1>1, <1>2 DEF Kept

LEMMA Allowing ==
    ASSUME BucketsInv, NEW l \in Limiter, NEW k \in Client, Allow(l, k)
    PROVE  BucketsInv' /\ NothingGiven
<1> DEFINE bs    == Kept(l, k)
           spent == [tokens |-> IF Allowed(l, k) THEN Holds(l, k) - Interval[l]
                                ELSE Holds(l, k),
                     idle   |-> 0]
           new   == [j \in DOMAIN bs \union {k} |-> IF j = k THEN spent ELSE bs[j]]
<1>1. /\ bs = [j \in DOMAIN bs |-> bs[j]]
      /\ DOMAIN bs \subseteq DOMAIN buckets[l]
      /\ \A j \in DOMAIN bs : bs[j] = buckets[l][j]
      /\ IsFiniteSet(DOMAIN bs) /\ Cardinality(DOMAIN bs) <= MaxBuckets
      /\ \A j \in DOMAIN buckets[l] :
            j \in DOMAIN bs \/ Filled(l, buckets[l][j]) = Full(l)
      /\ Tracked(l, k) => bs = buckets[l]
    BY Keeping
<1>2. /\ \A j \in DOMAIN bs : bs[j] \in Bucket(l)
      /\ DOMAIN buckets[l] \subseteq Client
    BY <1>1 DEF BucketsInv
<1>3. ASSUME NEW fs, buckets' = [buckets EXCEPT ![l] = fs],
             fs = [j \in DOMAIN fs |-> fs[j]], \A j \in DOMAIN fs : fs[j] \in Bucket(l),
             IsFiniteSet(DOMAIN fs), Cardinality(DOMAIN fs) <= MaxBuckets,
             DOMAIN fs \subseteq Client, DOMAIN bs \subseteq DOMAIN fs
      PROVE  BucketsInv' /\ NothingGiven
  <2>1. /\ buckets' = [m \in Limiter |-> buckets'[m]] /\ buckets'[l] = fs
        /\ \A m \in Limiter \ {l} : buckets'[m] = buckets[m]
    BY <1>3 DEF BucketsInv
  <2>2. BucketsInv'
    <3> SUFFICES ASSUME NEW m \in Limiter
                 PROVE  /\ buckets'[m] = [j \in DOMAIN buckets'[m] |-> buckets'[m][j]]
                        /\ \A j \in DOMAIN buckets'[m] : buckets'[m][j] \in Bucket(m)
                        /\ IsFiniteSet(DOMAIN buckets'[m])
                        /\ Cardinality(DOMAIN buckets'[m]) <= MaxBuckets
                        /\ DOMAIN buckets'[m] \subseteq Client
      BY <2>1 DEF BucketsInv, Bucket, Full
    <3>1. CASE m = l
      BY <1>3, <2>1, <3>1
    <3>2. CASE m # l
      <4>1. buckets'[m] = buckets[m]
        BY <2>1, <3>2
      <4> QED
        BY <4>1 DEF BucketsInv
    <3> QED
      BY <3>1, <3>2
  <2>3. NothingGiven
    BY <1>1, <1>3, <2>1 DEF NothingGiven
  <2> QED
    BY <2>2, <2>3
<1>4. CASE Untracked(l, k)
  <2>1. buckets' = [buckets EXCEPT ![l] = bs]
    BY <1>4 DEF Allow
  <2> HIDE DEF bs
  <2> QED
    BY <1>1, <1>2, <1>3, <2>1
<1>5. CASE ~Untracked(l, k)
  <2>1. buckets' = [buckets EXCEPT ![l] = new]
    BY <1>5 DEF Allow
  <2>2. Holds(l, k) \in 0 .. Full(l)
    <3>1. CASE Tracked(l, k)
      <4>1. buckets[l][k] \in Bucket(l)
        BY <3>1 DEF BucketsInv, Tracked
      <4>2. buckets[l][k].tokens \in 0 .. Full(l) /\ buckets[l][k].idle \in Nat
        BY <4>1, Limits DEF Bucket
      <4> QED
        BY <3>1, <4>2, Limits DEF Holds, Filled
    <3>2. CASE ~Tracked(l, k)
      BY <3>2, Limits DEF Holds
    <3> QED
      BY <3>1, <3>2
  <2>3. spent \in Bucket(l)
    <3>1. spent.tokens \in 0 .. Full(l)
      BY <1>5, <2>2, Limits DEF Allowed
    <3> QED
      BY <3>1, Limits DEF Bucket
  <2>4. IsFiniteSet(DOMAIN bs \cup {k}) /\ Cardinality(DOMAIN bs \cup {k}) <= MaxBuckets
    <3>1. CASE k \in DOMAIN bs
      BY <1>1, <3>1, FS_AddElement
    <3>2. CASE k \notin DOMAIN bs
      <4>1. Cardinality(DOMAIN bs) < MaxBuckets
        BY <1>1, <1>5, <3>2, FS_CardinalityType, Limits DEF Untracked, Tracked, AtCapacity
      <4>2. /\ IsFiniteSet(DOMAIN bs \cup {k})
            /\ Cardinality(DOMAIN bs \cup {k}) = Cardinality(DOMAIN bs) + 1
        BY <1>1, <3>2, FS_AddElement
      <4>3. Cardinality(DOMAIN bs) \in Nat
        BY <1>1, FS_CardinalityType
      <4> HIDE DEF bs
      <4> QED
        BY <4>1, <4>2, <4>3, Limits
    <3> QED
      BY <3>1, <3>2
  <2>5. /\ DOMAIN new = DOMAIN bs \cup {k} /\ new = [j \in DOMAIN new |-> new[j]]
        /\ \A j \in DOMAIN new : new[j] \in Bucket(l)
    BY <1>2, <2>3
  <2> HIDE DEF new, bs
  <2> QED
    BY <1>1, <1>2, <1>3, <2>1, <2>4, <2>5
<1> QED
    BY <1>4, <1>5

\* A request through the limiter changes the limiters only, and gives nothing.
LEMMA Limiting ==
    ASSUME BucketsInv, NEW b \in Browser, NEW path, NEW method, NEW ok,
           RateLimited(b, path, method, ok)
    PROVE  BucketsInv' /\ NothingGiven
<1>1. CASE UNCHANGED buckets
    BY <1>1 DEF BucketsInv, NothingGiven, Bucket, Full
<1>2. CASE \E i \in Policies(path, method), k \in Key(b) : Allow(ratePolicies[i].limiter, k)
    BY <1>2, Allowing, KeysOfBrowser DEF Policies
<1> QED
    BY <1>1, <1>2 DEF RateLimited

LEMMA Sweeping ==
    ASSUME BucketsInv, NEW l \in Limiter, RunSweeper(l)
    PROVE  BucketsInv' /\ NothingGiven
<1> DEFINE bs == evictIdleLocked(buckets[l])
<1>1. /\ bs = [k \in DOMAIN bs |-> bs[k]]
      /\ DOMAIN bs \subseteq DOMAIN buckets[l]
      /\ \A k \in DOMAIN bs : bs[k] = buckets[l][k]
      /\ IsFiniteSet(DOMAIN bs) /\ Cardinality(DOMAIN bs) <= MaxBuckets
      /\ \A k \in DOMAIN buckets[l] :
            k \in DOMAIN bs \/ Filled(l, buckets[l][k]) = Full(l)
    BY Evicting
<1>2. /\ buckets' = [m \in Limiter |-> buckets'[m]] /\ buckets'[l] = bs
      /\ \A m \in Limiter \ {l} : buckets'[m] = buckets[m]
    BY DEF BucketsInv, RunSweeper
<1> HIDE DEF bs
<1>3. BucketsInv'
  <2> SUFFICES ASSUME NEW m \in Limiter
               PROVE  /\ buckets'[m] = [j \in DOMAIN buckets'[m] |-> buckets'[m][j]]
                      /\ \A j \in DOMAIN buckets'[m] : buckets'[m][j] \in Bucket(m)
                      /\ IsFiniteSet(DOMAIN buckets'[m])
                      /\ Cardinality(DOMAIN buckets'[m]) <= MaxBuckets
                      /\ DOMAIN buckets'[m] \subseteq Client
    BY <1>2 DEF BucketsInv, Bucket, Full
  <2>1. CASE m = l
    BY <1>1, <1>2, <2>1 DEF BucketsInv
  <2>2. CASE m # l
    <3>1. buckets'[m] = buckets[m]
      BY <1>2, <2>2
    <3> QED
      BY <3>1 DEF BucketsInv
  <2> QED
    BY <2>1, <2>2
<1>4. NothingGiven
    BY <1>1, <1>2 DEF NothingGiven
<1> QED
    BY <1>3, <1>4

LEMMA Aging ==
    ASSUME BucketsInv, Ages
    PROVE  BucketsInv' /\ NothingGiven
<1>1. /\ buckets' = [m \in Limiter |-> buckets'[m]]
      /\ \A m \in Limiter : buckets'[m] = [k \in DOMAIN buckets[m] |-> Older(buckets[m][k])]
    BY DEF Ages
<1>2. ASSUME NEW m \in Limiter, NEW k \in DOMAIN buckets[m]
      PROVE  Older(buckets[m][k]) \in Bucket(m)
  <2>1. buckets[m][k] \in Bucket(m)
    BY DEF BucketsInv
  <2> QED
    BY <2>1, Limits DEF Older, Bucket
<1>3. BucketsInv'
  <2> SUFFICES ASSUME NEW m \in Limiter
               PROVE  /\ buckets'[m] = [j \in DOMAIN buckets'[m] |-> buckets'[m][j]]
                      /\ \A j \in DOMAIN buckets'[m] : buckets'[m][j] \in Bucket(m)
                      /\ IsFiniteSet(DOMAIN buckets'[m])
                      /\ Cardinality(DOMAIN buckets'[m]) <= MaxBuckets
                      /\ DOMAIN buckets'[m] \subseteq Client
    BY <1>1 DEF BucketsInv, Bucket, Full
  <2>1. DOMAIN buckets'[m] = DOMAIN buckets[m]
    BY <1>1
  <2> QED
    BY <1>1, <1>2, <2>1 DEF BucketsInv
<1>4. NothingGiven
    BY <1>1 DEF NothingGiven
<1> QED
    BY <1>3, <1>4

(***************************************************************************)
(* Order: a finite set has an element none of its elements precedes.       *)
(***************************************************************************)
LEMMA Least ==
    ASSUME NEW S, IsFiniteSet(S), S # {}, NEW R,
           \A x \in S : <<x, x>> \notin R,
           \A x, y, z \in S : <<x, y>> \in R /\ <<y, z>> \in R => <<x, z>> \in R
    PROVE  \E x \in S : \A y \in S : <<y, x>> \notin R
<1> DEFINE Before(x) == {y \in S : <<y, x>> \in R}
           rank == [x \in S |-> Cardinality(Before(x))]
           ranks == {rank[x] : x \in S}
<1>1. \A x \in S : IsFiniteSet(Before(x)) /\ rank[x] \in Nat
    BY FS_Subset, FS_CardinalityType
<1>2. ranks \subseteq Nat /\ ranks # {}
  <2>1. \A x \in S : rank[x] \in Nat
    BY <1>1
  <2>2. PICK x : x \in S
    OBVIOUS
  <2> HIDE DEF rank
  <2>3. rank[x] \in ranks
    BY <2>2
  <2>4. ranks \subseteq Nat
    BY <2>1
  <2> QED
    BY <2>3, <2>4
<1>3. PICK n \in ranks : \A m \in ranks : ~(<<m, n>> \in OpToRel(<, Nat))
  <2> HIDE DEF ranks
  <2> QED
    BY <1>2, WFMin, NatLessThanWellFounded
<1>4. \A m \in ranks : ~(m < n)
    BY <1>2, <1>3 DEF OpToRel
<1>5. PICK x \in S : n = rank[x]
    OBVIOUS
<1>6. ASSUME NEW y \in S, <<y, x>> \in R
      PROVE  FALSE
  <2>1. Before(y) \subseteq Before(x) /\ y \in Before(x) /\ y \notin Before(y)
    BY <1>6
  <2>2. /\ Cardinality(Before(y)) <= Cardinality(Before(x))
        /\ Cardinality(Before(y)) # Cardinality(Before(x))
    BY <1>1, <2>1, FS_Subset
  <2>3. rank[y] < rank[x]
    <3>1. rank[y] = Cardinality(Before(y)) /\ rank[x] = Cardinality(Before(x))
      OBVIOUS
    <3> HIDE DEF rank, Before
    <3> QED
      BY <1>1, <2>2, <3>1
  <2> QED
    BY <1>4, <1>5, <2>3
<1> QED
    BY <1>6

(***************************************************************************)
(* The order of the list, on cursors.                                      *)
(***************************************************************************)
Mark == [at : Instant, id : Drawing]
RowsTyped == drawings \in [Drawing -> Row \union {NoRow, Gone}]

LEMMA MarkOrder ==
    /\ \A c \in Mark : ~Precedes(c, c)
    /\ \A c, e, f \in Mark : Precedes(c, e) /\ Precedes(e, f) => Precedes(c, f)
    /\ \A c, e \in Mark : c.id # e.id => Precedes(c, e) \/ Precedes(e, c)
<1>1. \A c \in Mark : c.at \in Nat /\ c.id \in Nat
    BY DrawingsAssumption DEF Mark
<1> QED
    BY <1>1 DEF Precedes

LEMMA ListedRows ==
    ASSUME RowsTyped, NEW u, NEW kind, NEW cursor
    PROVE  /\ Listed(u, kind, cursor) \subseteq Drawing
           /\ IsFiniteSet(Listed(u, kind, cursor))
           /\ \A d \in Listed(u, kind, cursor) :
                 Exists(d) /\ Cursor(d) \in Mark /\ Cursor(d).id = d
<1>1. Listed(u, kind, cursor) \subseteq Drawing
    BY DEF Listed
<1>2. IsFiniteSet(Listed(u, kind, cursor))
    BY <1>1, FS_Subset, DrawingsAssumption
<1>3. ASSUME NEW d \in Listed(u, kind, cursor)
      PROVE  Exists(d) /\ Cursor(d) \in Mark /\ Cursor(d).id = d
  <2>1. d \in Drawing /\ Exists(d)
    BY <1>3 DEF Listed, Owned
  <2>2. drawings[d] \in Row
    BY <2>1 DEF RowsTyped, Exists
  <2> QED
    BY <2>1, <2>2 DEF Row, Cursor, Mark
<1> QED
    BY <1>1, <1>2, <1>3

\* Of two rows of a list the newer one is the one the other's cursor precedes.
LEMMA NewerIsPreceded ==
    ASSUME NEW ds, NEW d, NEW e \in ds, drawings[e].at \in Nat, drawings[d].at \in Nat,
           e \in Nat, d \in Nat
    PROVE  e \in Newer(ds, d) <=> Precedes(Cursor(d), Cursor(e))
BY DEF Newer, Precedes, Cursor

(***************************************************************************)
(* A page is the newest rows of what is left, and its cursor what it left. *)
(***************************************************************************)
LEMMA Paging ==
    ASSUME RowsTyped, NEW u, NEW kind, NEW cursor \in CursorType
    PROVE  LET ds   == Listed(u, kind, cursor)
               page == listDrawings(u, kind, cursor, PageLimit)
               next == NextCursor(page, PageLimit)
           IN  /\ page \subseteq ds /\ next \in CursorType
               /\ Cardinality(page) < PageLimit => page = ds
               /\ ~(Cardinality(page) < PageLimit) =>
                     /\ ds \ page \subseteq Listed(u, kind, next)
                     /\ page \cap Listed(u, kind, next) = {}
                     /\ Listed(u, kind, next) \subseteq ds
<1> DEFINE ds   == Listed(u, kind, cursor)
           page == listDrawings(u, kind, cursor, PageLimit)
           next == NextCursor(page, PageLimit)
           before(x, y) == Precedes(Cursor(x), Cursor(y))
<1>1. /\ ds \subseteq Drawing /\ IsFiniteSet(ds) /\ PageLimit \in Nat \ {0}
      /\ \A d \in ds : Cursor(d) \in Mark /\ Cursor(d).id = d
    BY ListedRows, ApiAssumption
<1>2. /\ \A d \in ds : ~before(d, d)
      /\ \A d, e, f \in ds : before(d, e) /\ before(e, f) => before(d, f)
      /\ \A d, e \in ds : d # e => before(d, e) \/ before(e, d)
    BY <1>1, MarkOrder
<1>3. \A d \in ds : Newer(ds, d) = {e \in ds : before(d, e)}
  <2>1. \A d \in ds : d \in Nat /\ drawings[d].at \in Nat
    BY <1>1, DrawingsAssumption DEF Cursor, Mark
  <2> QED
    BY <2>1, NewerIsPreceded DEF Newer
<1>4. /\ page = {d \in ds : Cardinality(Newer(ds, d)) < PageLimit}
      /\ page \subseteq ds /\ IsFiniteSet(page) /\ Cardinality(page) \in Nat
  <2>1. page = {d \in ds : Cardinality(Newer(ds, d)) < PageLimit}
    BY DEF listDrawings
  <2> QED
    BY <1>1, <2>1, FS_Subset, FS_CardinalityType
<1> HIDE DEF ds, page
<1>5. \A d, e \in ds : IsFiniteSet(Newer(ds, d)) /\ Cardinality(Newer(ds, d)) \in Nat
  <2>1. \A d \in ds : Newer(ds, d) \subseteq ds
    BY DEF Newer
  <2> QED
    BY <1>1, <2>1, FS_Subset, FS_CardinalityType
\* Short pages show all that is left: the newest row left out would have had room.
<1>6. ASSUME Cardinality(page) < PageLimit, ds \ page # {}
      PROVE  FALSE
  <2> DEFINE S == ds \ page
             R == {p \in S \X S : before(p[2], p[1])}
  <2>1. IsFiniteSet(S)
    BY <1>1, FS_Subset
  <2>2. /\ \A x \in S : <<x, x>> \notin R
        /\ \A x, y, z \in S : <<x, y>> \in R /\ <<y, z>> \in R => <<x, z>> \in R
    BY <1>2
  <2>3. PICK x \in S : \A y \in S : <<y, x>> \notin R
    <3> HIDE DEF R, S
    <3> QED
      BY <1>6, <2>1, <2>2, Least DEF S
  <2>4. Newer(ds, x) \subseteq page
    BY <1>3, <2>3
  <2>5. Cardinality(Newer(ds, x)) <= Cardinality(page)
    BY <1>4, <2>4, FS_Subset
  <2> QED
    BY <1>1, <1>4, <1>5, <1>6, <2>3, <2>5
\* The row a page ends with.
<1>7. ASSUME page # {}
      PROVE  \E m \in page : \A e \in page : e = m \/ before(m, e)
  <2> DEFINE R == {p \in page \X page : before(p[1], p[2])}
  <2>1. /\ \A x \in page : <<x, x>> \notin R
        /\ \A x, y, z \in page : <<x, y>> \in R /\ <<y, z>> \in R => <<x, z>> \in R
    BY <1>2, <1>4
  <2>2. PICK m \in page : \A y \in page : <<y, m>> \notin R
    <3> HIDE DEF R
    <3> QED
      BY <1>4, <1>7, <2>1, Least
  <2> QED
    BY <1>2, <1>4, <2>2
<1>8. ASSUME ~(Cardinality(page) < PageLimit)
      PROVE  /\ next \in CursorType
             /\ ds \ page \subseteq Listed(u, kind, next)
             /\ page \cap Listed(u, kind, next) = {}
             /\ Listed(u, kind, next) \subseteq ds
  <2> DEFINE m == CHOOSE d \in page : \A e \in page : e = d \/ before(d, e)
  <2>1. page # {}
    BY <1>1, <1>8, FS_EmptySet
  <2>2. m \in page /\ \A e \in page : e = m \/ before(m, e)
    BY <1>7, <2>1
  <2>3. Cardinality(page) = PageLimit
    <3> HIDE DEF m
    <3>1. page \ {m} \subseteq Newer(ds, m)
      BY <1>3, <1>4, <2>2
    <3>2. Cardinality(page \ {m}) <= Cardinality(Newer(ds, m))
      BY <1>4, <1>5, <2>2, <3>1, FS_Subset
    <3>3. Cardinality(page \ {m}) = Cardinality(page) - 1
      BY <1>4, <2>2, FS_RemoveElement
    <3>4. Cardinality(Newer(ds, m)) < PageLimit /\ Cardinality(Newer(ds, m)) \in Nat
      BY <1>4, <1>5, <2>2
    <3> QED
      BY <1>1, <1>4, <1>8, <3>2, <3>3, <3>4
  <2>4. next = Cursor(m)
    BY <2>3 DEF NextCursor
  <2>5. m \in ds /\ next \in Mark /\ next # NoCursor
    BY <1>1, <1>4, <2>2, <2>4, DrawingsAssumption DEF Mark
  <2> HIDE DEF m, next
  <2>6. ASSUME NEW d \in ds \ page
        PROVE  before(d, m)
    <3>1. SUFFICES ASSUME before(m, d) PROVE FALSE
      BY <1>2, <2>2, <2>5
    <3>2. Newer(ds, d) \subseteq Newer(ds, m)
      BY <1>2, <1>3, <2>5, <3>1
    <3>3. Cardinality(Newer(ds, d)) <= Cardinality(Newer(ds, m))
      BY <1>5, <2>5, <3>2, FS_Subset
    <3>4. Cardinality(Newer(ds, m)) < PageLimit /\ ~(Cardinality(Newer(ds, d)) < PageLimit)
      BY <1>4, <2>2, <2>6
    <3> QED
      BY <1>1, <1>5, <2>5, <2>6, <3>3, <3>4
  <2>7. ds \ page \subseteq Listed(u, kind, next)
    BY <2>4, <2>6 DEF ds, Listed
  <2>8. ASSUME NEW e \in page \cap Listed(u, kind, next)
        PROVE  FALSE
    <3>1. before(e, m)
      BY <2>4, <2>5, <2>8 DEF Listed
    <3> QED
      BY <1>2, <1>4, <2>2, <2>5, <2>8, <3>1
  <2>9. ASSUME NEW e \in Listed(u, kind, next), cursor # NoCursor
        PROVE  Precedes(Cursor(e), cursor)
    <3>1. cursor \in Mark /\ Cursor(e) \in Mark
      BY <2>9, ListedRows DEF CursorType, Mark
    <3>2. Precedes(Cursor(e), next) /\ Precedes(next, cursor)
      BY <2>4, <2>5, <2>9 DEF ds, Listed
    <3> QED
      BY <2>5, <3>1, <3>2, MarkOrder
  <2>10. Listed(u, kind, next) \subseteq ds
    BY <2>9 DEF ds, Listed
  <2> QED
    BY <2>5, <2>7, <2>8, <2>10 DEF CursorType, Mark
<1>9. next \in CursorType
  <2>1. CASE Cardinality(page) < PageLimit
    BY <1>1, <1>4, <2>1 DEF NextCursor, CursorType
  <2> QED
    BY <1>8, <2>1
<1> QED
    BY <1>4, <1>6, <1>8, <1>9 DEF ds, page

(***************************************************************************)
(* The inductive invariant.                                                *)
(***************************************************************************)
DataInv ==
    /\ RowsTyped
    /\ users \subseteq Login /\ cookie \in [Browser -> users \union {NoOne}]
    /\ missed \in [Browser -> About \union {NoOne}]
    /\ walk \in [Browser -> WalkType]

Rest(w) == Listed(w.user, w.kind, w.cursor)

\* What a walk still owes is further down the list, where nothing it has shown is.
WalkInv(w) ==
    /\ ~w.again
    /\ \A d \in w.got : drawings[d] # NoRow
    /\ \A d \in w.owed : drawings[d] # Gone
    /\ w.done  => w.owed \subseteq w.got
    /\ ~w.done => w.owed \subseteq w.got \union Rest(w) /\ w.got \cap Rest(w) = {}

WalksInv == \A b \in Browser : WalkInv(walk[b])

\* A write that missed its row missed one that is not its owner's, or a submission.
MissedInv ==
    \A b \in Browser : missed[b] # NoOne =>
        /\ drawings[missed[b].id] # NoRow
        /\ Owned(missed[b].id, missed[b].user) => Duel(missed[b].id)

IInv == BucketsInv /\ DataInv /\ WalksInv /\ MissedInv /\ AnswersTrue

(***************************************************************************)
(* What a step may do to the rows, and the walks under it.                 *)
(***************************************************************************)
\* Rows come, change, or go for good; none becomes another's, moves or leaves its kind.
RowsMove ==
    /\ RowsTyped'
    /\ \A d \in Drawing :
          \/ drawings'[d] = drawings[d]
          \/ drawings[d] = NoRow /\ drawings'[d] \in Row
          \/ /\ drawings[d] \in Row /\ drawings'[d] \in Row /\ ~drawings[d].duel
             /\ drawings'[d].owner = drawings[d].owner /\ drawings'[d].at = drawings[d].at
             /\ drawings'[d].duel = drawings[d].duel
          \/ drawings[d] \in Row /\ ~drawings[d].duel /\ drawings'[d] = Gone

LEMMA RowsTold ==
    ASSUME RowsTyped, NEW d \in Drawing
    PROVE  /\ Exists(d) <=> drawings[d] \in Row
           /\ drawings[d] \in Row => drawings[d].at \in Nat /\ drawings[d].duel \in BOOLEAN
<1>1. drawings[d] \in Row => drawings[d].at \in Nat /\ drawings[d].duel \in BOOLEAN
    BY DrawingsAssumption DEF Row
<1>2. Exists(d) <=> drawings[d] \in Row
    BY RowsAssumption DEF RowsTyped, Exists
<1> QED
    BY <1>1, <1>2

\* What a list shows of an old row it showed before, and of what it showed it loses only
\* what is gone.
LEMMA ListsMove ==
    ASSUME RowsTyped, RowsMove, NEW u, NEW kind, NEW cursor, NEW d \in Drawing
    PROVE  /\ d \in Listed(u, kind, cursor)' /\ drawings[d] # NoRow
                 => d \in Listed(u, kind, cursor)
           /\ d \in Listed(u, kind, cursor) /\ drawings'[d] # Gone
                 => d \in Listed(u, kind, cursor)'
<1>1. /\ Exists(d) <=> drawings[d] \in Row
      /\ Exists(d)' <=> drawings'[d] \in Row
    <2>1. Exists(d) <=> drawings[d] \in Row
      BY RowsTold
    <2>2. Exists(d)' <=> drawings'[d] \in Row
      BY RowsAssumption DEF RowsMove, RowsTyped, Exists
    <2> QED
      BY <2>1, <2>2
<1>2. CASE drawings'[d] = drawings[d]
    BY <1>1, <1>2 DEF Listed, Owned, OfKind, Duel, Cursor, Exists
<1>3. CASE drawings[d] = NoRow /\ drawings'[d] \in Row
    BY <1>1, <1>3, RowsAssumption DEF Listed, Owned
<1>4. CASE /\ drawings[d] \in Row /\ drawings'[d] \in Row
           /\ drawings'[d].owner = drawings[d].owner /\ drawings'[d].at = drawings[d].at
           /\ drawings'[d].duel = drawings[d].duel
    BY <1>1, <1>4 DEF Listed, Owned, OfKind, Duel, Cursor
<1>5. CASE drawings[d] \in Row /\ drawings'[d] = Gone
    BY <1>1, <1>5, RowsAssumption DEF Listed, Owned
<1> QED
    BY <1>2, <1>3, <1>4, <1>5 DEF RowsMove

\* A walk keeps its invariant under any move of the rows, owed or not what is gone.
LEMMA WalkMoves ==
    ASSUME RowsTyped, RowsMove, NEW w \in WalkType, NEW v \in WalkType, WalkInv(w),
           v.got = w.got, v.again = w.again, v.done = w.done, v.user = w.user,
           v.kind = w.kind, v.cursor = w.cursor,
           v.owed \subseteq w.owed, \A d \in v.owed : drawings'[d] # Gone
    PROVE  WalkInv(v)'
<1>1. v.got \subseteq Drawing /\ v.owed \subseteq Drawing
    BY DEF WalkType
<1>2. \A d \in v.got : drawings'[d] # NoRow
    BY <1>1, RowsAssumption DEF WalkInv, RowsMove
<1>3. \A d \in v.got \cup v.owed :
         d \in Listed(w.user, w.kind, w.cursor)' /\ drawings[d] # NoRow
            => d \in Listed(w.user, w.kind, w.cursor)
    BY <1>1, ListsMove
<1>4. \A d \in v.owed :
         d \in Listed(w.user, w.kind, w.cursor)
            => d \in Listed(w.user, w.kind, w.cursor)'
    BY <1>1, ListsMove
<1>5. Rest(v)' = Listed(w.user, w.kind, w.cursor)'
    BY DEF Rest
<1> QED
    BY <1>2, <1>3, <1>4, <1>5 DEF WalkInv, Rest

(***************************************************************************)
(* The steps, by what they change.                                         *)
(***************************************************************************)
LEMMA RowsStay ==
    ASSUME IInv, drawings' = drawings, walk' = walk
    PROVE  RowsMove /\ WalksInv'
BY DEF IInv, DataInv, RowsTyped, RowsMove, WalksInv, WalkInv, Rest, Listed, Owned, OfKind,
       Duel, Cursor, Exists

\* A step that moves one row keeps every walk that is not owed what went.
LEMMA WalksMove ==
    ASSUME IInv, RowsMove, NEW d \in Drawing,
           \A e \in Drawing \ {d} : drawings'[e] = drawings[e],
           \/ walk' = walk /\ drawings'[d] # Gone
           \/ walk' = [w \in Browser |-> [walk[w] EXCEPT !.owed = @ \ {d}]]
    PROVE  walk' \in [Browser -> WalkType] /\ WalksInv'
<1>1. walk \in [Browser -> WalkType]
    BY DEF IInv, DataInv
<1>2. ASSUME NEW b \in Browser
      PROVE  /\ walk'[b] \in WalkType /\ walk'[b].owed \subseteq walk[b].owed
             /\ \A e \in walk'[b].owed : e # d \/ drawings'[d] # Gone
             /\ walk'[b] = [walk[b] EXCEPT !.owed = walk'[b].owed]
  <2>1. walk[b] \in WalkType
    BY <1>1
  <2>2. CASE walk' = walk /\ drawings'[d] # Gone
    BY <2>1, <2>2 DEF WalkType
  <2>3. CASE walk' = [w \in Browser |-> [walk[w] EXCEPT !.owed = @ \ {d}]]
    <3>1. walk'[b] = [walk[b] EXCEPT !.owed = @ \ {d}]
      BY <2>3
    <3>2. walk[b].owed \ {d} \in SUBSET Drawing
      BY <2>1 DEF WalkType
    <3>3. walk'[b].owed = walk[b].owed \ {d}
      BY <2>1, <3>1 DEF WalkType
    <3> QED
      BY <2>1, <3>1, <3>2, <3>3 DEF WalkType
  <2> QED
    BY <2>2, <2>3
<1>3. walk' \in [Browser -> WalkType]
  <2>1. DOMAIN walk' = Browser /\ walk' = [b \in Browser |-> walk'[b]]
    BY <1>1
  <2> QED
    BY <1>2, <2>1
<1>4. ASSUME NEW b \in Browser
      PROVE  WalkInv(walk[b])'
  <2>1. PICK w : w = walk[b]
    OBVIOUS
  <2>2. PICK v : v = walk'[b]
    OBVIOUS
  <2>3. w \in WalkType /\ WalkInv(w) /\ RowsTyped
    <3>1. walk[b] \in WalkType /\ WalkInv(walk[b]) /\ RowsTyped
      BY DEF IInv, DataInv, WalksInv
    <3> QED
      BY <2>1, <3>1
  <2>4. /\ v \in WalkType /\ v.owed \subseteq w.owed
        /\ \A e \in v.owed : e # d \/ drawings'[d] # Gone
        /\ v = [w EXCEPT !.owed = v.owed]
    BY <1>2, <2>1, <2>2
  <2>5. /\ v.got = w.got /\ v.again = w.again /\ v.done = w.done /\ v.user = w.user
        /\ v.kind = w.kind /\ v.cursor = w.cursor
    BY <2>3, <2>4 DEF WalkType
  <2>6. \A e \in v.owed : drawings'[e] # Gone
    <3>1. v.owed \subseteq Drawing
      BY <2>4 DEF WalkType
    <3> QED
      BY <2>3, <2>4, <3>1 DEF WalkInv
  <2>7. WalkInv(v)'
    BY <2>3, <2>4, <2>5, <2>6, WalkMoves
  <2> QED
    BY <2>2, <2>7
    DEF WalkInv, Rest, Listed, Owned, OfKind, Duel, Cursor, Exists
<1> QED
    BY <1>3, <1>4 DEF WalksInv

LEMMA Drawn ==
    ASSUME IInv, NEW u \in Login, NEW d \in Drawing, NEW at \in Instant, NEW duel \in BOOLEAN,
           createDrawing(u, d, at, duel), walk' = walk
    PROVE  RowsMove /\ walk' \in [Browser -> WalkType] /\ WalksInv'
<1> DEFINE row == [owner |-> u, duel |-> duel, at |-> at, updated |-> FALSE]
<1>1. RowsTyped /\ row \in Row
    BY DEF IInv, DataInv, Row
<1>2. drawings[d] = NoRow /\ drawings' = [drawings EXCEPT ![d] = row]
    BY DEF createDrawing
<1> HIDE DEF row
<1>3. /\ \A e \in Drawing \ {d} : drawings'[e] = drawings[e]
      /\ drawings'[d] = row /\ RowsTyped'
    BY <1>1, <1>2 DEF RowsTyped
<1>4. RowsMove
    BY <1>1, <1>2, <1>3 DEF RowsMove
<1>5. drawings'[d] # Gone
    BY <1>1, <1>3, RowsAssumption
<1> QED
    BY <1>3, <1>4, <1>5, WalksMove

\* A walk turns its page.
LEMMA Turned ==
    ASSUME RowsTyped, NEW w \in WalkType, WalkInv(w), ~w.done
    PROVE  LET page == listDrawings(w.user, w.kind, w.cursor, PageLimit)
           IN  Shown(w, page) \in WalkType /\ WalkInv(Shown(w, page))
<1> DEFINE page == listDrawings(w.user, w.kind, w.cursor, PageLimit)
           next == NextCursor(page, PageLimit)
           v == Shown(w, page)
           done == Cardinality(page) < PageLimit
<1>1. /\ w.cursor \in CursorType /\ w.got \subseteq Drawing /\ w.owed \subseteq Drawing
    BY DEF WalkType
<1>2. /\ page \subseteq Rest(w) /\ next \in CursorType
      /\ done => page = Rest(w)
      /\ ~done => /\ Rest(w) \ page \subseteq Listed(w.user, w.kind, next)
                  /\ page \cap Listed(w.user, w.kind, next) = {}
                  /\ Listed(w.user, w.kind, next) \subseteq Rest(w)
    BY <1>1, Paging DEF Rest
<1>3. v = [w EXCEPT !.got = w.got \cup page, !.again = w.again \/ page \cap w.got # {},
                    !.cursor = next, !.done = done]
    BY DEF Shown
<1> HIDE DEF page, next, v, done
<1>4. page \subseteq Drawing /\ \A d \in page : drawings[d] # NoRow
  <2>1. Rest(w) \subseteq Drawing /\ \A d \in Rest(w) : Exists(d)
    BY ListedRows DEF Rest
  <2> QED
    BY <1>2, <2>1 DEF Exists
<1>5. w.again \in BOOLEAN /\ done \in BOOLEAN
    BY DEF WalkType, done
<1>6. /\ v.got = w.got \cup page /\ v.again = (w.again \/ page \cap w.got # {})
      /\ v.cursor = next /\ v.done = done /\ v.owed = w.owed
      /\ v.user = w.user /\ v.kind = w.kind
    BY <1>3 DEF WalkType
<1>7. v \in WalkType
  <2>1. /\ w.got \cup page \in SUBSET Drawing
        /\ (w.again \/ page \cap w.got # {}) \in BOOLEAN
    BY <1>1, <1>4
  <2> QED
    BY <1>2, <1>3, <1>5, <2>1 DEF WalkType
<1>8. Rest(v) = Listed(w.user, w.kind, next)
    BY <1>6 DEF Rest
<1>9. /\ ~w.again /\ \A d \in w.got : drawings[d] # NoRow
      /\ \A d \in w.owed : drawings[d] # Gone
      /\ w.owed \subseteq w.got \union Rest(w) /\ w.got \cap Rest(w) = {}
    BY DEF WalkInv
<1>10. ~v.again
    BY <1>2, <1>6, <1>9
<1>11. WalkInv(v)
    BY <1>2, <1>4, <1>6, <1>8, <1>9, <1>10 DEF WalkInv
<1> QED
    BY <1>7, <1>11 DEF v, page

LEMMA Starting ==
    ASSUME RowsTyped, NEW u \in Login, NEW kind \in Kinds
    PROVE  Begun(u, kind) \in WalkType /\ WalkInv(Begun(u, kind)) /\ ~Begun(u, kind).done
<1> DEFINE w == Begun(u, kind)
           all == Listed(u, kind, NoCursor)
<1>1. all \subseteq Drawing /\ \A d \in all : drawings[d] # Gone
    BY ListedRows DEF Exists
<1>2. /\ w.user = u /\ w.kind = kind /\ w.cursor = NoCursor /\ w.got = {} /\ w.again = FALSE
      /\ w.owed = all /\ w.done = FALSE
    BY DEF Begun, NoWalk
<1>3. w \in WalkType
  <2>1. NoWalk \in WalkType
    BY DEF NoWalk, WalkType, CursorType, Kinds
  <2>2. all \in SUBSET Drawing
    BY <1>1
  <2>3. w = [NoWalk EXCEPT !.user = u, !.kind = kind, !.owed = all]
    BY DEF Begun
  <2> HIDE DEF all, w
  <2> QED
    BY <2>1, <2>2, <2>3 DEF WalkType
<1> HIDE DEF w
<1>4. Rest(w) = all
    BY <1>2 DEF Rest
<1> QED
    BY <1>1, <1>2, <1>3, <1>4 DEF WalkInv, w

\* What every step shows: nobody was given a token (but by a restart), the rows moved
\* as they may, and the invariant holds again.
Preserved == IInv' /\ RowsMove /\ (NothingGiven \/ Restart)

LEMMA MissedStay ==
    ASSUME IInv, RowsMove, NEW b \in Browser,
           missed'[b] = missed[b] \/ missed'[b] = NoOne
    PROVE  missed'[b] # NoOne =>
               /\ drawings'[missed'[b].id] # NoRow
               /\ Owned(missed[b].id, missed[b].user)' => Duel(missed[b].id)'
<1> SUFFICES ASSUME missed'[b] # NoOne
             PROVE  /\ drawings'[missed'[b].id] # NoRow
                    /\ Owned(missed[b].id, missed[b].user)' => Duel(missed[b].id)'
    OBVIOUS
<1>1. missed'[b] = missed[b] /\ missed[b] \in About /\ RowsTyped
    BY DEF IInv, DataInv
<1>2. PICK d \in Drawing : d = missed[b].id
    BY <1>1 DEF About
<1>3. PICK u : u = missed[b].user
    OBVIOUS
<1>4. drawings[d] # NoRow /\ (Owned(d, u) => Duel(d))
    BY <1>1, <1>2, <1>3 DEF IInv, MissedInv
<1>5. drawings'[d] # NoRow /\ (Owned(d, u)' => Duel(d)')
  <2>1. CASE drawings'[d] = drawings[d]
    BY <1>4, <2>1 DEF Owned, Duel, Exists
  <2>2. CASE /\ drawings[d] \in Row /\ drawings'[d] \in Row /\ ~drawings[d].duel
             /\ drawings'[d].owner = drawings[d].owner
    BY <1>4, <2>2, RowsAssumption DEF Owned, Duel, Exists
  <2>3. CASE drawings'[d] = Gone
    BY <2>3, RowsAssumption DEF Owned, Exists
  <2> QED
    BY <1>4, <2>1, <2>2, <2>3 DEF RowsMove
<1> QED
    BY <1>1, <1>2, <1>3, <1>5 DEF Owned, Duel, Exists

LEMMA AllMissedStay ==
    ASSUME IInv, RowsMove, \A b \in Browser : missed'[b] = missed[b] \/ missed'[b] = NoOne
    PROVE  MissedInv'
<1> SUFFICES ASSUME NEW b \in Browser, missed'[b] # NoOne
             PROVE  /\ drawings'[missed'[b].id] # NoRow
                    /\ Owned(missed[b].id, missed[b].user)' => Duel(missed[b].id)'
    BY DEF MissedInv
<1> QED
    BY MissedStay

LEMMA QuietSteps ==
    ASSUME IInv, BucketsInv', NothingGiven \/ Restart, drawings' = drawings, walk' = walk,
           Quiet, users' \subseteq Login, cookie' \in [Browser -> users' \union {NoOne}],
           missed' \in [Browser -> About \union {NoOne}],
           \A b \in Browser : missed'[b] = missed[b] \/ missed'[b] = NoOne
    PROVE  Preserved
<1>1. RowsMove /\ WalksInv'
    BY RowsStay
<1>2. MissedInv'
    BY <1>1, AllMissedStay
<1>3. DataInv'
    BY <1>1 DEF DataInv, RowsMove, IInv
<1>4. AnswersTrue'
    BY DEF AnswersTrue, Quiet
<1> QED
    BY <1>1, <1>2, <1>3, <1>4 DEF Preserved, IInv

LEMMA BucketsStay ==
    ASSUME IInv, UNCHANGED buckets
    PROVE  BucketsInv' /\ NothingGiven
BY DEF IInv, BucketsInv, NothingGiven, Bucket, Full

LEMMA SessionSteps ==
    ASSUME IInv, NEW b \in Browser,
           \/ Nothing(b) \/ LogOut(b) \/ Expire(b)
           \/ \E u \in Login : Register(b, u) \/ LogIn(b, u)
    PROVE  Preserved
<1>1. /\ users \subseteq Login /\ cookie \in [Browser -> users \union {NoOne}]
      /\ missed \in [Browser -> About \union {NoOne}] /\ BucketsInv
    BY DEF IInv, DataInv
<1>2. CASE Nothing(b)
  <2>1. BucketsInv' /\ NothingGiven
    BY <1>1, <1>2, Limiting DEF Nothing
  <2> QED
    BY <1>1, <1>2, <2>1, QuietSteps DEF Nothing
<1>3. CASE LogOut(b) \/ Expire(b)
  <2>1. BucketsInv' /\ NothingGiven
    BY <1>1, <1>3, Limiting, BucketsStay DEF LogOut, Expire
  <2>2. cookie' \in [Browser -> users' \union {NoOne}]
    BY <1>1, <1>3 DEF LogOut, Expire
  <2> QED
    BY <1>1, <1>3, <2>1, <2>2, QuietSteps DEF LogOut, Expire
<1>4. ASSUME NEW u \in Login, Register(b, u) \/ LogIn(b, u)
      PROVE  Preserved
  <2>1. BucketsInv' /\ NothingGiven
    BY <1>1, <1>4, Limiting DEF Register, LogIn
  <2>2. users' \subseteq Login /\ cookie' \in [Browser -> users' \union {NoOne}]
    BY <1>1, <1>4 DEF Register, LogIn
  <2> QED
    BY <1>1, <1>4, <2>1, <2>2, QuietSteps DEF Register, LogIn
<1> QED
    BY <1>2, <1>3, <1>4

LEMMA ReadSteps ==
    ASSUME IInv, NEW b \in Browser, Classify(b) \/ \E d \in Drawing : Get(b, d)
    PROVE  Preserved
<1>1. /\ users \subseteq Login /\ cookie \in [Browser -> users \union {NoOne}]
      /\ missed \in [Browser -> About \union {NoOne}] /\ walk \in [Browser -> WalkType]
      /\ BucketsInv /\ RowsTyped
    BY DEF IInv, DataInv
<1>2. ASSUME BucketsInv', NothingGiven, drawings' = drawings, walk' = walk, users' = users,
             cookie' = cookie, missed' \in [Browser -> About \union {NoOne}],
             \A a \in Browser : missed'[a] = missed[a] \/ missed'[a] = NoOne,
             AnswersTrue'
      PROVE  Preserved
  <2>1. RowsMove /\ WalksInv'
    BY <1>2, RowsStay
  <2>2. MissedInv'
    BY <1>2, <2>1, AllMissedStay
  <2>3. DataInv'
    BY <1>1, <1>2, <2>1 DEF DataInv, RowsMove
  <2> QED
    BY <1>2, <2>1, <2>2, <2>3 DEF Preserved, IInv
<1>3. CASE Classify(b)
  <2>1. BucketsInv' /\ NothingGiven
    BY <1>3, BucketsStay DEF Classify
  <2>2. /\ missed' \in [Browser -> About \union {NoOne}]
        /\ \A a \in Browser : missed'[a] = missed[a] \/ missed'[a] = NoOne
    BY <1>1, <1>3 DEF Classify
  <2>3. AnswersTrue'
    <3>1. PICK code \in {classifyMiss(missed[b].user, missed[b].id), "failed"} :
             Answer(missed[b].user, missed[b].id, code)
      BY <1>3 DEF Classify
    <3>2. /\ answer'.id = missed[b].id /\ answer'.user = missed[b].user
          /\ answer'.code = code /\ drawings' = drawings
      BY <1>3, <3>1 DEF Answer, Classify
    <3>3. code = "conflict" =>
             Owned(missed[b].id, missed[b].user) /\ Duel(missed[b].id)
      BY <1>3, <3>1 DEF classifyMiss, getDrawing, IInv, MissedInv, Classify
    <3>4. code = "not_found" => ~Owned(missed[b].id, missed[b].user)
      BY <3>1 DEF classifyMiss, getDrawing
    <3>5. code # "ok"
      BY <3>1 DEF classifyMiss
    <3> QED
      BY <3>2, <3>3, <3>4, <3>5 DEF AnswersTrue, Owned, Duel, Exists
  <2> QED
    BY <1>2, <1>3, <2>1, <2>2, <2>3 DEF Classify
<1>4. ASSUME NEW d \in Drawing, Get(b, d)
      PROVE  Preserved
  <2>1. BucketsInv' /\ NothingGiven
    BY <1>1, <1>4, Limiting DEF Get, Authorized
  <2>2. AnswersTrue'
    <3>1. /\ answer'.id = d /\ answer'.user = cookie[b] /\ drawings' = drawings
          /\ answer'.code = IF Owned(d, cookie[b]) THEN "ok" ELSE "not_found"
      BY <1>4 DEF Get, Answer, getDrawing
    <3> QED
      BY <3>1 DEF AnswersTrue, Owned, Duel, Exists
  <2> QED
    BY <1>1, <1>2, <1>4, <2>1, <2>2 DEF Get
<1> QED
    BY <1>3, <1>4

LEMMA DrawingSteps ==
    ASSUME IInv, (\E b \in Browser : Create(b)) \/ (\E u \in Login : Submit(u))
    PROVE  Preserved
<1>1. /\ users \subseteq Login /\ cookie \in [Browser -> users \union {NoOne}]
      /\ missed \in [Browser -> About \union {NoOne}] /\ BucketsInv
    BY DEF IInv, DataInv
<1>2. ASSUME NEW u \in Login, NEW d \in Drawing, NEW at \in Instant, NEW duel \in BOOLEAN,
             createDrawing(u, d, at, duel), walk' = walk, BucketsInv', NothingGiven,
             UNCHANGED <<users, cookie, missed>>, Quiet
      PROVE  Preserved
  <2>1. RowsMove /\ walk' \in [Browser -> WalkType] /\ WalksInv'
    BY <1>2, Drawn
  <2>2. MissedInv'
    BY <1>2, <2>1, AllMissedStay
  <2>3. DataInv'
    BY <1>1, <1>2, <2>1 DEF DataInv, RowsMove
  <2>4. AnswersTrue'
    BY <1>2 DEF AnswersTrue, Quiet
  <2> QED
    BY <1>2, <2>1, <2>2, <2>3, <2>4 DEF Preserved, IInv
<1>3. ASSUME NEW b \in Browser, Create(b)
      PROVE  Preserved
  <2>1. BucketsInv' /\ NothingGiven
    BY <1>1, <1>3, Limiting DEF Create, Authorized
  <2>2. cookie[b] \in Login
    BY <1>1, <1>3 DEF Create, Authorized
  <2> QED
    BY <1>2, <1>3, <2>1, <2>2 DEF Create
<1>4. ASSUME NEW u \in Login, Submit(u)
      PROVE  Preserved
  <2>1. BucketsInv' /\ NothingGiven
    BY <1>4, BucketsStay DEF Submit
  <2> QED
    BY <1>2, <1>4, <2>1 DEF Submit
<1> QED
    BY <1>3, <1>4

\* A write that misses has a row that is not the caller's, or a submission.
LEMMA WriteSteps ==
    ASSUME IInv, NEW b \in Browser, NEW d \in Drawing, Update(b, d) \/ Delete(b, d)
    PROVE  Preserved
<1>1. /\ users \subseteq Login /\ cookie \in [Browser -> users \union {NoOne}]
      /\ missed \in [Browser -> About \union {NoOne}] /\ walk \in [Browser -> WalkType]
      /\ BucketsInv /\ RowsTyped
    BY DEF IInv, DataInv
<1>2. /\ BucketsInv' /\ NothingGiven /\ users' = users /\ cookie' = cookie
      /\ cookie[b] \in Login /\ drawings[d] # NoRow
    BY <1>1, Limiting DEF Update, Delete, Authorized
<1>3. CASE Writable(d, cookie[b])
  <2>1. drawings[d] \in Row /\ ~drawings[d].duel
    BY <1>1, <1>3, RowsTold DEF Writable, Owned, Duel
  <2>2. missed' = missed
    BY <1>3 DEF Update, Delete
  <2>3. PICK r \in Row \union {Gone} : drawings' = [drawings EXCEPT ![d] = r]
    <3>1. CASE drawings' = [drawings EXCEPT ![d].updated = TRUE]
      <4>1. [drawings[d] EXCEPT !.updated = TRUE] \in Row
        BY <2>1 DEF Row
      <4> QED
        BY <3>1, <4>1
    <3>2. CASE drawings' = [drawings EXCEPT ![d] = Gone]
      BY <3>2
    <3> QED
      BY <1>3, <3>1, <3>2 DEF Update, Delete, updateDrawing, deleteDrawing
  <2>4. /\ \A e \in Drawing \ {d} : drawings'[e] = drawings[e]
        /\ RowsTyped' /\ drawings'[d] = r
    BY <1>1, <2>3 DEF RowsTyped
  <2>5. CASE Update(b, d)
    <3>1. drawings'[d] = [drawings[d] EXCEPT !.updated = TRUE] /\ walk' = walk
      BY <1>1, <1>3, <2>5 DEF Update, updateDrawing, RowsTyped
    <3>2. /\ drawings'[d] \in Row /\ drawings'[d].owner = drawings[d].owner
          /\ drawings'[d].at = drawings[d].at /\ drawings'[d].duel = drawings[d].duel
      BY <2>1, <3>1 DEF Row
    <3>3. RowsMove /\ drawings'[d] # Gone
      BY <2>1, <2>4, <3>2, RowsAssumption DEF RowsMove
    <3>4. walk' \in [Browser -> WalkType] /\ WalksInv'
      BY <2>4, <3>1, <3>3, WalksMove
    <3>5. MissedInv'
      BY <2>2, <3>3, AllMissedStay
    <3>6. AnswersTrue'
      <4>1. answer'.code = "ok" /\ answer'.id = d /\ answer'.user = cookie[b]
        BY <1>3, <2>5 DEF Update, Answer
      <4>2. Owned(d, cookie[b])'
        BY <1>2, <1>3, <3>2, RowsAssumption DEF Writable, Owned, Exists
      <4> QED
        BY <1>2, <4>1, <4>2 DEF AnswersTrue, Owned, Exists
    <3> QED
      BY <1>1, <1>2, <2>2, <2>4, <3>3, <3>4, <3>5, <3>6 DEF Preserved, IInv, DataInv
  <2>6. CASE Delete(b, d)
    <3>1. drawings'[d] = Gone /\ walk' = [w \in Browser |-> [walk[w] EXCEPT !.owed = @ \ {d}]]
      BY <1>1, <1>3, <2>6 DEF Delete, deleteDrawing, RowsTyped
    <3>2. RowsMove
      BY <2>1, <2>4, <3>1 DEF RowsMove
    <3>3. walk' \in [Browser -> WalkType] /\ WalksInv'
      BY <2>4, <3>1, <3>2, WalksMove
    <3>4. MissedInv'
      BY <2>2, <3>2, AllMissedStay
    <3>5. AnswersTrue'
      <4>1. answer'.code = "ok" /\ answer'.id = d
        BY <1>3, <2>6 DEF Delete, Answer
      <4> QED
        BY <3>1, <4>1 DEF AnswersTrue
    <3> QED
      BY <1>1, <1>2, <2>2, <2>4, <3>2, <3>3, <3>4, <3>5 DEF Preserved, IInv, DataInv
  <2> QED
    BY <2>5, <2>6
<1>4. CASE ~Writable(d, cookie[b])
  <2>1. Miss(b, d)
    BY <1>4 DEF Update, Delete
  <2>2. RowsMove /\ WalksInv' /\ drawings' = drawings /\ walk' = walk
    BY <2>1, RowsStay DEF Miss
  <2> DEFINE m == [user |-> cookie[b], id |-> d]
  <2>3. m \in About /\ m.user = cookie[b] /\ m.id = d
    BY <1>2 DEF About
  <2>4. missed' = [missed EXCEPT ![b] = m]
    BY <2>1 DEF Miss
  <2>5. Owned(d, cookie[b]) => Duel(d)
    BY <1>4 DEF Writable
  <2> HIDE DEF m
  <2>6. missed' \in [Browser -> About \union {NoOne}]
    BY <1>1, <2>3, <2>4
  <2>7. MissedInv'
    <3> SUFFICES ASSUME NEW a \in Browser, missed'[a] # NoOne
                 PROVE  /\ drawings'[missed'[a].id] # NoRow
                        /\ Owned(missed[a].id, missed[a].user)' => Duel(missed[a].id)'
      BY DEF MissedInv
    <3>1. CASE a = b
      <4>1. missed'[a] = m
        BY <1>1, <2>4, <3>1
      <4> QED
        BY <1>2, <2>2, <2>3, <2>5, <4>1 DEF Owned, Duel, Exists
    <3>2. CASE a # b
      <4>1. missed'[a] = missed[a]
        BY <1>1, <2>4, <3>2
      <4> QED
        BY <2>2, <4>1, MissedStay
    <3> QED
      BY <3>1, <3>2
  <2>8. DataInv'
    BY <1>1, <1>2, <2>2, <2>6 DEF DataInv, RowsMove
  <2>9. AnswersTrue'
    BY <2>1 DEF AnswersTrue, Miss, Quiet
  <2> QED
    BY <1>2, <2>2, <2>7, <2>8, <2>9 DEF Preserved, IInv
<1> QED
    BY <1>3, <1>4

LEMMA ListSteps ==
    ASSUME IInv, NEW b \in Browser, List(b)
    PROVE  Preserved
<1>1. /\ users \subseteq Login /\ cookie \in [Browser -> users \union {NoOne}]
      /\ missed \in [Browser -> About \union {NoOne}] /\ walk \in [Browser -> WalkType]
      /\ BucketsInv /\ RowsTyped /\ WalksInv
    BY DEF IInv, DataInv
<1>2. /\ BucketsInv' /\ NothingGiven /\ cookie[b] \in Login
      /\ UNCHANGED <<drawings, users, cookie, missed>> /\ Quiet
    BY <1>1, Limiting DEF List, Authorized
<1>3. PICK w \in {Begun(cookie[b], kind) : kind \in Kinds} \union {walk[b]} :
         /\ w.user = cookie[b] /\ ~w.done
         /\ walk' = [walk EXCEPT ![b] =
                        Shown(w, listDrawings(w.user, w.kind, w.cursor, PageLimit))]
    BY DEF List
<1>4. w \in WalkType /\ WalkInv(w)
    BY <1>1, <1>2, <1>3, Starting DEF WalksInv
<1>5. PICK v : v = Shown(w, listDrawings(w.user, w.kind, w.cursor, PageLimit))
    OBVIOUS
<1>6. v \in WalkType /\ WalkInv(v)
    BY <1>1, <1>3, <1>4, <1>5, Turned
<1>7. walk' = [walk EXCEPT ![b] = v]
    BY <1>3, <1>5
<1>8. walk' \in [Browser -> WalkType] /\ \A a \in Browser : WalkInv(walk'[a])
    BY <1>1, <1>6, <1>7 DEF WalksInv
<1>9. WalksInv'
    BY <1>2, <1>8 DEF WalksInv, WalkInv, Rest, Listed, Owned, OfKind, Duel, Cursor, Exists
<1>10. RowsMove
    BY <1>1, <1>2 DEF RowsMove, RowsTyped
<1>11. MissedInv'
    BY <1>2, <1>10, AllMissedStay
<1>12. AnswersTrue'
    BY <1>2 DEF AnswersTrue, Quiet
<1> QED
    BY <1>1, <1>2, <1>8, <1>9, <1>10, <1>11, <1>12 DEF Preserved, IInv, DataInv, RowsMove

LEMMA ClockSteps ==
    ASSUME IInv, Tick \/ Restart \/ \E l \in Limiter : Sweep(l)
    PROVE  Preserved
<1>1. /\ users \subseteq Login /\ cookie \in [Browser -> users \union {NoOne}]
      /\ missed \in [Browser -> About \union {NoOne}] /\ BucketsInv
    BY DEF IInv, DataInv
<1>2. CASE Tick
    BY <1>1, <1>2, Aging, QuietSteps DEF Tick
<1>3. ASSUME NEW l \in Limiter, Sweep(l)
      PROVE  Preserved
    BY <1>1, <1>3, Sweeping, QuietSteps DEF Sweep
<1>4. CASE Restart
  <2>1. BucketsInv'
    <3>1. /\ buckets' = [l \in Limiter |-> buckets'[l]]
          /\ \A l \in Limiter : buckets'[l] = [k \in {} |-> k]
      BY <1>4 DEF Restart
    <3>2. \A l \in Limiter : DOMAIN buckets'[l] = {}
      BY <3>1
    <3>3. IsFiniteSet({}) /\ Cardinality({}) = 0 /\ 0 <= MaxBuckets
      BY FS_EmptySet, Limits
    <3>4. \A l \in Limiter : buckets'[l] = [k \in DOMAIN buckets'[l] |-> buckets'[l][k]]
      BY <3>1
    <3>5. \A l \in Limiter : /\ IsFiniteSet(DOMAIN buckets'[l])
                             /\ Cardinality(DOMAIN buckets'[l]) <= MaxBuckets
      BY <3>2, <3>3
    <3> QED
      BY <3>1, <3>2, <3>4, <3>5 DEF BucketsInv
  <2>2. missed' \in [Browser -> About \union {NoOne}] /\ \A a \in Browser : missed'[a] = NoOne
    BY <1>4 DEF Restart
  <2> QED
    BY <1>1, <1>4, <2>1, <2>2, QuietSteps DEF Restart
<1> QED
    BY <1>2, <1>3, <1>4

(***************************************************************************)
(* The theorems.                                                           *)
(***************************************************************************)
LEMMA InitIInv ==
    Init => IInv
<1> SUFFICES ASSUME Init PROVE IInv
    OBVIOUS
<1>1. BucketsInv
  <2>1. /\ buckets = [l \in Limiter |-> buckets[l]]
        /\ \A l \in Limiter : buckets[l] = [k \in {} |-> k]
    BY DEF Init
  <2>2. \A l \in Limiter : DOMAIN buckets[l] = {}
    BY <2>1
  <2>3. IsFiniteSet({}) /\ Cardinality({}) = 0 /\ 0 <= MaxBuckets
    BY FS_EmptySet, Limits
  <2>4. \A l \in Limiter : buckets[l] = [k \in DOMAIN buckets[l] |-> buckets[l][k]]
    BY <2>1
  <2>5. \A l \in Limiter : /\ IsFiniteSet(DOMAIN buckets[l])
                           /\ Cardinality(DOMAIN buckets[l]) <= MaxBuckets
    BY <2>2, <2>3
  <2> QED
    BY <2>1, <2>2, <2>4, <2>5 DEF BucketsInv
<1>2. NoWalk \in WalkType /\ WalkInv(NoWalk)
  <2>1. NoWalk \in WalkType
    BY DEF NoWalk, WalkType, CursorType, Kinds
  <2>2. /\ NoWalk.got = {} /\ NoWalk.owed = {} /\ ~NoWalk.again /\ ~NoWalk.done
    BY DEF NoWalk
  <2> QED
    BY <2>1, <2>2 DEF WalkInv
<1>3. DataInv
    BY <1>2 DEF Init, DataInv, RowsTyped
<1>4. WalksInv
    BY <1>2 DEF Init, WalksInv
<1>5. MissedInv /\ AnswersTrue
    BY DEF Init, MissedInv, AnswersTrue
<1> QED
    BY <1>1, <1>3, <1>4, <1>5 DEF IInv

LEMMA NextPreserved ==
    IInv /\ Next => Preserved
BY SessionSteps, ReadSteps, DrawingSteps, WriteSteps, ListSteps, ClockSteps DEF Next

LEMMA NextIInv ==
    IInv /\ [Next]_vars => IInv'
<1> SUFFICES ASSUME IInv, [Next]_vars
             PROVE  IInv'
    OBVIOUS
<1>1. CASE Next
    BY <1>1, NextPreserved DEF Preserved
<1>2. CASE UNCHANGED vars
  <2>1. BucketsInv'
    BY <1>2, BucketsStay DEF vars
  <2>2. RowsMove /\ WalksInv'
    BY <1>2, RowsStay DEF vars
  <2>3. MissedInv'
    BY <1>2, <2>2, AllMissedStay DEF vars
  <2>4. DataInv'
    BY <1>2, <2>2 DEF vars, IInv, DataInv, RowsMove
  <2>5. AnswersTrue'
    BY <1>2 DEF vars, IInv, AnswersTrue, Owned, Duel, Exists
  <2> QED
    BY <2>1, <2>2, <2>3, <2>4, <2>5 DEF IInv
<1> QED
    BY <1>1, <1>2

LEMMA SpecIInv ==
    Spec => []IInv
BY InitIInv, NextIInv, PTL DEF Spec

\* The tables hold rows of accounts that exist, sessions are of registered people, and no
\* limiter tracks more keys than its cap, however many clients come (ratelimit.Allow).
THEOREM ApiTypes ==
    Spec => []TypeOK
<1>1. IInv => TypeOK
    BY DEF IInv, BucketsInv, DataInv, RowsTyped, TypeOK
<1> QED
    BY <1>1, SpecIInv, PTL

\* The limiters key by the address the proxy saw: whatever X-Forwarded-For said before it
\* (httpx.ClientIP), no bucket is of an address that is not a client's.
THEOREM KeysAlwaysClients ==
    Spec => []KeysAreClients
<1>1. IInv => KeysAreClients
    BY DEF IInv, BucketsInv, KeysAreClients
<1> QED
    BY <1>1, SpecIInv, PTL

\* The sweeper and the eviction at the cap drop only buckets that had filled up, so
\* forgetting a client gives it nothing; only a restart of the process does.
THEOREM AlwaysForgottenWhenFull ==
    Spec => ForgottenWhenFull
<1>1. IInv /\ [Next]_vars =>
        [\A l \in Limiter : \A k \in DOMAIN buckets[l] :
            k \in DOMAIN buckets'[l] \/ Filled(l, buckets[l][k]) = Full(l)
            \/ Restart]_vars
    BY NextPreserved DEF Preserved, NothingGiven
<1> QED
    BY <1>1, SpecIInv, PTL DEF Spec, ForgottenWhenFull

\* A 409 is only said of the caller's own submission, a 404 that was read only of what is
\* not the caller's, and a 200 of what is, though the write that missed and the look that
\* tells why are two queries (drawings.classifyMiss).
THEOREM AnswersAlwaysTrue ==
    Spec => []AnswersTrue
<1>1. IInv => AnswersTrue
    BY DEF IInv
<1> QED
    BY <1>1, SpecIInv, PTL

\* Keyset paging over (created_at, id) is complete and repeats nothing, for any table, page
\* size and number of walks, while others create, submit and delete (drawings.List).
THEOREM WalksAlwaysComplete ==
    Spec => []WalkComplete
<1>1. IInv => WalkComplete
    BY DEF IInv, WalksInv, WalkInv, WalkComplete
<1> QED
    BY <1>1, SpecIInv, PTL
=============================================================================
