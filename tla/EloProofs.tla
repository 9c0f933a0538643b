------------------------------ MODULE EloProofs ------------------------------
(* Proofs about the rating arithmetic, for any two integer ratings.        *)
EXTENDS Elo, Functions, FiniteSetTheorems, WellFoundedInduction, TLAPS

LEMMA eloKType == eloK \in Nat /\ eloK = 32
BY DEF eloK

LEMMA StepsFinite == IsFiniteSet(1..eloK) /\ Cardinality(1..eloK) = eloK
<1>1. eloK \in Int /\ 1 \in Int /\ ~(1 > eloK)
    BY eloKType
<1>2. Cardinality(1..eloK) = eloK - 1 + 1
    BY <1>1, FS_Interval
<1> QED
    BY <1>1, <1>2, FS_Interval

(* The steps of the table mirror each other around a difference of -1/2,   *)
(* as 1 / (1 + 10^x) and 1 / (1 + 10^-x) add up to one.                    *)
LEMMA WinBandMirrors ==
    \A k \in 1..eloK :
        /\ eloK + 1 - k \in 1..eloK
        /\ WinBand[k] \in Int
        /\ WinBand[eloK + 1 - k] = -WinBand[k] - 1
<1>1. ASSUME NEW k \in 1..32
      PROVE  /\ 33 - k \in 1..32
             /\ WinBand[k] \in Int
             /\ WinBand[33 - k] = -WinBand[k] - 1
  <2>1. CASE k \in 1..8
    BY <2>1 DEF WinBand
  <2>2. CASE k \in 9..16
    BY <2>2 DEF WinBand
  <2>3. CASE k \in 17..24
    BY <2>3 DEF WinBand
  <2>4. CASE k \in 25..32
    BY <2>4 DEF WinBand
  <2> QED
    BY <2>1, <2>2, <2>3, <2>4
<1> QED
    BY <1>1, eloKType

(* What the favourite wins and what the other side would win add up to K.  *)
LEMMA WinGainMirrors ==
    ASSUME NEW d \in Int
    PROVE  /\ WinGain(d) \in 0..eloK /\ WinGain(-d) \in 0..eloK
           /\ WinGain(d) + WinGain(-d) = eloK
<1> DEFINE above == {k \in 1..eloK : d <= WinBand[k]}
           below == {k \in 1..eloK : -d <= WinBand[k]}
           rest == (1..eloK) \ above
           flip == [k \in below |-> eloK + 1 - k]
<1>1. IsFiniteSet(1..eloK) /\ Cardinality(1..eloK) = eloK
    BY StepsFinite
<1>2. /\ IsFiniteSet(above) /\ IsFiniteSet(below) /\ IsFiniteSet(rest)
      /\ Cardinality(above) \in Nat /\ Cardinality(below) \in Nat /\ Cardinality(rest) \in Nat
    BY <1>1, FS_Subset, FS_CardinalityType
<1>3. Cardinality(rest) = eloK - Cardinality(above)
  <2>1. (1..eloK) \cap above = above
    OBVIOUS
  <2>2. Cardinality(rest) = Cardinality(1..eloK) - Cardinality((1..eloK) \cap above)
    BY <1>1, FS_Difference
  <2> QED
    BY <1>1, <2>1, <2>2
<1>4. flip \in Bijection(below, rest)
  <2>1. \A k \in below : flip[k] \in rest
    BY WinBandMirrors, eloKType
  <2>2. \A k, l \in below : flip[k] = flip[l] => k = l
    BY eloKType
  <2>3. ASSUME NEW l \in rest
        PROVE  \E k \in below : flip[k] = l
    <3>1. /\ eloK + 1 - l \in 1..eloK /\ WinBand[l] \in Int
          /\ WinBand[eloK + 1 - l] = -WinBand[l] - 1 /\ ~(d <= WinBand[l])
        BY WinBandMirrors
    <3>2. eloK + 1 - l \in below
        BY <3>1
    <3>3. flip[eloK + 1 - l] = l
        BY <3>2, eloKType
    <3> QED
        BY <3>2, <3>3
  <2> QED
    BY <2>1, <2>2, <2>3 DEF Bijection, Injection, Surjection, IsInjective
<1>5. Cardinality(rest) = Cardinality(below)
    BY <1>2, <1>4, FS_Bijection DEF ExistsBijection
<1> QED
    BY <1>2, <1>3, <1>5, eloKType DEF WinGain

(* The delta of one seat is minus the delta of the other, and never more   *)
(* than K, although each side is rounded on its own (elo.go computeElo).   *)
THEOREM GainsMirror ==
    ASSUME NEW d \in Int, NEW s \in Score
    PROVE  /\ EloGain(d, s) \in -eloK..eloK
           /\ EloGain(-d, Opposite(s)) = -EloGain(d, s)
<1>1. /\ WinGain(d) \in 0..eloK /\ WinGain(-d) \in 0..eloK
      /\ WinGain(d) + WinGain(-d) = eloK /\ -(-d) = d
    BY WinGainMirrors
<1>2. CASE s = "win"
    BY <1>1, <1>2, eloKType DEF EloGain, Opposite
<1>3. CASE s = "loss"
    BY <1>1, <1>3, eloKType DEF EloGain, Opposite
<1>4. CASE s = "tie"
  <2>1. eloK \div 2 = 16
    BY DEF eloK
  <2> QED
    BY <1>1, <1>4, <2>1, eloKType DEF EloGain, Opposite
<1> QED
    BY <1>2, <1>3, <1>4 DEF Score

(* No match makes or loses a point of rating (elo.go computeElo).          *)
THEOREM EloKeepsTheSum ==
    ASSUME NEW ra \in Int, NEW rb \in Int, NEW s \in Score
    PROVE  computeElo(ra, rb, s)[1] + computeElo(ra, rb, s)[2] = ra + rb
<1>1. rb - ra = -(ra - rb) /\ ra - rb \in Int
    OBVIOUS
<1>2. /\ EloGain(ra - rb, s) \in -eloK..eloK
      /\ EloGain(rb - ra, Opposite(s)) = -EloGain(ra - rb, s)
    BY <1>1, GainsMirror
<1> QED
    BY <1>2, eloKType DEF computeElo

-----------------------------------------------------------------------------
(* Sums over a finite set of matches: SumFunction, by induction on the     *)
(* number of its elements.                                                 *)

Pick(s) == CHOOSE x \in s : TRUE

(* What one step of the sum over s makes of the sums it of smaller sets.   *)
OneMore(f, it, s) == IF s = {} THEN 0 ELSE f[Pick(s)] + it[s \ {Pick(s)}]

Summing(f, S, it) == it = [s \in SUBSET S |-> OneMore(f, it, s)]

LEMMA LeastNat ==
    ASSUME NEW N, N \subseteq Nat, N # {}
    PROVE  \E n \in N : \A k \in N : n <= k
<1>1. PICK n \in N : \A k \in N : ~(<<k, n>> \in OpToRel(<, Nat))
    BY WFMin, NatLessThanWellFounded
<1>2. \A k \in N : ~(k < n)
    BY <1>1 DEF OpToRel
<1> QED
    BY <1>2

LEMMA PickFewer ==
    ASSUME NEW s, IsFiniteSet(s), s # {}
    PROVE  /\ Pick(s) \in s /\ s \ {Pick(s)} \subseteq s
           /\ IsFiniteSet(s \ {Pick(s)})
           /\ Cardinality(s) \in Nat /\ Cardinality(s \ {Pick(s)}) \in Nat
           /\ Cardinality(s \ {Pick(s)}) + 1 = Cardinality(s)
<1>1. Pick(s) \in s
    BY DEF Pick
<1> QED
    BY <1>1, FS_RemoveElement, FS_CardinalityType, FS_Subset

LEMMA SummingExists ==
    ASSUME NEW f, NEW S, IsFiniteSet(S)
    PROVE  \E it : Summing(f, S, it)
<1> DEFINE Upto(n, it) == /\ it \in [SUBSET S -> {it[s] : s \in SUBSET S}]
                          /\ \A s \in SUBSET S : Cardinality(s) <= n => it[s] = OneMore(f, it, s)
           Bad == {n \in Nat : ~ \E it : Upto(n, it)}
           n0 == Cardinality(S)
<1>0. \A s \in SUBSET S : IsFiniteSet(s) /\ Cardinality(s) \in Nat /\ Cardinality(s) <= n0
    BY FS_Subset, FS_CardinalityType
<1>1. Bad = {}
  <2> SUFFICES ASSUME Bad # {} PROVE FALSE
    OBVIOUS
  <2>1. PICK n \in Bad : \A k \in Bad : n <= k
    BY LeastNat
  <2>2. CASE n = 0
    <3> DEFINE it == [s \in SUBSET S |-> 0]
    <3>1. \A s \in SUBSET S : Cardinality(s) <= 0 => s = {}
      BY <1>0, FS_EmptySet
    <3>2. Upto(0, it)
      BY <3>1 DEF OneMore
    <3> QED
      BY <2>2, <3>2
  <2>3. CASE n # 0
    <3>1. n - 1 \in Nat /\ n - 1 \notin Bad
      <4> HIDE DEF Bad
      <4>1. n \in Nat
        BY DEF Bad
      <4> QED
        BY <2>1, <2>3, <4>1
    <3>2. PICK g : Upto(n - 1, g)
      BY <3>1
    <3> DEFINE it == [s \in SUBSET S |-> OneMore(f, g, s)]
    <3>3. ASSUME NEW s \in SUBSET S, Cardinality(s) <= n
          PROVE  it[s] = OneMore(f, it, s)
      <4>1. it[s] = OneMore(f, g, s)
        OBVIOUS
      <4>2. CASE s = {}
        BY <4>1, <4>2 DEF OneMore
      <4>3. CASE s # {}
        <5> DEFINE t == s \ {Pick(s)}
        <5>1. t \in SUBSET S /\ Cardinality(t) <= n - 1
          BY <1>0, <3>1, <3>3, <4>3, PickFewer
        <5>2. g[t] = OneMore(f, g, t) /\ it[t] = OneMore(f, g, t)
          BY <3>2, <5>1
        <5> HIDE DEF it
        <5> QED
          BY <4>1, <4>3, <5>2 DEF OneMore
      <4> QED
        BY <4>2, <4>3
    <3>4. Upto(n, it)
      BY <3>3
    <3> QED
      BY <3>4, <2>1
  <2> QED
    BY <2>2, <2>3
<1>2. PICK it : Upto(n0, it)
    BY <1>0, <1>1
<1>3. it = [s \in SUBSET S |-> OneMore(f, it, s)]
    BY <1>0, <1>2
<1> QED
    BY <1>3 DEF Summing

LEMMA SumIsSumming ==
    ASSUME NEW f, NEW S, IsFiniteSet(S)
    PROVE  \E it : Summing(f, S, it) /\ SumFunctionOnSet(f, S) = it[S]
<1> DEFINE it == CHOOSE i : i = [s \in SUBSET S |->
    IF s = {} THEN 0 ELSE f[CHOOSE x \in s : TRUE] + i[s \ {CHOOSE x \in s : TRUE}]]
<1>1. Summing(f, S, it)
  <2>1. \E i : i = [s \in SUBSET S |->
    IF s = {} THEN 0 ELSE f[CHOOSE x \in s : TRUE] + i[s \ {CHOOSE x \in s : TRUE}]]
    <3>1. PICK i : Summing(f, S, i)
      BY SummingExists
    <3>2. i = [s \in SUBSET S |->
    IF s = {} THEN 0 ELSE f[CHOOSE x \in s : TRUE] + i[s \ {CHOOSE x \in s : TRUE}]]
      BY <3>1 DEF Summing, OneMore, Pick
    <3> QED
      BY <3>2
  <2>2. it = [s \in SUBSET S |->
    IF s = {} THEN 0 ELSE f[CHOOSE x \in s : TRUE] + it[s \ {CHOOSE x \in s : TRUE}]]
    BY <2>1
  <2> QED
    BY <2>2 DEF Summing, OneMore, Pick
<1>2. SumFunctionOnSet(f, S) = it[S]
   BY DEF SumFunctionOnSet, FoldFunctionOnSet, MapThenFoldSet
<1> QED BY <1>1, <1>2

(* Two sums over one set: what differs at one element differs in the sum. *)
LEMMA SummingTwo ==
    ASSUME NEW S, IsFiniteSet(S), NEW f \in [S -> Int], NEW g \in [S -> Int], NEW m \in S,
           \A x \in S \ {m} : f[x] = g[x],
           NEW it, Summing(f, S, it), NEW jt, Summing(g, S, jt),
           NEW s \in SUBSET S
    PROVE  /\ it[s] \in Int /\ jt[s] \in Int
           /\ jt[s] = it[s] + (IF m \in s THEN g[m] - f[m] ELSE 0)
<1> DEFINE Fine(t) == /\ it[t] \in Int /\ jt[t] \in Int
                      /\ jt[t] = it[t] + (IF m \in t THEN g[m] - f[m] ELSE 0)
           Bad == {Cardinality(t) : t \in {u \in SUBSET S : ~Fine(u)}}
<1>0. \A t \in SUBSET S : IsFiniteSet(t) /\ Cardinality(t) \in Nat
    BY FS_Subset, FS_CardinalityType
<1>1. SUFFICES ASSUME ~Fine(s) PROVE FALSE
    OBVIOUS
<1>2. Bad \subseteq Nat /\ Bad # {}
    BY <1>0, <1>1
<1>3. PICK n \in Bad : \A k \in Bad : n <= k
    BY <1>2, LeastNat
<1>4. PICK t \in SUBSET S : ~Fine(t) /\ \A u \in SUBSET S : Cardinality(u) < Cardinality(t) => Fine(u)
  <2>1. PICK t \in SUBSET S : ~Fine(t) /\ n = Cardinality(t)
    BY <1>3
  <2>2. \A u \in SUBSET S : ~Fine(u) => n <= Cardinality(u)
    BY <1>3
  <2> HIDE DEF Fine
  <2> QED
    BY <1>0, <2>1, <2>2
<1>5. it[t] = OneMore(f, it, t) /\ jt[t] = OneMore(g, jt, t)
    BY DEF Summing
<1>6. CASE t = {}
    BY <1>4, <1>5, <1>6 DEF OneMore
<1>7. CASE t # {}
  <2> DEFINE x == Pick(t)
             u == t \ {x}
  <2>1. x \in t /\ x \in S /\ u \in SUBSET S /\ Cardinality(u) < Cardinality(t)
    BY <1>0, <1>7, PickFewer
  <2>2. Fine(u)
    BY <1>4, <2>1
  <2>3. it[t] = f[x] + it[u] /\ jt[t] = g[x] + jt[u]
    BY <1>5, <1>7 DEF OneMore
  <2>4. f[x] \in Int /\ g[x] \in Int /\ f[m] \in Int /\ g[m] \in Int
    BY <2>1
  <2>5. x = m => m \notin u /\ m \in t
    BY <2>1
  <2>6. x # m => f[x] = g[x] /\ (m \in u <=> m \in t)
    BY <2>1
  <2> HIDE DEF x, u
  <2>7. Fine(t)
    BY <2>2, <2>3, <2>4, <2>5, <2>6
  <2> QED
    BY <1>4, <2>7
<1> QED
    BY <1>6, <1>7

LEMMA SumChange ==
    ASSUME NEW S, IsFiniteSet(S), NEW f \in [S -> Int], NEW g \in [S -> Int], NEW m \in S,
           \A x \in S \ {m} : f[x] = g[x]
    PROVE  /\ SumFunction(f) \in Int
           /\ SumFunction(g) = SumFunction(f) + g[m] - f[m]
<1>1. PICK it : Summing(f, S, it) /\ SumFunctionOnSet(f, S) = it[S]
    BY SumIsSumming
<1>2. PICK jt : Summing(g, S, jt) /\ SumFunctionOnSet(g, S) = jt[S]
    BY SumIsSumming
<1>3. /\ it[S] \in Int /\ jt[S] \in Int
      /\ jt[S] = it[S] + (IF m \in S THEN g[m] - f[m] ELSE 0)
    BY <1>1, <1>2, SummingTwo
<1>4. f[m] \in Int /\ g[m] \in Int /\ S \in SUBSET S
    OBVIOUS
<1>5. SumFunction(f) = it[S] /\ SumFunction(g) = jt[S]
    BY <1>1, <1>2 DEF SumFunction
<1> QED
    BY <1>3, <1>4, <1>5

LEMMA SumOfNothing ==
    ASSUME NEW S, IsFiniteSet(S), NEW f \in [S -> Int], \A x \in S : f[x] = 0
    PROVE  SumFunction(f) = 0
<1>1. PICK it : Summing(f, S, it) /\ SumFunctionOnSet(f, S) = it[S]
    BY SumIsSumming
<1> DEFINE Bad == {Cardinality(t) : t \in {u \in SUBSET S : it[u] # 0}}
<1>2. \A t \in SUBSET S : IsFiniteSet(t) /\ Cardinality(t) \in Nat
    BY FS_Subset, FS_CardinalityType
<1>3. ASSUME it[S] # 0
      PROVE  FALSE
  <2>1. Bad \subseteq Nat /\ Bad # {}
    BY <1>2, <1>3
  <2>2. PICK n \in Bad : \A k \in Bad : n <= k
    BY <2>1, LeastNat
  <2>3. PICK t \in SUBSET S : it[t] # 0 /\ n = Cardinality(t)
    BY <2>2
  <2>4. it[t] = OneMore(f, it, t)
    BY <1>1 DEF Summing
  <2>5. t # {}
    BY <2>3, <2>4 DEF OneMore
  <2>6. /\ Pick(t) \in S /\ t \ {Pick(t)} \in SUBSET S
        /\ Cardinality(t \ {Pick(t)}) < Cardinality(t)
    BY <1>2, <2>5, PickFewer
  <2>7. it[t \ {Pick(t)}] = 0
    BY <1>2, <2>2, <2>3, <2>6
  <2> QED
    BY <2>3, <2>4, <2>5, <2>6, <2>7 DEF OneMore
<1> QED
    BY <1>1, <1>3 DEF SumFunction
=============================================================================
