----------------------------- MODULE AICallProofs -----------------------------
(***************************************************************************)
(* Proofs about AICall, for any number of players, calls and judging       *)
(* passes, any environment the server boots with and any bound on what     *)
(* runs at once: the allowance, the ceiling and the completeness of the    *)
(* ledger.                                                                 *)
(***************************************************************************)
EXTENDS AICallProperties, FiniteSetTheorems, TLAPS

LEMMA Ceilings ==
    /\ Env.aiDailyGlobal \in Int
    /\ \A k \in AllKinds : PerUser(Env)[k] \in Int
<1>1. \A k \in AllKinds : DefaultPerUser[k] \in Int
    BY DEF DefaultPerUser, AllKinds
<1> QED
    BY <1>1, EnvAssumption DEF PerUser

(***************************************************************************)
(* The inductive invariant.  The allowance and the ceiling carry over a    *)
(* step because a row written is a call less that has room pending.        *)
(***************************************************************************)
Runs == {"none", "attempted", "scored"}

Opened == {c \in Call : Open(c)}
SoloCalls(p) == {r \in ProviderCalls(p) : r.kind \in Solo}

\* What the bounds of the model allow at once.
Bounds ==
    /\ Cardinality(Opened) <= MaxOpen
    /\ \A u \in Player, k \in AllKinds : Cardinality(OpenOf(u, k)) <= MaxParallel

MadeCounted == \A r \in made : InWindow(r) => r \in ledger

Paired ==
    \A r \in ledger : r.kind \in Solo =>
        \E s \in ledger : /\ s.call = r.call /\ s.kind = r.kind /\ s.at = r.at
                          /\ (s.user = Nobody) # (r.user = Nobody)

Made(c) == \E r \in made : r.call = c
ScoredMade == \A c \in Call : runs[c] = "scored" /\ Budgeted("practice") => Made(c)

\* A stage is reached by the calls of some kinds only.
Fits(q) ==
    /\ q.stage \notin {"new", "ended"} => q.user \in Player /\ q.kind \in AllKinds
    /\ q.stage \in {"attempted", "rendered", "spending", "billed", "asked"} => q.kind \in Solo
    /\ q.stage = "answered" => q.kind = "practice"
    /\ q.stage \in {"waiting", "round"} => q.kind = "duel"

\* A call is billed before it is asked, and asked before it is answered.
CallInv(c) ==
    /\ Fits(req[c])
    /\ At(c, "billed") => \A r \in Rows(c) : InWindow(r) => r \in ledger
    /\ req[c].stage \in {"asked", "answered"} /\ Budgeted(Kind(c)) => Made(c)

IInv ==
    /\ TypeOK /\ IsFiniteSet(ledger) /\ Bounds
    /\ AllowanceHolds /\ CeilingHolds
    /\ MadeCounted /\ Paired /\ ScoredMade
    /\ \A c \in Call : CallInv(c)

(***************************************************************************)
(* Counting.                                                               *)
(***************************************************************************)
\* From A and B to A2 and B2, each new element of A2 is traded for one of B.
Traded(A, B, A2, B2) ==
    \E M \in SUBSET B : \E f \in [M -> Row] :
        A2 \subseteq A \union {f[c] : c \in M} /\ B2 \subseteq B \ M

LEMMA Trade ==
    ASSUME NEW A, NEW B, NEW A2, NEW B2, IsFiniteSet(A), IsFiniteSet(B),
           Traded(A, B, A2, B2)
    PROVE  Cardinality(A2) + Cardinality(B2) <= Cardinality(A) + Cardinality(B)
<1>0. PICK M \in SUBSET B : \E f \in [M -> Row] :
         A2 \subseteq A \union {f[c] : c \in M} /\ B2 \subseteq B \ M
    BY DEF Traded
<1>1. PICK f \in [M -> Row] : A2 \subseteq A \union {f[c] : c \in M} /\ B2 \subseteq B \ M
    BY <1>0
<1> DEFINE N == {f[c] : c \in M}
<1>2. IsFiniteSet(M) /\ Cardinality(M) \in Nat
    BY FS_Subset, FS_CardinalityType
<1>3. IsFiniteSet(N) /\ Cardinality(N) <= Cardinality(M) /\ Cardinality(N) \in Nat
  <2>1. f \in Surjection(M, N)
    BY DEF Surjection
  <2> HIDE DEF N
  <2> QED
    BY <1>2, <2>1, FS_Surjection, FS_CardinalityType
<1> HIDE DEF N
<1>4. /\ IsFiniteSet(A \cup N) /\ Cardinality(A \cup N) <= Cardinality(A) + Cardinality(N)
      /\ Cardinality(A) \in Nat /\ Cardinality(A \cup N) \in Nat
  <2>1. IsFiniteSet(A \cup N)
    BY <1>3, FS_Union
  <2>2. Cardinality(A \cup N) = Cardinality(A) + Cardinality(N) - Cardinality(A \cap N)
    BY <1>3, FS_Union
  <2>3. Cardinality(A \cap N) \in Nat
    BY FS_Intersection, FS_CardinalityType
  <2> QED
    BY <1>3, <2>1, <2>2, <2>3, FS_CardinalityType
<1>5. Cardinality(A2) <= Cardinality(A \cup N) /\ Cardinality(A2) \in Nat
    BY <1>1, <1>4, FS_Subset, FS_CardinalityType DEF N
<1>6. IsFiniteSet(B \ M) /\ Cardinality(B \ M) = Cardinality(B) - Cardinality(M)
  <2>1. B \cap M = M
    OBVIOUS
  <2> QED
    BY <2>1, FS_Difference
<1>7. Cardinality(B2) <= Cardinality(B \ M) /\ Cardinality(B2) \in Nat
    BY <1>1, <1>6, FS_Subset, FS_CardinalityType
<1> QED
    BY <1>2, <1>3, <1>4, <1>5, <1>6, <1>7, FS_CardinalityType

\* Nothing new on either side is a trade too.
LEMMA NoTrade ==
    ASSUME NEW A, NEW B, NEW A2, NEW B2, A2 \subseteq A, B2 \subseteq B
    PROVE  Traded(A, B, A2, B2)
<1>1. [c \in {} |-> c] \in [{} -> Row] /\ {} \in SUBSET B
    OBVIOUS
<1> QED
    BY <1>1 DEF Traded

LEMMA OneTrade ==
    ASSUME NEW A, NEW B, NEW A2, NEW B2, NEW c \in B, NEW r \in Row,
           A2 \subseteq A \union {r}, B2 \subseteq B \ {c}
    PROVE  Traded(A, B, A2, B2)
<1>1. [d \in {c} |-> r] \in [{c} -> Row] /\ {c} \in SUBSET B
      /\ {[d \in {c} |-> r][e] : e \in {c}} = {r}
    OBVIOUS
<1> QED
    BY <1>1 DEF Traded

\* What a step does to one allowance: trade, or let a call in below the cap.
AllowanceStep(u, k) ==
    \/ Traded(UserKindCalls(u, k), Pending(u, k), UserKindCalls(u, k)', Pending(u, k)')
    \/ /\ Cardinality(UserKindCalls(u, k)') < PerUser(Env)[k]
       /\ Pending(u, k)' \subseteq OpenOf(u, k)'

CeilingStep(p) ==
    \/ Traded(SoloCalls(p), Cleared(p), SoloCalls(p)', Cleared(p)')
    \/ Cardinality(SoloCalls(p)') < Env.aiDailyGlobal /\ Cleared(p)' \subseteq Opened'

LEMMA FiniteSides ==
    ASSUME IsFiniteSet(ledger)
    PROVE  /\ \A u, k : /\ IsFiniteSet(UserKindCalls(u, k)) /\ IsFiniteSet(Pending(u, k))
                        /\ IsFiniteSet(OpenOf(u, k))
           /\ \A p : IsFiniteSet(SoloCalls(p)) /\ IsFiniteSet(Cleared(p))
           /\ IsFiniteSet(Opened)
<1>1. ASSUME NEW S, S \subseteq ledger \/ S \subseteq Call
      PROVE  IsFiniteSet(S)
    BY <1>1, FS_Subset, BudgetAssumption
<1>2. /\ \A u, k : /\ UserKindCalls(u, k) \subseteq ledger /\ Pending(u, k) \subseteq Call
                   /\ OpenOf(u, k) \subseteq Call
      /\ \A p : SoloCalls(p) \subseteq ledger /\ Cleared(p) \subseteq Call
      /\ Opened \subseteq Call
    BY DEF UserKindCalls, Pending, OpenOf, SoloCalls, ProviderCalls, Cleared, Opened
<1> QED
    BY <1>1, <1>2

LEMMA Counted ==
    ASSUME IInv, IsFiniteSet(ledger)', Bounds',
           \A u \in Player, k \in AllKinds : Budgeted(k) => AllowanceStep(u, k),
           \A p \in Provider : CeilingStep(p)
    PROVE  AllowanceHolds' /\ CeilingHolds'
<1>1. ASSUME NEW u \in Player, NEW k \in AllKinds, Budgeted(k)
      PROVE  Cardinality(UserKindCalls(u, k)') + Cardinality(Pending(u, k)')
                 <= PerUser(Env)[k] - 1 + MaxParallel
  <2> DEFINE A == UserKindCalls(u, k)   B == Pending(u, k)
             A2 == UserKindCalls(u, k)' B2 == Pending(u, k)'
  <2>1. IsFiniteSet(A) /\ IsFiniteSet(B) /\ IsFiniteSet(A2) /\ IsFiniteSet(B2)
        /\ IsFiniteSet(OpenOf(u, k)')
    <3>1. A2 \subseteq ledger' /\ B2 \subseteq Call /\ OpenOf(u, k)' \subseteq Call
      BY DEF UserKindCalls, Pending, OpenOf
    <3>2. IsFiniteSet(A2) /\ IsFiniteSet(B2) /\ IsFiniteSet(OpenOf(u, k)')
      BY <3>1, FS_Subset, BudgetAssumption
    <3> QED
      BY <3>2, FiniteSides DEF IInv
  <2>2. /\ Cardinality(A) \in Nat /\ Cardinality(B) \in Nat /\ Cardinality(A2) \in Nat
        /\ Cardinality(B2) \in Nat /\ Cardinality(OpenOf(u, k)') \in Nat
        /\ PerUser(Env)[k] \in Int /\ MaxParallel \in Nat
    BY <2>1, FS_CardinalityType, Ceilings, ParallelAssumption
  <2>3. Cardinality(A) + Cardinality(B) <= PerUser(Env)[k] - 1 + MaxParallel
    BY <1>1 DEF IInv, AllowanceHolds, CountUserKindCalls
  <2>4. CASE Traded(A, B, A2, B2)
    <3>1. Cardinality(A2) + Cardinality(B2) <= Cardinality(A) + Cardinality(B)
      <4> HIDE DEF A, B, A2, B2
      <4> QED
        BY <2>1, <2>4, Trade
    <3> HIDE DEF A, B, A2, B2
    <3> QED
      BY <2>2, <2>3, <3>1 DEF A2, B2
  <2>5. CASE Cardinality(A2) < PerUser(Env)[k] /\ B2 \subseteq OpenOf(u, k)'
    <3>1. Cardinality(B2) <= Cardinality(OpenOf(u, k)')
      <4> HIDE DEF B2
      <4> QED
        BY <2>1, <2>5, FS_Subset
    <3>2. Cardinality(OpenOf(u, k)') <= MaxParallel
      BY DEF Bounds
    <3> HIDE DEF A, B, A2, B2
    <3> QED
      BY <2>2, <2>5, <3>1, <3>2 DEF A2, B2
  <2> QED
    BY <1>1, <2>4, <2>5 DEF AllowanceStep
<1>2. ASSUME NEW p \in Provider
      PROVE  Cardinality(SoloCalls(p)') + Cardinality(Cleared(p)')
                 <= Env.aiDailyGlobal - 1 + MaxOpen
  <2> DEFINE A == SoloCalls(p)   B == Cleared(p)
             A2 == SoloCalls(p)' B2 == Cleared(p)'
  <2>1. IsFiniteSet(A) /\ IsFiniteSet(B) /\ IsFiniteSet(A2) /\ IsFiniteSet(B2)
        /\ IsFiniteSet(Opened')
    <3>1. A2 \subseteq ledger' /\ B2 \subseteq Call /\ Opened' \subseteq Call
      BY DEF SoloCalls, ProviderCalls, Cleared, Opened
    <3>2. IsFiniteSet(A2) /\ IsFiniteSet(B2) /\ IsFiniteSet(Opened')
      BY <3>1, FS_Subset, BudgetAssumption
    <3> QED
      BY <3>2, FiniteSides DEF IInv
  <2>2. /\ Cardinality(A) \in Nat /\ Cardinality(B) \in Nat /\ Cardinality(A2) \in Nat
        /\ Cardinality(B2) \in Nat /\ Cardinality(Opened') \in Nat
        /\ Env.aiDailyGlobal \in Int /\ MaxOpen \in Nat
    BY <2>1, FS_CardinalityType, Ceilings, ParallelAssumption
  <2>3. Cardinality(A) + Cardinality(B) <= Env.aiDailyGlobal - 1 + MaxOpen
    BY <1>2 DEF IInv, CeilingHolds, SoloCalls
  <2>4. CASE Traded(A, B, A2, B2)
    <3>1. Cardinality(A2) + Cardinality(B2) <= Cardinality(A) + Cardinality(B)
      <4> HIDE DEF A, B, A2, B2
      <4> QED
        BY <2>1, <2>4, Trade
    <3> HIDE DEF A, B, A2, B2
    <3> QED
      BY <2>2, <2>3, <3>1 DEF A2, B2
  <2>5. CASE Cardinality(A2) < Env.aiDailyGlobal /\ B2 \subseteq Opened'
    <3>1. Cardinality(B2) <= Cardinality(Opened')
      <4> HIDE DEF B2
      <4> QED
        BY <2>1, <2>5, FS_Subset
    <3>2. Cardinality(Opened') <= MaxOpen
      BY DEF Bounds
    <3> HIDE DEF A, B, A2, B2
    <3> QED
      BY <2>2, <2>5, <3>1, <3>2 DEF A2, B2
  <2> QED
    BY <1>2, <2>4, <2>5 DEF CeilingStep
<1>3. AllowanceHolds'
    BY <1>1 DEF AllowanceHolds, CountUserKindCalls, Budgeted
<1>4. CeilingHolds'
    BY <1>2 DEF CeilingHolds, SoloCalls
<1> QED
    BY <1>3, <1>4

(***************************************************************************)
(* The rows of a bill.                                                     *)
(***************************************************************************)
LEMMA RowFields ==
    ASSUME NEW c \in Call, NEW k \in AllKinds, NEW at \in 0 .. MaxTime
    PROVE  /\ \A u \in Player :
                 /\ PlayerRow(c, u, k, at) \in Row
                 /\ PlayerRow(c, u, k, at).call = c /\ PlayerRow(c, u, k, at).kind = k
                 /\ PlayerRow(c, u, k, at).at = at /\ PlayerRow(c, u, k, at).user = u
                 /\ PlayerRow(c, u, k, at).provider = Nobody
           /\ \A n \in 0 .. MaxPasses :
                 /\ Budgeted(k) => ProviderRow(c, n, k, at) \in Row
                 /\ ProviderRow(c, n, k, at).call = c /\ ProviderRow(c, n, k, at).kind = k
                 /\ ProviderRow(c, n, k, at).at = at
                 /\ ProviderRow(c, n, k, at).user = Nobody
                 /\ ProviderRow(c, n, k, at).provider = Providers(Env)[k]
<1>1. 0 \in 0 .. MaxPasses
    BY BudgetAssumption
<1>2. Budgeted(k) => Providers(Env)[k] \in Provider
    BY DEF Budgeted, Provider
<1> QED
    BY <1>1, <1>2 DEF PlayerRow, ProviderRow, Row

LEMMA Bill ==
    ASSUME NEW c \in Call, NEW u \in Player, NEW k \in AllKinds, NEW at \in 0 .. MaxTime
    PROVE  LET rows == recordAICallUnderCap(c, u, k, at)
           IN  /\ rows \subseteq Row /\ IsFiniteSet(rows)
               /\ \A r \in rows : /\ r.call = c /\ r.kind = k /\ r.at = at
                                  /\ \E s \in rows : (s.user = Nobody) # (r.user = Nobody)
               /\ Budgeted(k) => \E r \in rows : r.user = Nobody
<1> DEFINE rows == recordAICallUnderCap(c, u, k, at)
<1>1. 0 \in 0 .. MaxPasses /\ u # Nobody
    BY BudgetAssumption
<1>2. CASE Budgeted(k)
  <2>1. PICK r : r = PlayerRow(c, u, k, at)
    OBVIOUS
  <2>2. PICK s : s = ProviderRow(c, 0, k, at)
    OBVIOUS
  <2>3. rows = {r, s}
    BY <1>2, <2>1, <2>2 DEF recordAICallUnderCap
  <2>4. /\ r \in Row /\ r.call = c /\ r.kind = k /\ r.at = at /\ r.user # Nobody
        /\ s \in Row /\ s.call = c /\ s.kind = k /\ s.at = at /\ s.user = Nobody
    BY <1>1, <1>2, <2>1, <2>2, RowFields
  <2>5. IsFiniteSet({r, s})
    <3>1. IsFiniteSet({s}) /\ {r, s} = {s} \cup {r}
      BY FS_Singleton
    <3> QED
      BY <3>1, FS_AddElement
  <2> HIDE DEF rows
  <2> QED
    BY <2>3, <2>4, <2>5 DEF rows
<1>3. CASE ~Budgeted(k)
  <2>1. rows = {}
    BY <1>3 DEF recordAICallUnderCap
  <2> QED
    BY <1>3, <2>1, FS_EmptySet
<1> QED
    BY <1>2, <1>3

(***************************************************************************)
(* What holds of a step whichever it is.                                   *)
(***************************************************************************)
LEMMA BoundsKept ==
    ASSUME IInv,
           \A d \in Call : Open(d)' => Open(d) /\ User(d)' = User(d) /\ Kind(d)' = Kind(d)
    PROVE  Bounds'
<1>1. Opened' \subseteq Opened /\ \A u, k : OpenOf(u, k)' \subseteq OpenOf(u, k)
    BY DEF Opened, OpenOf
<1>2. /\ IsFiniteSet(Opened) /\ \A u, k : IsFiniteSet(OpenOf(u, k))
    BY FiniteSides DEF IInv
<1>3. /\ Cardinality(Opened') \in Nat /\ Cardinality(Opened') <= Cardinality(Opened)
      /\ Cardinality(Opened) \in Nat
    BY <1>1, <1>2, FS_Subset, FS_CardinalityType
<1>4. \A u, k : /\ Cardinality(OpenOf(u, k)') \in Nat /\ Cardinality(OpenOf(u, k)) \in Nat
                /\ Cardinality(OpenOf(u, k)') <= Cardinality(OpenOf(u, k))
    BY <1>1, <1>2, FS_Subset, FS_CardinalityType
<1>5. MaxOpen \in Nat /\ MaxParallel \in Nat /\ Bounds
    BY ParallelAssumption DEF IInv
<1>6. Cardinality(Opened') <= MaxOpen
    BY <1>3, <1>5 DEF Bounds
<1>7. ASSUME NEW u \in Player, NEW k \in AllKinds
      PROVE  Cardinality(OpenOf(u, k)') <= MaxParallel
  <2>1. Cardinality(OpenOf(u, k)) <= MaxParallel
    BY <1>5 DEF Bounds
  <2>2. /\ Cardinality(OpenOf(u, k)') \in Nat /\ Cardinality(OpenOf(u, k)) \in Nat
        /\ Cardinality(OpenOf(u, k)') <= Cardinality(OpenOf(u, k))
    BY <1>4
  <2> QED
    BY <1>5, <2>1, <2>2
<1> QED
    BY <1>6, <1>7 DEF Bounds

\* A call that did not move keeps what it was sure of, if the ledger keeps what counts.
LEMMA CallStays ==
    ASSUME IInv, NEW c \in Call, req'[c] = req[c], made \subseteq made',
           \A r \in Row : InWindow(r)' => InWindow(r),
           \A r \in ledger : InWindow(r)' => r \in ledger'
    PROVE  CallInv(c)'
<1>1. CallInv(c) /\ TypeOK
    BY DEF IInv
<1>2. Fits(req'[c])
    BY <1>1 DEF CallInv
<1>3. ASSUME At(c, "billed"), NEW r \in Rows(c), InWindow(r)'
      PROVE  r \in ledger'
  <2>1. User(c) \in Player /\ Kind(c) \in AllKinds /\ req[c].at \in 0 .. MaxTime
    BY <1>1, <1>3 DEF CallInv, Fits, At, User, Kind, TypeOK, Request
  <2>2. r \in Row
    BY <2>1, Bill DEF Rows
  <2> QED
    BY <1>1, <1>3, <2>2 DEF CallInv
<1>4. req[c].stage \in {"asked", "answered"} /\ Budgeted(Kind(c)) => Made(c)'
    BY <1>1 DEF CallInv, Made
<1>5. Rows(c)' = Rows(c) /\ At(c, "billed")' = At(c, "billed") /\ Kind(c)' = Kind(c)
    BY DEF Rows, User, Kind, At, recordAICallUnderCap, PlayerRow, ProviderRow, Budgeted
<1> QED
    BY <1>2, <1>3, <1>4, <1>5 DEF CallInv, Budgeted

LEMMA CallEnds ==
    ASSUME NEW c \in Call, req'[c] = Ended
    PROVE  CallInv(c)'
BY DEF CallInv, Fits, Ended, NewRequest, At

LEMMA Step ==
    ASSUME IInv, TypeOK', IsFiniteSet(ledger)', Bounds',
           \A u \in Player, k \in AllKinds : Budgeted(k) => AllowanceStep(u, k),
           \A p \in Provider : CeilingStep(p),
           MadeCounted', Paired', made \subseteq made',
           \A c \in Call : runs'[c] = "scored" => runs[c] = "scored" \/ At(c, "answered"),
           \A c \in Call : CallInv(c)'
    PROVE  IInv'
<1>1. AllowanceHolds' /\ CeilingHolds'
    BY Counted
<1>2. ScoredMade'
  <2> SUFFICES ASSUME NEW c \in Call, runs'[c] = "scored", Budgeted("practice")
               PROVE  Made(c)'
    BY DEF ScoredMade, Budgeted
  <2>1. Made(c)
    BY DEF IInv, ScoredMade, CallInv, At, Fits, Kind
  <2> QED
    BY <2>1 DEF Made
<1> QED
    BY <1>1, <1>2 DEF IInv

(***************************************************************************)
(* A call moves on, and nothing is billed.                                 *)
(***************************************************************************)
LEMMA Moving ==
    ASSUME IInv, NEW c \in Call, NEW q \in Request, req' = [req EXCEPT ![c] = q],
           ledger' = ledger, now' = now, made' \subseteq Row, made \subseteq made', MadeCounted',
           runs' \in [Call -> Runs],
           \A d \in Call : runs'[d] = "scored" => runs[d] = "scored" \/ At(d, "answered"),
           Bounds', CallInv(c)',
           \A u \in Player, k \in AllKinds :
              Budgeted(k) /\ c \in Pending(u, k)' =>
                 \/ c \in Pending(u, k)
                 \/ UserHasRoom(u, k) /\ Pending(u, k)' \subseteq OpenOf(u, k)',
           \A k \in Solo :
              Kind(c)' = k /\ c \in Cleared(Providers(Env)[k])' /\ Budgeted(k) =>
                 c \in Cleared(Providers(Env)[k]) \/ ProviderHasRoom(k)
    PROVE  IInv'
<1>1. /\ TypeOK /\ req'[c] = q /\ \A d \in Call \ {c} : req'[d] = req[d]
      /\ req' \in [Call -> Request]
    BY DEF IInv, TypeOK
<1>2. \A r : InWindow(r)' = InWindow(r)
    BY DEF InWindow
<1>3. TypeOK'
  <2>1. \A d \in Call : req'[d].stage \notin {"new", "ended"}
                           => req'[d].user \in Player /\ req'[d].kind \in AllKinds
    <3>1. CallInv(c)' /\ \A d \in Call : CallInv(d)
      BY DEF IInv
    <3> QED
      BY <1>1, <3>1 DEF CallInv, Fits
  <2> QED
    BY <1>1, <2>1 DEF TypeOK, User, Kind, Runs
<1>4. ASSUME NEW d \in Call
      PROVE  CallInv(d)'
  <2>1. CASE d = c
    BY <2>1
  <2>2. CASE d # c
    BY <1>1, <1>2, <2>2, CallStays
  <2> QED
    BY <2>1, <2>2
<1>5. Paired' /\ IsFiniteSet(ledger)'
    BY DEF IInv, Paired
<1>6. /\ \A u, k : UserKindCalls(u, k)' = UserKindCalls(u, k)
      /\ \A p : ProviderCalls(p)' = ProviderCalls(p) /\ SoloCalls(p)' = SoloCalls(p)
    BY DEF UserKindCalls, ProviderCalls, SoloCalls, InWindow
<1>7. ASSUME NEW u \in Player, NEW k \in AllKinds, Budgeted(k)
      PROVE  AllowanceStep(u, k)
  <2>1. \A d \in Call \ {c} : d \in Pending(u, k)' => d \in Pending(u, k)
    BY <1>1 DEF Pending, User, Kind
  <2>2. CASE c \in Pending(u, k)' => c \in Pending(u, k)
    <3>1. Pending(u, k)' \subseteq Pending(u, k)
      BY <2>1, <2>2 DEF Pending
    <3> QED
      BY <1>6, <3>1, NoTrade DEF AllowanceStep
  <2>3. CASE UserHasRoom(u, k) /\ Pending(u, k)' \subseteq OpenOf(u, k)'
    BY <1>6, <1>7, <2>3 DEF AllowanceStep, UserHasRoom, CountUserKindCalls
  <2> QED
    BY <1>7, <2>2, <2>3
<1>8. ASSUME NEW p \in Provider
      PROVE  CeilingStep(p)
  <2>1. \A d \in Call \ {c} : d \in Cleared(p)' => d \in Cleared(p)
    BY <1>1 DEF Cleared, Kind
  <2>2. CASE c \in Cleared(p)' => c \in Cleared(p)
    <3>1. Cleared(p)' \subseteq Cleared(p)
      BY <2>1, <2>2 DEF Cleared
    <3> QED
      BY <1>6, <3>1, NoTrade DEF CeilingStep
  <2>3. CASE c \in Cleared(p)' /\ c \notin Cleared(p)
    <3>1. PICK k \in Solo : Kind(c)' = k /\ Providers(Env)[k] = p
      BY <2>3 DEF Cleared
    <3>2. Budgeted(k)
      BY <3>1 DEF Budgeted, Provider
    <3>3. Cardinality(ProviderCalls(p)) < Env.aiDailyGlobal
      BY <2>3, <3>1, <3>2 DEF ProviderHasRoom, CountProviderCalls
    <3>4. Cardinality(SoloCalls(p)) <= Cardinality(ProviderCalls(p))
      <4>1. SoloCalls(p) \subseteq ProviderCalls(p) /\ ProviderCalls(p) \subseteq ledger
        BY DEF SoloCalls, ProviderCalls
      <4> QED
        BY <4>1, FS_Subset DEF IInv
    <3>5. Cleared(p)' \subseteq Opened'
      BY DEF Cleared, Opened, Open
    <3>6. Cardinality(SoloCalls(p)) \in Nat /\ Cardinality(ProviderCalls(p)) \in Nat
      <4>1. ProviderCalls(p) \subseteq ledger
        BY DEF ProviderCalls
      <4>2. IsFiniteSet(ProviderCalls(p)) /\ IsFiniteSet(SoloCalls(p))
        BY <4>1, FS_Subset, FiniteSides DEF IInv
      <4> QED
        BY <4>2, FS_CardinalityType
    <3>7. Cardinality(SoloCalls(p)) < Env.aiDailyGlobal
      BY <3>3, <3>4, <3>6, Ceilings
    <3> QED
      BY <1>6, <3>5, <3>7 DEF CeilingStep
  <2> QED
    BY <2>2, <2>3
<1> QED
    BY <1>3, <1>4, <1>5, <1>7, <1>8, Step

\* Its end.
LEMMA Ending ==
    ASSUME IInv, NEW c \in Call, req' = [req EXCEPT ![c] = Ended],
           UNCHANGED <<ledger, now, made>>, runs' \in [Call -> Runs],
           \A d \in Call : runs'[d] = "scored" => runs[d] = "scored" \/ At(d, "answered")
    PROVE  IInv'
<1>1. PICK q : q = Ended
    OBVIOUS
<1>2. /\ req' = [req EXCEPT ![c] = q] /\ q \in Request /\ q.stage = "ended" /\ TypeOK
  <2>1. 0 \in 0 .. MaxTime /\ 0 \in 0 .. MaxPasses
    BY BudgetAssumption
  <2> QED
    BY <1>1, <2>1 DEF Ended, NewRequest, Request, Stage, IInv
<1>3. req'[c] = q /\ \A d \in Call \ {c} : req'[d] = req[d]
    BY <1>2 DEF TypeOK
<1>4. Bounds'
  <2>1. \A d \in Call : Open(d)' => Open(d) /\ User(d)' = User(d) /\ Kind(d)' = Kind(d)
    BY <1>2, <1>3 DEF Open, User, Kind
  <2> QED
    BY <2>1, BoundsKept
<1>5. CallInv(c)'
    BY <1>1, <1>3, CallEnds
<1>6. \A u \in Player, k \in AllKinds : c \notin Pending(u, k)'
    BY <1>2, <1>3 DEF Pending
<1>7. \A p : c \notin Cleared(p)'
    BY <1>2, <1>3 DEF Cleared
<1>8. MadeCounted' /\ made' \subseteq Row
    BY <1>2 DEF IInv, MadeCounted, InWindow, TypeOK
<1> QED
    BY <1>2, <1>4, <1>5, <1>6, <1>7, <1>8, Moving

\* Its next stage.
LEMMA Going ==
    ASSUME IInv, NEW c \in Call, NEW s \in Stage, NEW at \in 0 .. MaxTime,
           req' = [req EXCEPT ![c] = [req[c] EXCEPT !.stage = s, !.at = at]],
           Open(c), UNCHANGED <<ledger, now, made>>, runs' \in [Call -> Runs],
           \A d \in Call : runs'[d] = "scored" => runs[d] = "scored",
           s \notin {"new", "ended", "round", "billed", "asked"},
           s = "answered" => At(c, "asked") /\ Kind(c) = "practice",
           s \in {"attempted", "rendered", "spending"} => Kind(c) \in Solo,
           s = "waiting" => Kind(c) = "duel",
           \A u \in Player, k \in AllKinds :
              Budgeted(k) /\ c \in Pending(u, k)' =>
                 \/ c \in Pending(u, k)
                 \/ UserHasRoom(u, k) /\ Pending(u, k)' \subseteq OpenOf(u, k)',
           s \in {"checked", "attempted", "rendered", "spending"} =>
              \/ req[c].stage \in {"checked", "attempted", "rendered", "spending"}
              \/ ProviderHasRoom(Kind(c))
    PROVE  IInv'
<1>1. PICK q : q = [req[c] EXCEPT !.stage = s, !.at = at]
    OBVIOUS
<1>2. /\ TypeOK /\ req[c] \in Request /\ req[c].stage \notin {"new", "ended"}
      /\ User(c) \in Player /\ Kind(c) \in AllKinds /\ CallInv(c)
    BY DEF IInv, TypeOK, Open
<1>3. /\ req' = [req EXCEPT ![c] = q] /\ q \in Request /\ q.stage = s
      /\ q.user = User(c) /\ q.kind = Kind(c)
    BY <1>1, <1>2 DEF Request, User, Kind
<1>4. req'[c] = q /\ \A d \in Call \ {c} : req'[d] = req[d]
    BY <1>2, <1>3 DEF TypeOK
<1>5. Bounds'
  <2>1. \A d \in Call : Open(d)' => Open(d) /\ User(d)' = User(d) /\ Kind(d)' = Kind(d)
    BY <1>3, <1>4 DEF Open, User, Kind
  <2> QED
    BY <2>1, BoundsKept
<1>6. CallInv(c)'
  <2>1. Fits(q)
    BY <1>2, <1>3 DEF Fits
  <2>2. q.stage \in {"asked", "answered"} /\ Budgeted(q.kind) => Made(c)
    BY <1>2, <1>3 DEF CallInv, At
  <2> QED
    BY <1>3, <1>4, <2>1, <2>2 DEF CallInv, Kind, Budgeted, Made, At
<1>7. \A k \in Solo :
         Kind(c)' = k /\ c \in Cleared(Providers(Env)[k])' /\ Budgeted(k) =>
            c \in Cleared(Providers(Env)[k]) \/ ProviderHasRoom(k)
    BY <1>3, <1>4 DEF Cleared, Kind
<1>8. MadeCounted' /\ made' \subseteq Row
    BY <1>2 DEF IInv, MadeCounted, InWindow, TypeOK
<1> QED
    BY <1>3, <1>5, <1>6, <1>7, <1>8, Moving

(***************************************************************************)
(* The steps that bill nothing.                                            *)
(***************************************************************************)
LEMMA GoesAsIs ==
    ASSUME TypeOK, NEW c \in Call, NEW s, Goes(c, s)
    PROVE  /\ req[c].at \in 0 .. MaxTime
           /\ req' = [req EXCEPT ![c] = [req[c] EXCEPT !.stage = s, !.at = req[c].at]]
<1>1. req \in [Call -> Request] /\ req[c] \in Request
    BY DEF TypeOK
<1>2. req' = [req EXCEPT ![c].stage = s]
    BY DEF Goes
<1>3. [req[c] EXCEPT !.stage = s] = [req[c] EXCEPT !.stage = s, !.at = req[c].at]
    BY <1>1 DEF Request
<1> QED
    BY <1>1, <1>2, <1>3 DEF Request

LEMMA ArriveStep ==
    ASSUME IInv, NEW c \in Call, NEW u \in Player, NEW k \in AllKinds, Arrive(c, u, k)
    PROVE  IInv'
<1>1. /\ TypeOK /\ req[c] \in Request /\ req[c].stage = "new"
    BY DEF IInv, TypeOK, Arrive, At
<1>2. PICK q : q = [req[c] EXCEPT !.user = u, !.kind = k, !.stage = "look"]
    OBVIOUS
<1>3. /\ req' = [req EXCEPT ![c] = q] /\ q \in Request /\ q.user = u /\ q.kind = k
      /\ q.stage = "look"
    BY <1>1, <1>2 DEF Arrive, Request, Stage, TypeOK
<1>4. req'[c] = q /\ \A d \in Call \ {c} : req'[d] = req[d]
    BY <1>1, <1>3 DEF TypeOK
<1>5. ASSUME NEW S, NEW T, IsFiniteSet(S), T \subseteq S \cup {c}, NEW m \in Nat,
             Cardinality(S) < m
      PROVE  Cardinality(T) <= m
  <2>1. IsFiniteSet(S \cup {c}) /\ Cardinality(S \cup {c}) <= Cardinality(S) + 1
    <3>1. Cardinality(S) \in Nat
      BY <1>5, FS_CardinalityType
    <3>2. /\ IsFiniteSet(S \cup {c})
          /\ Cardinality(S \cup {c}) = IF c \in S THEN Cardinality(S) ELSE Cardinality(S) + 1
      BY <1>5, FS_AddElement
    <3> QED
      BY <3>1, <3>2
  <2>2. Cardinality(T) <= Cardinality(S \cup {c}) /\ Cardinality(T) \in Nat
    BY <1>5, <2>1, FS_Subset, FS_CardinalityType
  <2> QED
    BY <1>5, <2>1, <2>2, FS_CardinalityType
<1>6. Bounds'
  <2>1. /\ IsFiniteSet(Opened) /\ \A v, j : IsFiniteSet(OpenOf(v, j))
        /\ MaxOpen \in Nat /\ MaxParallel \in Nat /\ Bounds
    BY FiniteSides, ParallelAssumption DEF IInv
  <2>2. Cardinality(Opened') <= MaxOpen
    <3>1. Opened' \subseteq Opened \cup {c} /\ Cardinality(Opened) < MaxOpen
      BY <1>4 DEF Opened, Open, Arrive
    <3> QED
      BY <1>5, <2>1, <3>1
  <2>3. ASSUME NEW v \in Player, NEW j \in AllKinds
        PROVE  Cardinality(OpenOf(v, j)') <= MaxParallel
    <3>1. CASE v = u /\ j = k
      <4>1. OpenOf(v, j)' \subseteq OpenOf(v, j) \cup {c}
        BY <1>4 DEF OpenOf, Open, User, Kind
      <4>2. Cardinality(OpenOf(v, j)) < MaxParallel
        BY <3>1 DEF Arrive
      <4> QED
        BY <1>5, <2>1, <4>1, <4>2
    <3>2. CASE ~(v = u /\ j = k)
      <4>1. OpenOf(v, j)' \subseteq OpenOf(v, j)
        BY <1>3, <1>4, <3>2 DEF OpenOf, Open, User, Kind
      <4>2. Cardinality(OpenOf(v, j)') <= Cardinality(OpenOf(v, j))
        BY <2>1, <4>1, FS_Subset
      <4>3. Cardinality(OpenOf(v, j)') \in Nat /\ Cardinality(OpenOf(v, j)) \in Nat
        BY <2>1, <4>1, FS_Subset, FS_CardinalityType
      <4>4. Cardinality(OpenOf(v, j)) <= MaxParallel
        BY <2>1 DEF Bounds
      <4> QED
        BY <2>1, <4>2, <4>3, <4>4
    <3> QED
      BY <3>1, <3>2
  <2> QED
    BY <2>2, <2>3 DEF Bounds
<1>7. CallInv(c)'
    BY <1>3, <1>4 DEF CallInv, Fits, At
<1>8. /\ \A v \in Player, j \in AllKinds : c \notin Pending(v, j)'
      /\ \A p : c \notin Cleared(p)'
    BY <1>3, <1>4 DEF Pending, Cleared
<1>9. MadeCounted' /\ made' \subseteq Row /\ runs' \in [Call -> Runs]
    BY <1>1 DEF IInv, MadeCounted, InWindow, TypeOK, Arrive, Runs
<1> QED
    BY <1>3, <1>6, <1>7, <1>8, <1>9, Moving DEF Arrive

LEMMA EndSteps ==
    ASSUME IInv, NEW c \in Call,
           \/ Ends(c) /\ UNCHANGED <<ledger, now, runs, made>>
           \/ Refuse(c) \/ StoreVerdict(c) \/ Fail(c) \/ MatchEnds(c)
    PROVE  IInv'
<1>1. runs \in [Call -> Runs]
    BY DEF IInv, TypeOK, Runs
<1>2. runs' \in [Call -> Runs]
    BY <1>1 DEF Refuse, StoreVerdict, Fail, MatchEnds, Runs
<1>3. \A d \in Call : runs'[d] = "scored" => runs[d] = "scored" \/ At(d, "answered")
    BY <1>1 DEF Refuse, StoreVerdict, Fail, MatchEnds
<1>4. req' = [req EXCEPT ![c] = Ended] /\ UNCHANGED <<ledger, now, made>>
    BY DEF Refuse, StoreVerdict, Fail, MatchEnds, Ends
<1> QED
    BY <1>2, <1>3, <1>4, Ending

LEMMA CheckSteps ==
    ASSUME IInv, NEW c \in Call, CheckUser(c) \/ CheckProvider(c)
    PROVE  IInv'
<1>1. /\ TypeOK /\ CallInv(c) /\ runs \in [Call -> Runs]
    BY DEF IInv, TypeOK, Runs
<1>2. CASE Ends(c)
    BY <1>2, EndSteps DEF CheckUser, CheckProvider
<1>3. CASE CheckUser(c) /\ Goes(c, "mine")
  <2>1. /\ req[c].at \in 0 .. MaxTime /\ At(c, "look")
        /\ req' = [req EXCEPT ![c] = [req[c] EXCEPT !.stage = "mine", !.at = req[c].at]]
        /\ ~(Kind(c) = "duel" /\ InPlay(User(c))) /\ UserHasRoom(User(c), Kind(c))
        /\ UNCHANGED <<ledger, now, runs, made>>
    <3>1. At(c, "look") /\ UNCHANGED <<ledger, now, runs, made>>
      BY <1>3 DEF CheckUser
    <3>2. ~(Kind(c) = "duel" /\ InPlay(User(c))) /\ UserHasRoom(User(c), Kind(c))
      <4>1. ~Ends(c)
        BY <1>1, <1>3 DEF Goes, Ends, Ended, NewRequest, TypeOK
      <4> QED
        BY <1>3, <4>1 DEF CheckUser
    <3> QED
      BY <1>1, <1>3, <3>1, <3>2, GoesAsIs
  <2>2. /\ User(c)' = User(c) /\ Kind(c)' = Kind(c) /\ req'[c].stage = "mine"
        /\ \A d \in Call \ {c} : req'[d] = req[d]
    BY <1>1, <2>1 DEF User, Kind, TypeOK, Request
  <2>3. ASSUME NEW u \in Player, NEW k \in AllKinds, c \in Pending(u, k)'
        PROVE  UserHasRoom(u, k) /\ Pending(u, k)' \subseteq OpenOf(u, k)'
    <3>1. u = User(c) /\ k = Kind(c) /\ k = "duel"
      BY <2>2, <2>3 DEF Pending
    <3>2. ASSUME NEW d \in Pending(u, k)'
          PROVE  d \in OpenOf(u, k)'
      <4>1. d \in Call /\ User(d)' = u /\ Kind(d)' = k
            /\ req'[d].stage \in {"mine", "checked", "waiting"}
        BY <3>1, <3>2 DEF Pending
      <4>2. req'[d].stage # "waiting"
        BY <2>1, <2>2, <3>1, <4>1 DEF InPlay, At, User
      <4> QED
        BY <4>1, <4>2 DEF OpenOf, Open
    <3> QED
      BY <2>1, <3>1, <3>2
  <2> QED
    BY <1>1, <2>1, <2>3, Going DEF Stage, At, Open
<1>4. CASE CheckProvider(c) /\ Goes(c, "checked")
  <2>1. /\ req[c].at \in 0 .. MaxTime /\ At(c, "mine")
        /\ req' = [req EXCEPT ![c] = [req[c] EXCEPT !.stage = "checked", !.at = req[c].at]]
        /\ ProviderHasRoom(Kind(c))
        /\ UNCHANGED <<ledger, now, runs, made>>
    <3>1. At(c, "mine") /\ UNCHANGED <<ledger, now, runs, made>>
      BY <1>4 DEF CheckProvider
    <3>2. ProviderHasRoom(Kind(c))
      <4>1. ~Ends(c)
        BY <1>1, <1>4 DEF Goes, Ends, Ended, NewRequest, TypeOK
      <4> QED
        BY <1>4, <4>1 DEF CheckProvider
    <3> QED
      BY <1>1, <1>4, <3>1, <3>2, GoesAsIs
  <2>2. User(c)' = User(c) /\ Kind(c)' = Kind(c) /\ req'[c].stage = "checked"
    BY <1>1, <2>1 DEF User, Kind, TypeOK, Request
  <2>3. \A u \in Player, k \in AllKinds : c \in Pending(u, k)' => c \in Pending(u, k)
    BY <2>1, <2>2 DEF Pending, At
  <2> QED
    BY <1>1, <2>1, <2>3, Going DEF Stage, At, Open
<1> QED
    BY <1>2, <1>3, <1>4 DEF CheckUser, CheckProvider

\* A request that passed the check goes on to its statement, and to its answer.
LEMMA WorkSteps ==
    ASSUME IInv, NEW c \in Call, Attempt(c) \/ Render(c) \/ Answer(c)
    PROVE  IInv'
<1>1. /\ TypeOK /\ CallInv(c) /\ runs \in [Call -> Runs]
    BY DEF IInv, TypeOK, Runs
<1>2. CASE Ends(c) /\ UNCHANGED <<ledger, now, runs, made>>
    BY <1>2, EndSteps
<1>3. ASSUME NEW s \in {"attempted", "rendered", "answered"}, Goes(c, s),
             UNCHANGED <<ledger, now, made>>, runs' \in [Call -> Runs],
             \A d \in Call : runs'[d] = "scored" => runs[d] = "scored",
             s = "answered" => At(c, "asked") /\ Kind(c) = "practice",
             s # "answered" => /\ req[c].stage \in {"checked", "attempted"}
                               /\ Kind(c) \in Solo
      PROVE  IInv'
  <2>1. /\ req[c].at \in 0 .. MaxTime
        /\ req' = [req EXCEPT ![c] = [req[c] EXCEPT !.stage = s, !.at = req[c].at]]
    BY <1>1, <1>3, GoesAsIs
  <2>2. req'[c].stage = s
    BY <1>1, <2>1 DEF TypeOK, Request
  <2>3. \A u \in Player, k \in AllKinds : c \notin Pending(u, k)'
    BY <2>2 DEF Pending
  <2>4. Open(c)
    BY <1>3 DEF Open, At
  <2>5. s \in Stage
    BY DEF Stage
  <2> QED
    BY <1>3, <2>1, <2>3, <2>4, <2>5, Going
<1>4. CASE Attempt(c) /\ Goes(c, "attempted") /\ runs' = [runs EXCEPT ![c] = "attempted"]
  <2>1. /\ runs' \in [Call -> Runs]
        /\ \A d \in Call : runs'[d] = "scored" => runs[d] = "scored"
    BY <1>1, <1>4 DEF Runs
  <2> QED
    BY <1>3, <1>4, <2>1 DEF Attempt, At, Solo, AllKinds
<1>5. CASE Render(c)
    BY <1>1, <1>3, <1>5 DEF Render, At
<1>6. CASE Answer(c) /\ Goes(c, "answered") /\ Kind(c) = "practice"
    BY <1>1, <1>3, <1>6 DEF Answer
<1> QED
    BY <1>2, <1>4, <1>5, <1>6 DEF Attempt, Answer

LEMMA SpendReadsStep ==
    ASSUME IInv, NEW c \in Call, SpendReads(c)
    PROVE  IInv'
<1>1. /\ TypeOK /\ CallInv(c) /\ runs \in [Call -> Runs] /\ now \in 0 .. MaxTime
    BY DEF IInv, TypeOK, Runs
<1>2. CASE ~UserHasRoom(User(c), Kind(c))
    BY <1>2, EndSteps DEF SpendReads
<1>3. CASE UserHasRoom(User(c), Kind(c))
  <2>1. req' = [req EXCEPT ![c] = [req[c] EXCEPT !.stage = "spending", !.at = now]]
    BY <1>1, <1>3 DEF SpendReads, TypeOK
  <2>2. /\ User(c)' = User(c) /\ Kind(c)' = Kind(c) /\ req'[c].stage = "spending"
        /\ Kind(c) \in Solo /\ At(c, "rendered")
    BY <1>1, <2>1 DEF User, Kind, TypeOK, Request, CallInv, Fits, At, SpendReads
  <2>3. ASSUME NEW u \in Player, NEW k \in AllKinds, c \in Pending(u, k)'
        PROVE  UserHasRoom(u, k) /\ Pending(u, k)' \subseteq OpenOf(u, k)'
    <3>1. u = User(c) /\ k = Kind(c) /\ k # "duel"
      BY <2>2, <2>3 DEF Pending, Solo
    <3> QED
      BY <1>3, <3>1 DEF Pending, OpenOf, Open
  <2> QED
    BY <1>1, <2>1, <2>2, <2>3, Going DEF SpendReads, Stage, At, Open
<1> QED
    BY <1>2, <1>3

\* A match is created.
LEMMA CreateStep ==
    ASSUME IInv, NEW c \in Call, At(c, "checked"), Kind(c) = "duel", Goes(c, "waiting"),
           UNCHANGED <<ledger, now, runs, made>>
    PROVE  IInv'
<1>1. /\ TypeOK /\ runs \in [Call -> Runs]
    BY DEF IInv, TypeOK, Runs
<1>2. /\ req[c].at \in 0 .. MaxTime
      /\ req' = [req EXCEPT ![c] = [req[c] EXCEPT !.stage = "waiting", !.at = req[c].at]]
    BY <1>1, GoesAsIs
<1>3. User(c)' = User(c) /\ Kind(c)' = Kind(c) /\ req'[c].stage = "waiting"
    BY <1>1, <1>2 DEF User, Kind, TypeOK, Request
<1>4. \A u \in Player, k \in AllKinds : c \in Pending(u, k)' => c \in Pending(u, k)
    BY <1>3 DEF Pending, At
<1> QED
    BY <1>1, <1>2, <1>4, Going DEF Stage, At, Open

\* The provider is asked: what is made was billed.
LEMMA AskStep ==
    ASSUME IInv, NEW c \in Call, Ask(c)
    PROVE  IInv'
<1>1. /\ TypeOK /\ CallInv(c) /\ runs \in [Call -> Runs] /\ req[c] \in Request
      /\ At(c, "billed")
    BY DEF IInv, TypeOK, Runs, Ask
<1>2. PICK q : q = [req[c] EXCEPT !.stage = "asked"]
    OBVIOUS
<1>3. /\ req' = [req EXCEPT ![c] = q] /\ q \in Request /\ q.stage = "asked"
      /\ q.user = User(c) /\ q.kind = Kind(c)
    BY <1>1, <1>2 DEF Ask, Goes, Request, Stage, User, Kind, TypeOK
<1>4. req'[c] = q /\ \A d \in Call \ {c} : req'[d] = req[d]
    BY <1>1, <1>3 DEF TypeOK
<1>5. User(c) \in Player /\ Kind(c) \in Solo /\ req[c].at \in 0 .. MaxTime
    BY <1>1 DEF CallInv, Fits, At, Kind, User, Request
<1>6. /\ Rows(c) \subseteq Row /\ \A r \in Rows(c) : r.call = c
      /\ Budgeted(Kind(c)) => \E r \in Rows(c) : r.user = Nobody
    BY <1>5, Bill DEF Rows, Solo
<1>7. /\ made' = made \cup {r \in Rows(c) : r.user = Nobody} /\ made' \subseteq Row
    BY <1>1, <1>6 DEF Ask, TypeOK
<1>8. MadeCounted'
    BY <1>1, <1>7 DEF CallInv, IInv, MadeCounted, InWindow, Ask
<1>9. Bounds'
  <2>1. \A d \in Call : Open(d)' => Open(d) /\ User(d)' = User(d) /\ Kind(d)' = Kind(d)
    BY <1>1, <1>3, <1>4 DEF Open, User, Kind, At
  <2> QED
    BY <2>1, BoundsKept
<1>10. CallInv(c)'
  <2>1. Budgeted(Kind(c)) => \E r \in made' : r.call = c
    BY <1>6, <1>7
  <2>2. Kind(c) \in AllKinds
    BY <1>5 DEF Solo
  <2> QED
    BY <1>3, <1>4, <1>5, <2>1, <2>2 DEF CallInv, Fits, At, Made, Kind, Budgeted
<1>11. /\ \A u \in Player, k \in AllKinds : c \notin Pending(u, k)'
       /\ \A p : c \notin Cleared(p)'
    BY <1>3, <1>4 DEF Pending, Cleared
<1> QED
    BY <1>1, <1>3, <1>7, <1>8, <1>9, <1>10, <1>11, Moving DEF Ask

(***************************************************************************)
(* The steps that bill.                                                    *)
(***************************************************************************)
LEMMA SpendWritesStep ==
    ASSUME IInv, NEW c \in Call, SpendWrites(c)
    PROVE  IInv'
<1>1. /\ TypeOK /\ CallInv(c) /\ runs \in [Call -> Runs] /\ req[c] \in Request
      /\ At(c, "spending") /\ UNCHANGED <<now, runs, made>>
    BY DEF IInv, TypeOK, Runs, SpendWrites
<1>2. CASE Ends(c) /\ UNCHANGED ledger
    BY <1>1, <1>2, EndSteps
<1>3. CASE Records(Rows(c)) /\ (Goes(c, "billed") \/ Ends(c))
  <2>1. PICK u \in Player : u = User(c)
    BY <1>1 DEF CallInv, Fits, At, User
  <2>2. PICK k \in Solo : k = Kind(c)
    BY <1>1 DEF CallInv, Fits, At, Kind
  <2>3. PICK at \in 0 .. MaxTime : at = req[c].at
    BY <1>1 DEF Request
  <2>4. PICK rows : rows = recordAICallUnderCap(c, u, k, at) /\ rows = Rows(c)
    BY <2>1, <2>2, <2>3 DEF Rows
  <2>5. k \in AllKinds /\ k # "duel"
    BY DEF Solo
  <2>6. /\ rows \subseteq Row /\ IsFiniteSet(rows)
        /\ \A r \in rows : /\ r.call = c /\ r.kind = k /\ r.at = at
                           /\ \E s \in rows : (s.user = Nobody) # (r.user = Nobody)
    <3> DEFINE bill == recordAICallUnderCap(c, u, k, at)
    <3>1. /\ bill \subseteq Row /\ IsFiniteSet(bill)
          /\ \A r \in bill : /\ r.call = c /\ r.kind = k /\ r.at = at
                             /\ \E s \in bill : (s.user = Nobody) # (r.user = Nobody)
      BY <2>5, Bill
    <3>2. rows = bill
      BY <2>4
    <3> HIDE DEF bill
    <3> QED
      BY <3>1, <3>2
  <2>7. ledger' = ledger \cup rows
    BY <1>3, <2>4 DEF Records
  <2>8. /\ \A d \in Call \ {c} : req'[d] = req[d]
        /\ req' \in [Call -> Request]
        /\ \/ req'[c] = Ended
           \/ req'[c].stage = "billed" /\ req'[c].user = u /\ req'[c].kind = k
              /\ req'[c].at = at
    <3>1. Ended \in Request
      BY <1>1, BudgetAssumption DEF Ended, NewRequest, Request, Stage
    <3>2. [req[c] EXCEPT !.stage = "billed"] \in Request
      BY <1>1 DEF Request, Stage
    <3>3. CASE Ends(c)
      BY <1>1, <3>1, <3>3 DEF Ends, TypeOK
    <3>4. CASE Goes(c, "billed")
      <4>1. req' = [req EXCEPT ![c] = [req[c] EXCEPT !.stage = "billed"]]
        BY <1>1, <3>4 DEF Goes, TypeOK
      <4>2. req'[c] = [req[c] EXCEPT !.stage = "billed"]
        BY <1>1, <4>1 DEF TypeOK
      <4> QED
        BY <1>1, <2>1, <2>2, <2>3, <3>2, <4>1, <4>2 DEF TypeOK, Request, User, Kind
    <3> QED
      BY <1>3, <3>3, <3>4
  <2>9. req'[c].stage \in {"billed", "ended"}
    BY <2>8 DEF Ended, NewRequest
  <2>10. IsFiniteSet(ledger)' /\ TypeOK'
    <3>1. IsFiniteSet(ledger \cup rows)
      BY <2>6, FS_Union DEF IInv
    <3>2. \A d \in Call : req'[d].stage \notin {"new", "ended"}
                             => req'[d].user \in Player /\ req'[d].kind \in AllKinds
      BY <1>1, <2>5, <2>8, <2>9 DEF TypeOK, User, Kind, Ended, NewRequest
    <3> QED
      BY <1>1, <2>6, <2>7, <2>8, <3>1, <3>2 DEF TypeOK, User, Kind
  <2>11. Bounds'
    <3>1. \A d \in Call : Open(d)' => Open(d) /\ User(d)' = User(d) /\ Kind(d)' = Kind(d)
      BY <1>1, <2>1, <2>2, <2>8 DEF Open, User, Kind, At, Ended, NewRequest
    <3> QED
      BY <3>1, BoundsKept
  <2>12. \A r : InWindow(r)' = InWindow(r)
    BY <1>1 DEF InWindow
  <2>13. MadeCounted'
    BY <1>1, <2>7, <2>12 DEF MadeCounted, IInv
  <2>14. Paired'
    BY <2>6, <2>7 DEF Paired, IInv
  <2>15. ASSUME NEW d \in Call
         PROVE  CallInv(d)'
    <3>1. CASE d # c
      BY <1>1, <2>7, <2>8, <2>12, <3>1, CallStays
    <3>2. CASE d = c /\ req'[c] = Ended
      BY <3>2, CallEnds
    <3>3. CASE /\ d = c /\ req'[c].stage = "billed" /\ req'[c].user = u
               /\ req'[c].kind = k /\ req'[c].at = at
      <4>1. Rows(c)' = rows
        BY <2>4, <3>3 DEF Rows, User, Kind, recordAICallUnderCap, Budgeted, PlayerRow,
                          ProviderRow
      <4> QED
        BY <2>5, <2>7, <3>3, <4>1 DEF CallInv, Fits, At
    <3> QED
      BY <2>8, <3>1, <3>2, <3>3
  <2>16. ASSUME NEW v \in Player, NEW j \in AllKinds, Budgeted(j)
         PROVE  AllowanceStep(v, j)
    <3>1. Pending(v, j)' \subseteq Pending(v, j) \ {c}
      BY <2>8, <2>9 DEF Pending, User, Kind
    <3>2. UserKindCalls(v, j)' \subseteq
              UserKindCalls(v, j) \cup {r \in rows : r.user = v /\ r.kind = j}
      BY <2>7, <2>12 DEF UserKindCalls
    <3>3. CASE v = u /\ j = k
      <4>1. PICK r : r = PlayerRow(c, u, k, at)
        OBVIOUS
      <4>2. r \in Row /\ {s \in rows : s.user = v /\ s.kind = j} \subseteq {r}
        <5>1. PICK s : s = ProviderRow(c, 0, k, at)
          OBVIOUS
        <5>2. r \in Row /\ s.user = Nobody /\ rows = {r, s}
          <6>1. 0 \in 0 .. MaxPasses
            BY BudgetAssumption
          <6> QED
            BY <2>4, <2>5, <2>16, <3>3, <4>1, <5>1, <6>1, RowFields DEF recordAICallUnderCap
        <5> QED
          BY <5>2, BudgetAssumption
      <4>3. c \in Pending(v, j)
        BY <1>1, <2>1, <2>2, <2>5, <3>3 DEF Pending, At
      <4> QED
        BY <3>1, <3>2, <4>2, <4>3, OneTrade DEF AllowanceStep
    <3>4. CASE ~(v = u /\ j = k)
      <4>1. \A r \in rows : r.kind = k /\ r.user \in {u, Nobody}
        BY <2>4, <2>6 DEF recordAICallUnderCap, PlayerRow, ProviderRow
      <4>2. UserKindCalls(v, j)' \subseteq UserKindCalls(v, j)
        BY <3>2, <3>4, <4>1, BudgetAssumption
      <4> QED
        BY <3>1, <4>2, NoTrade DEF AllowanceStep
    <3> QED
      BY <3>3, <3>4
  <2>17. ASSUME NEW p \in Provider
         PROVE  CeilingStep(p)
    <3>1. Cleared(p)' \subseteq Cleared(p) \ {c}
      BY <2>8, <2>9 DEF Cleared, Kind
    <3>2. SoloCalls(p)' \subseteq SoloCalls(p) \cup {r \in rows : r.provider = p}
      BY <2>7, <2>12 DEF SoloCalls, ProviderCalls
    <3>3. CASE Budgeted(k)
      <4>1. PICK r : r = PlayerRow(c, u, k, at)
        OBVIOUS
      <4>2. PICK s : s = ProviderRow(c, 0, k, at)
        OBVIOUS
      <4>3. /\ rows = {r, s} /\ s \in Row /\ r.provider = Nobody
            /\ s.provider = Providers(Env)[k]
        <5>1. 0 \in 0 .. MaxPasses
          BY BudgetAssumption
        <5> QED
          BY <2>4, <2>5, <3>3, <4>1, <4>2, <5>1, RowFields DEF recordAICallUnderCap
      <4>4. p # Nobody
        BY BudgetAssumption DEF Provider
      <4>5. CASE p = Providers(Env)[k]
        <5>1. c \in Cleared(p)
          BY <1>1, <2>2, <4>5 DEF Cleared, At
        <5>2. SoloCalls(p)' \subseteq SoloCalls(p) \cup {s}
          BY <3>2, <4>3, <4>4
        <5> QED
          BY <3>1, <4>3, <5>1, <5>2, OneTrade DEF CeilingStep
      <4>6. CASE p # Providers(Env)[k]
        <5>1. SoloCalls(p)' \subseteq SoloCalls(p)
          BY <3>2, <4>3, <4>4, <4>6
        <5> QED
          BY <3>1, <5>1, NoTrade DEF CeilingStep
      <4> QED
        BY <4>5, <4>6
    <3>4. CASE ~Budgeted(k)
      <4>1. SoloCalls(p)' \subseteq SoloCalls(p)
        BY <2>4, <3>2, <3>4 DEF recordAICallUnderCap
      <4> QED
        BY <3>1, <4>1, NoTrade DEF CeilingStep
    <3> QED
      BY <3>3, <3>4
  <2> QED
    BY <1>1, <2>10, <2>11, <2>13, <2>14, <2>15, <2>16, <2>17, Step
<1> QED
    BY <1>2, <1>3 DEF SpendWrites

\* A judging pass bills the provider, and no player.
LEMMA StartPassStep ==
    ASSUME IInv, NEW d \in Call, StartPass(d)
    PROVE  IInv'
<1>1. /\ TypeOK /\ CallInv(d) /\ runs \in [Call -> Runs] /\ req[d] \in Request
      /\ At(d, "round") /\ req[d].passes < MaxPasses /\ now \in 0 .. MaxTime
      /\ UNCHANGED <<now, runs>>
    BY DEF IInv, TypeOK, Runs, StartPass
<1>2. PICK n \in 0 .. MaxPasses : n = req[d].passes + 1
  <2>1. req[d].passes + 1 \in 0 .. MaxPasses
    BY <1>1, BudgetAssumption DEF Request
  <2> QED
    BY <2>1
<1>3. PICK q : q = [req[d] EXCEPT !.passes = n]
    OBVIOUS
<1>4. /\ req' = [req EXCEPT ![d] = q] /\ q \in Request /\ q.stage = "round"
      /\ q.user = User(d) /\ q.kind = Kind(d)
    BY <1>1, <1>2, <1>3 DEF StartPass, Request, At, User, Kind, TypeOK
<1>5. req'[d] = q /\ (\A e \in Call \ {d} : req'[e] = req[e]) /\ req' \in [Call -> Request]
    BY <1>1, <1>4 DEF TypeOK
<1>6. PICK rows : rows = billProvider(d, n)
    OBVIOUS
<1>7. /\ rows \subseteq Row /\ IsFiniteSet(rows)
      /\ \A r \in rows : r.kind = "duel" /\ r.user = Nobody
  <2>1. CASE Budgeted("duel")
    <3>1. PICK r : r = ProviderRow(d, n, "duel", now)
      OBVIOUS
    <3>2. r \in Row /\ r.kind = "duel" /\ r.user = Nobody
      BY <1>1, <2>1, <3>1, RowFields DEF AllKinds
    <3>3. rows = {r}
      BY <1>6, <2>1, <3>1 DEF billProvider
    <3> QED
      BY <3>2, <3>3, FS_Singleton
  <2>2. CASE ~Budgeted("duel")
    BY <1>6, <2>2, FS_EmptySet DEF billProvider
  <2> QED
    BY <2>1, <2>2
<1>8. ledger' = ledger \cup rows /\ made' = made \cup rows
    BY <1>2, <1>6 DEF StartPass, Records
<1>9. \A r : InWindow(r)' = InWindow(r)
    BY <1>1 DEF InWindow
<1>10. IsFiniteSet(ledger)' /\ TypeOK'
  <2>1. IsFiniteSet(ledger \cup rows)
    BY <1>7, FS_Union DEF IInv
  <2>2. \A e \in Call : req'[e].stage \notin {"new", "ended"}
                           => req'[e].user \in Player /\ req'[e].kind \in AllKinds
    BY <1>1, <1>4, <1>5 DEF TypeOK, User, Kind, At
  <2> QED
    BY <1>1, <1>5, <1>7, <1>8, <2>1, <2>2 DEF TypeOK, User, Kind
<1>11. Bounds'
  <2>1. \A e \in Call : Open(e)' => Open(e) /\ User(e)' = User(e) /\ Kind(e)' = Kind(e)
    BY <1>4, <1>5 DEF Open, User, Kind
  <2> QED
    BY <2>1, BoundsKept
<1>12. MadeCounted'
    BY <1>8, <1>9 DEF MadeCounted, IInv
<1>13. Paired'
    BY <1>7, <1>8 DEF Paired, IInv, Solo
<1>14. ASSUME NEW e \in Call
       PROVE  CallInv(e)'
  <2>1. CASE e # d
    BY <1>5, <1>8, <1>9, <2>1, CallStays
  <2>2. CASE e = d
    BY <1>1, <1>4, <1>5, <2>2 DEF CallInv, Fits, At, User, Kind
  <2> QED
    BY <2>1, <2>2
<1>15. ASSUME NEW v \in Player, NEW j \in AllKinds
       PROVE  AllowanceStep(v, j)
  <2>1. Pending(v, j)' \subseteq Pending(v, j)
    BY <1>4, <1>5 DEF Pending, User, Kind
  <2>2. UserKindCalls(v, j)' \subseteq UserKindCalls(v, j)
    BY <1>7, <1>8, <1>9, BudgetAssumption DEF UserKindCalls
  <2> QED
    BY <2>1, <2>2, NoTrade DEF AllowanceStep
<1>16. ASSUME NEW p \in Provider
       PROVE  CeilingStep(p)
  <2>1. Cleared(p)' \subseteq Cleared(p)
    BY <1>4, <1>5 DEF Cleared, Kind
  <2>2. SoloCalls(p)' \subseteq SoloCalls(p)
    BY <1>7, <1>8, <1>9 DEF SoloCalls, ProviderCalls, Solo
  <2> QED
    BY <2>1, <2>2, NoTrade DEF CeilingStep
<1> QED
    BY <1>1, <1>8, <1>10, <1>11, <1>12, <1>13, <1>14, <1>15, <1>16, Step

\* Joining a match bills its two players, whose room was pending since their checks.
LEMMA JoinStep ==
    ASSUME IInv, NEW c \in Call, NEW d \in Call, At(c, "checked"), Kind(c) = "duel",
           ~InPlay(User(c)), At(d, "waiting"),
           req' = [req EXCEPT ![d].stage = "round", ![d].with = User(c), ![c] = Ended],
           Records(billPlayers(d, {User(d), User(c)})), UNCHANGED <<now, runs, made>>
    PROVE  IInv'
<1>1. /\ TypeOK /\ CallInv(c) /\ CallInv(d) /\ runs \in [Call -> Runs]
      /\ req[c] \in Request /\ req[d] \in Request /\ now \in 0 .. MaxTime /\ c # d
    BY DEF IInv, TypeOK, Runs, At
<1>2. /\ User(c) \in Player /\ User(d) \in Player /\ Kind(d) = "duel" /\ User(c) # User(d)
    BY <1>1 DEF CallInv, Fits, At, User, Kind, InPlay
<1>3. PICK q : q = [req[d] EXCEPT !.stage = "round", !.with = User(c)]
    OBVIOUS
<1>4. /\ q \in Request /\ q.stage = "round" /\ q.user = User(d) /\ q.kind = "duel"
    BY <1>1, <1>2, <1>3 DEF Request, Stage, User, Kind
<1>5. /\ req' \in [Call -> Request] /\ req'[d] = q /\ req'[c] = Ended
      /\ \A e \in Call \ {c, d} : req'[e] = req[e]
  <2>1. Ended \in Request
    BY <1>1, BudgetAssumption DEF Ended, NewRequest, Request, Stage
  <2>2. req' = [req EXCEPT ![d] = q, ![c] = Ended]
    BY <1>1, <1>3 DEF TypeOK
  <2> QED
    BY <1>1, <1>4, <2>1, <2>2 DEF TypeOK
<1>6. req'[c].stage = "ended" /\ req'[c].user = Nobody
    BY <1>5 DEF Ended, NewRequest
<1>7. PICK row \in [Player -> Row] :
         \A u \in Player : /\ row[u] = PlayerRow(d, u, "duel", now)
                           /\ row[u].user = u /\ row[u].kind = "duel"
  <2>1. \A u \in Player : /\ PlayerRow(d, u, "duel", now) \in Row
                          /\ PlayerRow(d, u, "duel", now).user = u
                          /\ PlayerRow(d, u, "duel", now).kind = "duel"
    BY <1>1, RowFields DEF AllKinds
  <2>2. [u \in Player |-> PlayerRow(d, u, "duel", now)] \in [Player -> Row]
    BY <2>1
  <2> QED
    BY <2>1, <2>2
<1>8. PICK rows : /\ rows = IF Budgeted("duel") THEN {row[User(d)], row[User(c)]} ELSE {}
                  /\ ledger' = ledger \cup rows
  <2>1. ledger' = ledger \cup billPlayers(d, {User(d), User(c)})
    BY DEF Records
  <2>2. /\ row[User(d)] = PlayerRow(d, User(d), "duel", now)
        /\ row[User(c)] = PlayerRow(d, User(c), "duel", now)
    BY <1>2, <1>7
  <2>3. {PlayerRow(d, u, "duel", now) : u \in {User(d), User(c)}}
            = {PlayerRow(d, User(d), "duel", now), PlayerRow(d, User(c), "duel", now)}
    OBVIOUS
  <2>4. billPlayers(d, {User(d), User(c)})
            = IF Budgeted("duel") THEN {row[User(d)], row[User(c)]} ELSE {}
    BY <2>2, <2>3 DEF billPlayers
  <2> QED
    BY <2>1, <2>4
<1>9. /\ rows \subseteq Row /\ IsFiniteSet(rows) /\ \A r \in rows : r.kind = "duel"
  <2>1. IsFiniteSet({row[User(d)], row[User(c)]})
    <3>1. /\ IsFiniteSet({row[User(d)]})
          /\ {row[User(d)], row[User(c)]} = {row[User(d)]} \cup {row[User(c)]}
      BY FS_Singleton
    <3> QED
      BY <3>1, FS_AddElement
  <2> QED
    BY <1>2, <1>7, <1>8, <2>1, FS_EmptySet
<1>10. \A r : InWindow(r)' = InWindow(r)
    BY DEF InWindow
<1>11. IsFiniteSet(ledger)' /\ TypeOK'
  <2>1. IsFiniteSet(ledger \cup rows)
    BY <1>9, FS_Union DEF IInv
  <2>2. \A e \in Call : req'[e].stage \notin {"new", "ended"}
                           => req'[e].user \in Player /\ req'[e].kind \in AllKinds
    BY <1>1, <1>2, <1>4, <1>5, <1>6 DEF TypeOK, User, Kind, AllKinds
  <2> QED
    BY <1>1, <1>5, <1>8, <1>9, <2>1, <2>2 DEF TypeOK, User, Kind
<1>12. Bounds'
  <2>1. \A e \in Call : Open(e)' => Open(e) /\ User(e)' = User(e) /\ Kind(e)' = Kind(e)
    BY <1>4, <1>5, <1>6 DEF Open, User, Kind
  <2> QED
    BY <2>1, BoundsKept
<1>13. MadeCounted' /\ Paired'
    BY <1>8, <1>9, <1>10 DEF MadeCounted, Paired, IInv, Solo
<1>14. ASSUME NEW e \in Call
       PROVE  CallInv(e)'
  <2>1. CASE e \notin {c, d}
    BY <1>5, <1>8, <1>10, <2>1, CallStays
  <2>2. CASE e = d
    BY <1>2, <1>4, <1>5, <2>2 DEF CallInv, Fits, At, AllKinds
  <2>3. CASE e = c
    BY <1>5, <2>3, CallEnds
  <2> QED
    BY <2>1, <2>2, <2>3
<1>15. ASSUME NEW v \in Player, NEW j \in AllKinds
       PROVE  AllowanceStep(v, j)
  <2>1. Pending(v, j)' \subseteq Pending(v, j) \ {c, d}
    BY <1>4, <1>5, <1>6 DEF Pending, User, Kind
  <2>2. UserKindCalls(v, j)' \subseteq
            UserKindCalls(v, j) \cup {r \in rows : r.user = v /\ r.kind = j}
    BY <1>8, <1>10 DEF UserKindCalls
  <2>3. c \in Pending(User(c), "duel") /\ d \in Pending(User(d), "duel")
    BY <1>2 DEF Pending, At
  <2>4. ASSUME j = "duel", NEW e \in {c, d}, v = User(e)
        PROVE  AllowanceStep(v, j)
    <3>1. {r \in rows : r.user = v /\ r.kind = j} \subseteq {row[v]}
      BY <1>2, <1>7, <1>8, <2>4
    <3>2. e \in Pending(v, j)
      BY <2>3, <2>4
    <3> QED
      BY <1>7, <2>1, <2>2, <3>1, <3>2, OneTrade DEF AllowanceStep
  <2>5. ASSUME j # "duel" \/ v \notin {User(c), User(d)}
        PROVE  AllowanceStep(v, j)
    <3>1. UserKindCalls(v, j)' \subseteq UserKindCalls(v, j)
      BY <1>2, <1>7, <1>8, <1>9, <2>2, <2>5
    <3> QED
      BY <2>1, <3>1, NoTrade DEF AllowanceStep
  <2> QED
    BY <2>4, <2>5
<1>16. ASSUME NEW p \in Provider
       PROVE  CeilingStep(p)
  <2>1. Cleared(p)' \subseteq Cleared(p)
    BY <1>4, <1>5, <1>6 DEF Cleared, Kind
  <2>2. SoloCalls(p)' \subseteq SoloCalls(p)
    BY <1>8, <1>9, <1>10 DEF SoloCalls, ProviderCalls, Solo
  <2> QED
    BY <2>1, <2>2, NoTrade DEF CeilingStep
<1> QED
    BY <1>1, <1>11, <1>12, <1>13, <1>14, <1>15, <1>16, Step

LEMMA PlayStep ==
    ASSUME IInv, NEW c \in Call, Play(c)
    PROVE  IInv'
BY EndSteps, CreateStep, JoinStep DEF Play

(***************************************************************************)
(* The process, its sweeper and the clock.                                 *)
(***************************************************************************)
LEMMA SweepStep ==
    ASSUME IInv, Sweep
    PROVE  IInv'
<1>1. TypeOK /\ UNCHANGED <<now, req, runs, made>> /\ now \in Nat
    BY DEF IInv, TypeOK, Sweep
<1>2. PICK skew \in -MaxSkew .. MaxSkew : ledger' = Kept(skew)
    BY DEF Sweep
<1>3. ledger' \subseteq ledger /\ \A r \in ledger : r.at < now + skew - Retention \/ r \in ledger'
    BY <1>2 DEF Kept
<1>4. \A r : InWindow(r)' = InWindow(r)
    BY <1>1 DEF InWindow
\* The window is younger than what the sweep may take.
<1>5. ASSUME NEW r \in ledger, InWindow(r)
      PROVE  r \in ledger'
  <2>1. r.at \in Int
    BY <1>1 DEF TypeOK, Row
  <2>2. r.at > now - Window
    BY <1>5 DEF InWindow
  <2>3. now + skew - Retention <= now - Window
    <3>1. /\ skew \in Int /\ skew <= MaxSkew /\ MaxSkew \in Nat /\ Window \in Nat
          /\ Retention \in Nat /\ Window + MaxSkew <= Retention
      BY BudgetAssumption
    <3> QED
      BY <1>1, <3>1
  <2>4. /\ skew \in Int /\ Window \in Nat /\ Retention \in Nat
    BY BudgetAssumption
  <2> QED
    BY <1>1, <1>3, <2>1, <2>2, <2>3, <2>4
<1>6. IsFiniteSet(ledger)' /\ TypeOK'
  <2>1. IsFiniteSet(ledger')
    BY <1>3, FS_Subset DEF IInv
  <2> QED
    BY <1>1, <1>3, <2>1 DEF TypeOK, User, Kind
<1>7. Bounds'
    BY <1>1 DEF IInv, Bounds, Opened, OpenOf, Open, User, Kind
<1>8. MadeCounted'
    BY <1>1, <1>4, <1>5 DEF MadeCounted, IInv
<1>9. Paired'
  <2>1. ASSUME NEW r \in ledger', NEW s \in ledger, s.at = r.at
        PROVE  s \in ledger'
    BY <1>2, <2>1 DEF Kept
  <2> QED
    BY <1>3, <2>1 DEF Paired, IInv
<1>10. \A c \in Call : CallInv(c)'
    BY <1>1, <1>4, <1>5, CallStays
<1>11. /\ \A u, k : Pending(u, k)' = Pending(u, k) /\ UserKindCalls(u, k)' \subseteq UserKindCalls(u, k)
       /\ \A p : Cleared(p)' = Cleared(p) /\ SoloCalls(p)' \subseteq SoloCalls(p)
    BY <1>1, <1>3, <1>4 DEF Pending, UserKindCalls, Cleared, SoloCalls, ProviderCalls, User, Kind
<1>12. /\ \A u \in Player, k \in AllKinds : AllowanceStep(u, k)
       /\ \A p \in Provider : CeilingStep(p)
    BY <1>11, NoTrade DEF AllowanceStep, CeilingStep
<1> QED
    BY <1>1, <1>6, <1>7, <1>8, <1>9, <1>10, <1>12, Step

LEMMA TickStep ==
    ASSUME IInv, Tick
    PROVE  IInv'
<1>1. /\ TypeOK /\ UNCHANGED <<ledger, req, runs, made>> /\ now \in Nat /\ now' = now + 1
      /\ now' \in 0 .. MaxTime
    BY BudgetAssumption DEF IInv, TypeOK, Tick
<1>2. \A r \in Row : InWindow(r)' => InWindow(r)
  <2>1. \A r \in Row : r.at \in Int
    BY DEF Row
  <2> QED
    BY <1>1, <2>1, BudgetAssumption DEF InWindow
<1>3. ledger \subseteq Row /\ made \subseteq Row
    BY <1>1 DEF TypeOK
<1>4. IsFiniteSet(ledger)' /\ TypeOK'
    BY <1>1 DEF TypeOK, User, Kind, IInv
<1>5. Bounds'
    BY <1>1 DEF IInv, Bounds, Opened, OpenOf, Open, User, Kind
<1>6. MadeCounted' /\ Paired'
    BY <1>1, <1>2, <1>3 DEF MadeCounted, Paired, IInv
<1>7. \A c \in Call : CallInv(c)'
    BY <1>1, <1>2, CallStays
<1>8. /\ \A u, k : Pending(u, k)' = Pending(u, k) /\ UserKindCalls(u, k)' \subseteq UserKindCalls(u, k)
      /\ \A p : Cleared(p)' = Cleared(p) /\ SoloCalls(p)' \subseteq SoloCalls(p)
    BY <1>1, <1>2, <1>3 DEF Pending, UserKindCalls, Cleared, SoloCalls, ProviderCalls, User, Kind
<1>9. /\ \A u \in Player, k \in AllKinds : AllowanceStep(u, k)
      /\ \A p \in Provider : CeilingStep(p)
    BY <1>8, NoTrade DEF AllowanceStep, CeilingStep
<1> QED
    BY <1>1, <1>4, <1>5, <1>6, <1>7, <1>9, Step

\* The inserts that commit as the process dies were pending.
LEMMA CrashStep ==
    ASSUME IInv, Crash
    PROVE  IInv'
<1>1. /\ TypeOK /\ UNCHANGED <<now, runs, made>>
      /\ req' = [c \in Call |-> IF Open(c) THEN Ended ELSE req[c]]
    BY DEF IInv, TypeOK, Crash
<1>2. PICK committed \in SUBSET {c \in Call : At(c, "spending")} :
         ledger' = ledger \union UNION {Rows(c) : c \in committed}
    BY DEF Crash, Records
<1>3. ASSUME NEW c \in committed
      PROVE  /\ c \in Call /\ At(c, "spending") /\ User(c) \in Player /\ Kind(c) \in Solo
             /\ Kind(c) \in AllKinds /\ Kind(c) # "duel" /\ req[c].at \in 0 .. MaxTime
  <2>1. c \in Call /\ At(c, "spending") /\ CallInv(c) /\ req[c] \in Request
    BY <1>1 DEF IInv, TypeOK
  <2> QED
    BY <2>1 DEF CallInv, Fits, At, User, Kind, Solo, Request
<1>4. ASSUME NEW c \in committed
      PROVE  /\ Rows(c) \subseteq Row /\ IsFiniteSet(Rows(c))
             /\ \A r \in Rows(c) :
                   /\ r.call = c /\ r.kind = Kind(c) /\ r.at = req[c].at
                   /\ \E s \in Rows(c) : (s.user = Nobody) # (r.user = Nobody)
             /\ \A r \in Rows(c) :
                   \/ r = PlayerRow(c, User(c), Kind(c), req[c].at)
                   \/ r = ProviderRow(c, 0, Kind(c), req[c].at) /\ Budgeted(Kind(c))
  <2>1. \A r \in Rows(c) :
           \/ r = PlayerRow(c, User(c), Kind(c), req[c].at)
           \/ r = ProviderRow(c, 0, Kind(c), req[c].at) /\ Budgeted(Kind(c))
    BY DEF Rows, recordAICallUnderCap
  <2> QED
    BY <1>3, <2>1, Bill DEF Rows
<1> DEFINE new == UNION {Rows(c) : c \in committed}
<1>5. new \subseteq Row /\ IsFiniteSet(new) /\ ledger' = ledger \cup new
  <2>1. new \subseteq Row
    BY <1>4
  <2>2. IsFiniteSet({Rows(c) : c \in committed})
    <3> DEFINE bills == {Rows(c) : c \in committed}
               bill == [c \in committed |-> Rows(c)]
    <3>1. bill \in Surjection(committed, bills)
      BY DEF Surjection
    <3>2. IsFiniteSet(committed)
      BY FS_Subset, BudgetAssumption
    <3> HIDE DEF bills, bill
    <3> QED
      BY <3>1, <3>2, FS_Surjection DEF bills
  <2>3. IsFiniteSet(new)
    BY <1>4, <2>2, FS_UNION
  <2> QED
    BY <1>2, <2>1, <2>3
<1>6. \A r : InWindow(r)' = InWindow(r)
    BY <1>1 DEF InWindow
<1>7. /\ req' \in [Call -> Request]
      /\ \A c \in Call : IF Open(c) THEN req'[c] = Ended ELSE req'[c] = req[c]
  <2>1. Ended \in Request
    BY <1>1, BudgetAssumption DEF Ended, NewRequest, Request, Stage, TypeOK
  <2> QED
    BY <1>1, <2>1 DEF TypeOK
<1>8. \A c \in Call : ~Open(c)'
    BY <1>7 DEF Open, Ended, NewRequest
<1>9. IsFiniteSet(ledger)' /\ TypeOK'
  <2>1. IsFiniteSet(ledger \cup new)
    <3> HIDE DEF new
    <3> QED
      BY <1>5, FS_Union DEF IInv
  <2>2. \A c \in Call : req'[c].stage \notin {"new", "ended"}
                           => req'[c].user \in Player /\ req'[c].kind \in AllKinds
    BY <1>1, <1>7 DEF TypeOK, User, Kind, Ended, NewRequest
  <2> HIDE DEF new
  <2> QED
    BY <1>1, <1>5, <1>7, <2>1, <2>2 DEF TypeOK, User, Kind
<1>10. Bounds'
    BY <1>8, BoundsKept
<1>11. MadeCounted'
    BY <1>1, <1>5, <1>6 DEF MadeCounted, IInv
<1>12. Paired'
  <2> SUFFICES ASSUME NEW r \in ledger', r.kind \in Solo
               PROVE  \E s \in ledger' : /\ s.call = r.call /\ s.kind = r.kind /\ s.at = r.at
                                         /\ (s.user = Nobody) # (r.user = Nobody)
    BY DEF Paired
  <2>1. CASE r \in ledger
    BY <1>5, <2>1 DEF IInv, Paired
  <2>2. CASE r \in new
    <3>1. PICK c \in committed : r \in Rows(c)
      BY <2>2
    <3>2. PICK s \in Rows(c) : (s.user = Nobody) # (r.user = Nobody)
      BY <1>4, <3>1
    <3>3. s \in ledger'
      BY <1>5
    <3> QED
      BY <1>4, <3>1, <3>2, <3>3
  <2> QED
    BY <1>5, <2>1, <2>2
<1>13. ASSUME NEW c \in Call
       PROVE  CallInv(c)'
  <2>1. CASE Open(c)
    BY <1>7, <2>1, CallEnds
  <2>2. CASE ~Open(c)
    BY <1>1, <1>5, <1>6, <1>7, <2>2, CallStays
  <2> QED
    BY <2>1, <2>2
<1>14. ASSUME NEW u \in Player, NEW k \in AllKinds, Budgeted(k)
       PROVE  AllowanceStep(u, k)
  <2> DEFINE M == {c \in committed : User(c) = u /\ Kind(c) = k}
             f == [c \in M |-> PlayerRow(c, u, k, req[c].at)]
  <2>1. M \in SUBSET Pending(u, k)
    BY <1>3 DEF Pending, At
  <2>2. f \in [M -> Row]
    BY <1>3, RowFields
  <2>3. Pending(u, k)' \subseteq Pending(u, k) \ M
    <3>1. \A c \in Pending(u, k)' : c \in Call /\ req'[c] = req[c] /\ ~Open(c)
      BY <1>7 DEF Pending, Ended, NewRequest
    <3> QED
      BY <1>3, <3>1 DEF Pending, User, Kind, At, Open
  <2>4. UserKindCalls(u, k)' \subseteq UserKindCalls(u, k) \union {f[c] : c \in M}
    <3> SUFFICES ASSUME NEW r \in ledger', r.user = u, r.kind = k, InWindow(r)
                 PROVE  r \in UserKindCalls(u, k) \union {f[c] : c \in M}
      BY <1>6 DEF UserKindCalls
    <3>1. CASE r \in ledger
      BY <3>1 DEF UserKindCalls
    <3>2. CASE r \in new
      <4>1. PICK c \in committed : r \in Rows(c)
        BY <3>2
      <4>2. 0 \in 0 .. MaxPasses /\ u # Nobody
        BY BudgetAssumption
      <4>3. r.kind = Kind(c) /\ r = PlayerRow(c, User(c), Kind(c), req[c].at)
        BY <1>3, <1>4, <4>1, <4>2, RowFields
      <4>4. User(c) = u
        BY <1>3, <4>3, RowFields
      <4>5. c \in M /\ r = f[c]
        BY <4>3, <4>4
      <4> HIDE DEF f, M
      <4> QED
        BY <4>5
    <3> QED
      BY <1>5, <3>1, <3>2
  <2> HIDE DEF f, M
  <2>5. Traded(UserKindCalls(u, k), Pending(u, k), UserKindCalls(u, k)', Pending(u, k)')
    BY <2>1, <2>2, <2>3, <2>4 DEF Traded
  <2> QED
    BY <2>5 DEF AllowanceStep
<1>15. ASSUME NEW p \in Provider
       PROVE  CeilingStep(p)
  <2> DEFINE M == {c \in committed : Providers(Env)[Kind(c)] = p}
             f == [c \in M |-> ProviderRow(c, 0, Kind(c), req[c].at)]
  <2>1. M \in SUBSET Cleared(p)
    BY <1>3 DEF Cleared, At
  <2>2. f \in [M -> Row]
    <3>1. ASSUME NEW c \in M
          PROVE  ProviderRow(c, 0, Kind(c), req[c].at) \in Row
      <4>1. 0 \in 0 .. MaxPasses /\ Budgeted(Kind(c))
        BY BudgetAssumption DEF Budgeted, Provider
      <4> QED
        BY <1>3, <4>1, RowFields
    <3> QED
      BY <3>1
  <2>3. Cleared(p)' \subseteq Cleared(p) \ M
    BY <1>7 DEF Cleared, Ended, NewRequest, Open
  <2>4. SoloCalls(p)' \subseteq SoloCalls(p) \union {f[c] : c \in M}
    <3> SUFFICES ASSUME NEW r \in ledger', r.provider = p, r.kind \in Solo, InWindow(r)
                 PROVE  r \in SoloCalls(p) \union {f[c] : c \in M}
      BY <1>6 DEF SoloCalls, ProviderCalls
    <3>1. CASE r \in ledger
      BY <3>1 DEF SoloCalls, ProviderCalls
    <3>2. CASE r \in new
      <4>1. PICK c \in committed : r \in Rows(c)
        BY <3>2
      <4>2. 0 \in 0 .. MaxPasses /\ p # Nobody
        BY BudgetAssumption DEF Provider
      <4>3. r = ProviderRow(c, 0, Kind(c), req[c].at)
        BY <1>3, <1>4, <4>1, <4>2, RowFields
      <4>4. Providers(Env)[Kind(c)] = p
        BY <1>3, <4>2, <4>3, RowFields
      <4>5. c \in M /\ r = f[c]
        BY <4>3, <4>4
      <4> HIDE DEF f, M
      <4> QED
        BY <4>5
    <3> QED
      BY <1>5, <3>1, <3>2
  <2> HIDE DEF f, M
  <2>5. Traded(SoloCalls(p), Cleared(p), SoloCalls(p)', Cleared(p)')
    BY <2>1, <2>2, <2>3, <2>4 DEF Traded
  <2> QED
    BY <2>5 DEF CeilingStep
<1> QED
    BY <1>1, <1>9, <1>10, <1>11, <1>12, <1>13, <1>14, <1>15, Step

(***************************************************************************)
(* The theorems.                                                           *)
(***************************************************************************)
LEMMA InitIInv ==
    Init => IInv
<1> SUFFICES ASSUME Init PROVE IInv
    OBVIOUS
<1>1. /\ ledger = {} /\ made = {} /\ now = 0 /\ runs = [c \in Call |-> "none"]
      /\ req \in [Call -> Request] /\ \A c \in Call : req[c].stage = "new"
  <2>1. NewRequest \in Request
    BY BudgetAssumption DEF NewRequest, Request, Stage
  <2> QED
    BY <2>1 DEF Init, NewRequest
<1>2. TypeOK
    BY <1>1, BudgetAssumption DEF TypeOK
<1>3. IsFiniteSet({}) /\ Cardinality({}) = 0
    BY FS_EmptySet
<1>4. /\ \A u, k : OpenOf(u, k) = {} /\ Pending(u, k) = {} /\ UserKindCalls(u, k) = {}
      /\ \A p : SoloCalls(p) = {} /\ Cleared(p) = {}
      /\ Opened = {}
    BY <1>1 DEF OpenOf, Pending, UserKindCalls, SoloCalls, ProviderCalls, Cleared, Opened, Open
<1>5. Bounds
    BY <1>3, <1>4, ParallelAssumption DEF Bounds
<1>6. AllowanceHolds
  <2>1. \A k \in AllKinds : Budgeted(k) => 1 <= PerUser(Env)[k] /\ PerUser(Env)[k] \in Int
    BY Booted, Ceilings DEF Boots, Policies, Budgeted
  <2> QED
    BY <1>3, <1>4, <2>1, ParallelAssumption DEF AllowanceHolds, CountUserKindCalls
<1>7. CeilingHolds
  <2>1. Env.aiDailyGlobal >= 1 /\ Env.aiDailyGlobal \in Int
    BY Booted, Ceilings DEF Boots, Load, loadAIBudget
  <2>2. \A p \in Provider : Cardinality(SoloCalls(p)) = 0 /\ Cardinality(Cleared(p)) = 0
    BY <1>3, <1>4
  <2> QED
    BY <2>1, <2>2, ParallelAssumption DEF CeilingHolds, SoloCalls
<1>8. MadeCounted /\ Paired /\ ScoredMade
    BY <1>1 DEF MadeCounted, Paired, ScoredMade
<1>9. \A c \in Call : CallInv(c)
    BY <1>1 DEF CallInv, Fits, At
<1> QED
    BY <1>1, <1>2, <1>3, <1>5, <1>6, <1>7, <1>8, <1>9 DEF IInv

LEMMA StutterStep ==
    ASSUME IInv, UNCHANGED vars
    PROVE  IInv'
BY DEF vars, IInv, TypeOK, User, Kind, Bounds, Opened, OpenOf, Open, AllowanceHolds,
       CountUserKindCalls, UserKindCalls, InWindow, Pending, CeilingHolds, ProviderCalls,
       Cleared, MadeCounted, Paired, ScoredMade, Made, CallInv, Fits, At, Rows,
       recordAICallUnderCap, PlayerRow, ProviderRow, Budgeted

LEMMA NextIInv ==
    IInv /\ [Next]_vars => IInv'
<1> SUFFICES ASSUME IInv, [Next]_vars
             PROVE  IInv'
    OBVIOUS
<1>1. ASSUME NEW c \in Call, Handle(c)
      PROVE  IInv'
    BY <1>1, ArriveStep, EndSteps, CheckSteps, WorkSteps, SpendReadsStep, SpendWritesStep,
       AskStep, PlayStep, StartPassStep DEF Handle
<1> QED
    BY <1>1, SweepStep, CrashStep, TickStep, StutterStep DEF Next

LEMMA SpecIInv ==
    Spec => []IInv
BY InitIInv, NextIInv, PTL DEF Spec

\* Requests, rows and runs keep their types, whatever is asked at once.
THEOREM AICallTypes ==
    Spec => []TypeOK
BY SpecIInv, PTL DEF IInv

\* The allowance is overrun by no more than the requests of one player and kind that run
\* at once, less one: Budget.check and the conditional insert count before they write, and
\* a duel's creator keeps the room that was checked while the match waits.
THEOREM AllowanceAlwaysHolds ==
    Spec => []AllowanceHolds
BY SpecIInv, PTL DEF IInv

\* The ceiling of a provider gates no insert, and the solo calls billed to it overrun it by
\* no more than the requests under way at once, less one.
THEOREM CeilingAlwaysHolds ==
    Spec => []CeilingHolds
BY SpecIInv, PTL DEF IInv

\* Whatever crashes between bill and answer, and however early the sweep of the ledger runs
\* within the skew its retention allows for, a request made is counted while it counts.
THEOREM EveryCallAlwaysCounted ==
    Spec => []EveryCallCounted
<1>1. IInv => EveryCallCounted
    BY DEF IInv, MadeCounted, Paired, ScoredMade, Made, EveryCallCounted
<1> QED
    BY <1>1, SpecIInv, PTL
=============================================================================
