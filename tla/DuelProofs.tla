----------------------------- MODULE DuelProofs -----------------------------
(* Proofs about the duel, for any players, matches, instances, slots and   *)
(* limits.                                                                 *)
EXTENDS Leaderboard, MCElo, EloProofs

-----------------------------------------------------------------------------
(* What the helpers return.                                                *)

(* No win is worth less than nothing or more than K. *)
LEMMA WinGainType ==
    ASSUME NEW d
    PROVE  WinGain(d) \in 0..eloK
<1> DEFINE steps == {k \in 1..eloK : d <= WinBand[k]}
<1>1. IsFiniteSet(1..eloK) /\ Cardinality(1..eloK) = eloK
    BY StepsFinite
<1>2. IsFiniteSet(steps) /\ Cardinality(steps) <= Cardinality(1..eloK)
    BY <1>1, FS_Subset
<1>3. Cardinality(steps) \in Nat
    BY <1>2, FS_CardinalityType
<1> QED
    BY <1>1, <1>2, <1>3 DEF WinGain, eloK

(* Every result moves a rating by an integer. *)
LEMMA EloGainType ==
    ASSUME NEW d, NEW s \in Score
    PROVE  EloGain(d, s) \in Int
<1>1. WinGain(d) \in Int /\ WinGain(-d) \in Int
    BY WinGainType DEF eloK
<1>2. CASE s = "win"
    BY <1>1, <1>2 DEF EloGain
<1>3. CASE s = "loss"
    BY <1>1, <1>3 DEF EloGain
<1>4. CASE s = "tie"
    BY <1>1, <1>4 DEF EloGain, eloK
<1> QED
    BY <1>2, <1>3, <1>4 DEF Score

LEMMA DeltaType ==
    ASSUME NEW roster, NEW r, NEW winner
    PROVE  Delta(roster, r, winner) \in [Player -> Int]
<1>1. \A p \in Player : ScoreOf(p, winner) \in Score
    BY DEF ScoreOf, Score
<1> QED
    BY <1>1, EloGainType DEF Delta

LEMMA SeatedType ==
    ASSUME NEW roster, NEW r \in [Player -> Int]
    PROVE  Seated(roster, r) \in [Player -> Int]
BY DEF Seated

(* The row operations return rows. *)
LEMMA NewRowsType ==
    /\ NoRow \in Row
    /\ \A p \in Player, d \in TxDelays : Created(p, d) \in Row
<1>1. NoRatings \in [Player -> Int]
    BY DEF NoRatings
<1>2. NoRow \in Row
    BY <1>1 DEF NoRow, Row, Status, Resolution
<1>3. ASSUME NEW p \in Player, NEW d \in TxDelays
      PROVE  Created(p, d) \in Row
  <2>1. d \in Nat
    BY TimeAssumption DEF TxDelays
  <2> QED
    BY <1>1, <2>1 DEF Created, NoRow, Row, Status, Resolution
<1> QED
    BY <1>2, <1>3

LEMMA FiredType ==
    ASSUME NEW m \in Match
    PROVE  Fired(m) \in RunningPass
<1>1. 0 \in 0..PassSecs
    BY TimeAssumption
<1>2. NoRatings \in [Player -> Int]
    BY DEF NoRatings
<1> QED
    BY <1>1, <1>2 DEF Fired, Idle, RunningPass

LEMMA RowOpsType ==
    ASSUME NEW row \in Row
    PROVE  /\ Abandoned(row) \in Row
           /\ Queued(row) \in Row
           /\ Older(row) \in Row
           /\ \A p \in Player : Stamped(row, p) \in Row
           /\ \A d \in TxDelays : Touched(row, d) \in Row /\ Started(row, d) \in Row
           /\ \A p \in Player, d \in TxDelays : Joined(row, p, d) \in Row
<1>1. TxDelays \subseteq Nat
    BY TimeAssumption DEF TxDelays
<1>2. Abandoned(row) \in Row /\ Queued(row) \in Row
    BY DEF Abandoned, Queued, Row, Status
<1>3. \A n \in Nat : \A c : Upto(n, c) \in Nat
    BY DEF Upto
<1>4. Older(row) \in Row
    BY <1>3 DEF Older, Row
<1>5. \A p \in Player : Stamped(row, p) \in Row
    BY DEF Stamped, Row
<1>6. \A d \in TxDelays : Touched(row, d) \in Row
    BY <1>1 DEF Touched, Row
<1>7. ASSUME NEW d \in TxDelays
      PROVE  Started(row, d) \in Row
  <2>1. d \in Nat /\ row.attempts + 1 \in Nat
    BY <1>1 DEF Row
  <2> QED
    BY <2>1 DEF Started, Row, Status
<1>8. \A p \in Player, d \in TxDelays : Joined(row, p, d) \in Row
    BY <1>1 DEF Joined, Row, Status
<1> QED
    BY <1>2, <1>4, <1>5, <1>6, <1>7, <1>8

LEMMA FinishedType ==
    ASSUME NEW row \in Row, NEW resolution \in Resolution,
           NEW winner \in Player \cup {NoPlayer},
           NEW before \in [Player -> Int], NEW after \in [Player -> Int]
    PROVE  Finished(row, resolution, winner, before, after) \in Row
BY DEF Finished, Row, Status

-----------------------------------------------------------------------------
(* Type correctness.                                                       *)

(* What a queued, started or settled match leaves behind. *)
LEMMA enterJudgingType ==
    ASSUME TypeOK, NEW m \in Match, NEW row \in Row, NEW i \in Instance,
           NEW d \in TxDelays, enterJudging(m, row, i, d)
    PROVE  /\ match' \in [Match -> Row]
           /\ ledger' \in [player : [Player -> Nat], provider : Nat]
           /\ pass' \in [Slot -> RunningPass \cup {Idle}]
<1>1. Queued(row) \in Row /\ Started(row, d) \in Row
    BY RowOpsType
<1>2. CASE Free(i) = {}
    BY <1>1, <1>2 DEF enterJudging, TypeOK
<1>3. CASE Free(i) # {}
  <2>1. PICK k \in Free(i) :
            /\ match' = [match EXCEPT ![m] = Started(row, d)]
            /\ ledger' = [ledger EXCEPT !.provider = @ + 1]
            /\ pass' = [pass EXCEPT ![k] = Fired(m)]
    BY <1>3 DEF enterJudging
  <2> QED
    BY <1>1, <2>1, FiredType DEF TypeOK, Free
<1> QED
    BY <1>2, <1>3

LEMMA SettledRow ==
    ASSUME TypeOK, NEW m \in Match, NEW r, NEW winner, NEW resolution,
           writeFinalResult(m, r, winner, resolution)
    PROVE  /\ rating' \in [Player -> Int]
           /\ \E before, after \in [Player -> Int] :
                 match' = [match EXCEPT ![m] =
                              Finished(match[m], resolution, winner, before, after)]
<1> DEFINE delta == Delta(match[m].roster, r, winner)
           after == [p \in Player |-> rating[p] + delta[p]]
<1>1. delta \in [Player -> Int]
    BY DeltaType
<1>2. after \in [Player -> Int]
    BY <1>1 DEF TypeOK
<1>3. /\ Seated(match[m].roster, rating) \in [Player -> Int]
      /\ Seated(match[m].roster, after) \in [Player -> Int]
    BY <1>2, SeatedType DEF TypeOK
<1> QED
    BY <1>2, <1>3 DEF writeFinalResult

LEMMA writeFinalResultType ==
    ASSUME TypeOK, NEW m \in Match, NEW r, NEW winner \in Player \cup {NoPlayer},
           NEW resolution \in Resolution, writeFinalResult(m, r, winner, resolution)
    PROVE  match' \in [Match -> Row] /\ rating' \in [Player -> Int]
<1>1. PICK before, after \in [Player -> Int] :
          match' = [match EXCEPT ![m] = Finished(match[m], resolution, winner, before, after)]
    BY SettledRow
<1>2. Finished(match[m], resolution, winner, before, after) \in Row
    BY FinishedType DEF TypeOK
<1> QED
    BY <1>1, <1>2, SettledRow DEF TypeOK

LEMMA resolveExpiryType ==
    ASSUME TypeOK, NEW m \in Match, resolveExpiry(m)
    PROVE  match' \in [Match -> Row] /\ rating' \in [Player -> Int]
<1> DEFINE submitted == match[m].submitted
           forfeited == Cardinality(submitted) = 1 /\ Cardinality(match[m].roster) = 2
<1>1. match[m] \in Row /\ submitted \in SUBSET Player
    BY DEF TypeOK, Row
<1>2. Abandoned(match[m]) \in Row /\ Queued(match[m]) \in Row
    BY <1>1, RowOpsType
<1>3. CASE submitted = {}
  <2>1. match' = [match EXCEPT ![m] = Abandoned(match[m])] /\ UNCHANGED rating
    BY <1>3, FS_EmptySet DEF resolveExpiry
  <2> QED
    BY <1>2, <2>1 DEF TypeOK
<1>4. CASE submitted # {} /\ forfeited
  <2>1. writeFinalResult(m, rating, CHOOSE p \in submitted : TRUE, "forfeit")
    BY <1>4 DEF resolveExpiry
  <2>2. (CHOOSE p \in submitted : TRUE) \in Player
    BY <1>1, <1>4
  <2> QED
    BY <2>1, <2>2, writeFinalResultType DEF Resolution
<1>5. CASE submitted # {} /\ ~forfeited
  <2>1. match' = [match EXCEPT ![m] = Queued(match[m])] /\ UNCHANGED rating
    BY <1>5 DEF resolveExpiry
  <2> QED
    BY <1>2, <2>1 DEF TypeOK
<1> QED
    BY <1>3, <1>4, <1>5

LEMMA AdvanceType ==
    ASSUME TypeOK, NEW i \in Instance, NEW todo \in SUBSET Match, Advance(i, todo)
    PROVE  sweep' \in [Instance -> [phase : Phase, todo : SUBSET Match]]
<1>1. \A ph \in Phase : After(ph) \in Phase
    BY DEF Phase, After
<1>2. sweep[i].phase \in Phase
    BY DEF TypeOK
<1> QED
    BY <1>1, <1>2 DEF Advance, TypeOK

LEMMA HandlesType ==
    ASSUME TypeOK, NEW i \in Instance, NEW ph, NEW m, Handles(i, ph, m)
    PROVE  sweep' \in [Instance -> [phase : Phase, todo : SUBSET Match]]
<1>1. sweep[i].todo \ {m} \in SUBSET Match
    BY DEF TypeOK
<1> QED
    BY <1>1, AdvanceType DEF Handles

LEMMA TypeInit == Init => TypeOK
<1>1. Booted \in [phase : Phase, todo : SUBSET Match]
    BY DEF Booted, Phase
<1> QED
    BY <1>1, NewRowsType, IdAssumption DEF Init, TypeOK

LEMMA TypePlay == TypeOK /\ Play => TypeOK'
<1> SUFFICES ASSUME TypeOK, Play PROVE TypeOK'
    OBVIOUS
<1> USE DEF memory
<1>1. ASSUME NEW p \in Player, NEW d \in TxDelays, CreateOrJoin(p, d)
      PROVE  TypeOK'
  <2>1. ASSUME NEW m \in Match, match' = [match EXCEPT ![m] = Touched(@, d)],
               UNCHANGED ledger
        PROVE  TypeOK'
    BY <1>1, <2>1, RowOpsType DEF CreateOrJoin, TypeOK
  <2>2. CASE Create(p, d)
    <3>1. PICK m \in Match : match' = [match EXCEPT ![m] = Created(p, d)]
        BY <2>2 DEF Create
    <3> QED
        BY <1>1, <2>2, <3>1, NewRowsType DEF CreateOrJoin, Create, TypeOK
  <2>3. ASSUME NEW m \in Match, Join(p, m, d)
        PROVE  TypeOK'
    <3>1. match' \in [Match -> Row]
        BY <2>3, RowOpsType DEF Join, TypeOK
    <3>2. ledger' \in [player : [Player -> Nat], provider : Nat]
        BY <2>3 DEF Join, billPlayers, TypeOK
    <3> QED
        BY <1>1, <3>1, <3>2 DEF CreateOrJoin, TypeOK
  <2> QED
    BY <1>1, <2>1, <2>2, <2>3 DEF CreateOrJoin
<1>2. ASSUME NEW p \in Player, NEW m \in Match, Get(p, m)
      PROVE  TypeOK'
  <2>1. 0 \in TxDelays
    BY TimeAssumption DEF TxDelays
  <2> QED
    BY <1>2, <2>1, RowOpsType DEF Get, TypeOK
<1>3. ASSUME NEW p \in Player, NEW m \in Match, Cancel(p, m)
      PROVE  TypeOK'
    BY <1>3, RowOpsType DEF Cancel, TypeOK
<1>4. ASSUME NEW p \in Player, NEW m \in Match, NEW d \in TxDelays, SubmitLate(p, m, d)
      PROVE  TypeOK'
    BY <1>4, resolveExpiryType DEF SubmitLate, TypeOK
<1>5. ASSUME NEW p \in Player, NEW m \in Match, NEW i \in Instance, NEW d \in TxDelays,
             Submit(p, m, i, d)
      PROVE  TypeOK'
  <2>1. Stamped(match[m], p) \in Row
    BY RowOpsType DEF TypeOK
  <2>2. CASE enterJudging(m, Stamped(match[m], p), i, d)
    <3>1. /\ match' \in [Match -> Row]
          /\ ledger' \in [player : [Player -> Nat], provider : Nat]
          /\ pass' \in [Slot -> RunningPass \cup {Idle}]
        BY <2>1, <2>2, enterJudgingType
    <3> QED
        BY <1>5, <3>1 DEF Submit, TypeOK
  <2>3. CASE match' = [match EXCEPT ![m] = Stamped(match[m], p)] /\ UNCHANGED << ledger, pass >>
    BY <1>5, <2>1, <2>3 DEF Submit, TypeOK
  <2> QED
    BY <1>5, <2>2, <2>3 DEF Submit
<1> QED
    BY <1>1, <1>2, <1>3, <1>4, <1>5 DEF Play

LEMMA TypeJudging == TypeOK /\ (\E k \in Slot : Judging(k)) => TypeOK'
<1> SUFFICES ASSUME TypeOK, NEW k \in Slot, Judging(k) PROVE TypeOK'
    OBVIOUS
<1>1. Return(k) => pass' \in [Slot -> RunningPass \cup {Idle}]
    BY DEF Return, TypeOK
<1>2. CASE runJudging(k)
  <2> DEFINE m == pass[k].match
  <2>1. CASE match[m].status = "judging"
    <3>1. Seated(match[m].roster, rating) \in [Player -> Int]
        BY SeatedType DEF TypeOK
    <3>2. pass' = [pass EXCEPT ![k].phase = "scoring",
                               ![k].ratings = Seated(match[m].roster, rating)]
        BY <1>2, <2>1 DEF runJudging
    <3>3. pass[k] \in RunningPass
        BY <1>2 DEF runJudging, TypeOK, Idle
    <3>4. [pass[k] EXCEPT !.phase = "scoring", !.ratings = Seated(match[m].roster, rating)]
              \in RunningPass
        BY <3>1, <3>3 DEF RunningPass
    <3>5. pass' \in [Slot -> RunningPass \cup {Idle}]
        BY <3>2, <3>4 DEF TypeOK
    <3> QED
        BY <1>2, <3>5 DEF runJudging, TypeOK
  <2>2. CASE match[m].status # "judging"
    BY <1>1, <1>2, <2>2 DEF runJudging, TypeOK
  <2> QED
    BY <2>1, <2>2
<1>3. ASSUME NEW winner \in Player \cup {NoPlayer}, persistResult(k, winner)
      PROVE  TypeOK'
  <2> DEFINE m == pass[k].match
  <2>0. m \in Match
    BY <1>3 DEF persistResult, TypeOK, RunningPass, Idle
  <2>1. CASE writeFinalResult(m, pass[k].ratings, winner, "judged")
    <3>1. match' \in [Match -> Row] /\ rating' \in [Player -> Int]
        BY <2>0, <2>1, writeFinalResultType DEF Resolution
    <3> QED
        BY <1>1, <1>3, <3>1 DEF persistResult, TypeOK
  <2>2. CASE UNCHANGED << match, rating >>
    BY <1>1, <1>3, <2>2 DEF persistResult, TypeOK
  <2> QED
    BY <1>3, <2>1, <2>2 DEF persistResult
<1>4. CASE judgeFails(k)
    BY <1>1, <1>4 DEF judgeFails, TypeOK
<1> QED
    BY <1>2, <1>3, <1>4 DEF Judging

LEMMA TypeSweep == TypeOK /\ (\E i \in Instance : Sweep(i)) => TypeOK'
<1> SUFFICES ASSUME TypeOK, NEW i \in Instance, Sweep(i) PROVE TypeOK'
    OBVIOUS
<1>1. CASE List(i)
  <2>1. sweep[i].phase \in Phase
    BY DEF TypeOK
  <2>2. Listed(sweep[i].phase) \in SUBSET Match
    BY <2>1 DEF Listed, Phase
  <2> QED
    BY <1>1, <2>2, AdvanceType DEF List, TypeOK
<1>2. ASSUME NEW m \in Match, NEW d \in TxDelays, resolveExpiredMatch(i, m, d)
      PROVE  TypeOK'
    BY <1>2, HandlesType, resolveExpiryType DEF resolveExpiredMatch, TypeOK
<1>3. ASSUME NEW m \in Match, NEW d \in TxDelays, refireJudging(i, m, d)
      PROVE  TypeOK'
  <2>1. match[m] \in Row
    BY DEF TypeOK
  <2>2. /\ match' \in [Match -> Row]
        /\ ledger' \in [player : [Player -> Nat], provider : Nat]
        /\ pass' \in [Slot -> RunningPass \cup {Idle}]
    BY <1>3, <2>1, enterJudgingType DEF refireJudging, TypeOK
  <2> QED
    BY <1>3, <2>2, HandlesType DEF refireJudging, TypeOK
<1>4. CASE deferStuck(i)
    BY <1>4, AdvanceType DEF deferStuck, TypeOK
<1>5. ASSUME NEW m \in Match, abortJudging(i, m)
      PROVE  TypeOK'
  <2>1. Finished(match[m], "aborted", NoPlayer, NoRatings, NoRatings) \in Row
    <3>1. NoRatings \in [Player -> Int] /\ "aborted" \in Resolution /\ match[m] \in Row
        BY DEF TypeOK, Resolution, NoRatings
    <3> QED
        BY <3>1, FinishedType
  <2> QED
    BY <1>5, <2>1, HandlesType DEF abortJudging, TypeOK
<1>6. ASSUME NEW m \in Match, reapOpenMatch(i, m)
      PROVE  TypeOK'
    BY <1>6, HandlesType, RowOpsType DEF reapOpenMatch, TypeOK
<1> QED
    BY <1>1, <1>2, <1>3, <1>4, <1>5, <1>6 DEF Sweep

LEMMA TypeProcess ==
    TypeOK /\ (\E i \in Instance : Crash(i) \/ Shutdown(i) \/ Restart(i)) => TypeOK'
<1> SUFFICES ASSUME TypeOK, NEW i \in Instance, Crash(i) \/ Shutdown(i) \/ Restart(i)
             PROVE  TypeOK'
    OBVIOUS
<1>1. Booted \in [phase : Phase, todo : SUBSET Match]
    BY DEF Booted, Phase
<1>2. CASE Crash(i)
    BY <1>1, <1>2 DEF Crash, TypeOK
<1>3. CASE Shutdown(i)
    BY <1>3 DEF Shutdown, TypeOK
<1>4. CASE Restart(i)
    BY <1>1, <1>4 DEF Restart, TypeOK
<1> QED
    BY <1>2, <1>3, <1>4

LEMMA TypeTick == TypeOK /\ Tick => TypeOK'
<1> SUFFICES ASSUME TypeOK, Tick PROVE TypeOK'
    OBVIOUS
<1>1. match' \in [Match -> Row]
    BY RowOpsType DEF Tick, TypeOK
<1>2. ASSUME NEW k \in Slot
      PROVE  pass'[k] \in RunningPass \cup {Idle}
  <2>1. CASE Running(k)
    <3>1. pass[k] \in RunningPass
        BY <2>1 DEF TypeOK, Running, Idle
    <3>2. pass[k].age + 1 \in 0..PassSecs
        BY <3>1, TimeAssumption DEF Tick, RunningPass
    <3> QED
        BY <2>1, <3>1, <3>2 DEF Tick, RunningPass
  <2>2. CASE ~Running(k)
    BY <2>2 DEF Tick, TypeOK
  <2> QED
    BY <2>1, <2>2
<1> QED
    BY <1>1, <1>2 DEF Tick, TypeOK

LEMMA TypeStep == TypeOK /\ [Next]_vars => TypeOK'
<1>1. TypeOK /\ UNCHANGED vars => TypeOK'
    BY DEF TypeOK, vars
<1> QED
    BY <1>1, TypePlay, TypeJudging, TypeSweep, TypeProcess, TypeTick DEF Next

(* Every reachable state is well typed: in particular every slot is free   *)
(* or holds a pass on a real match within its budget (limiter.go,          *)
(* service.go judgeMatch).                                                 *)
THEOREM TypeCorrect == Spec => []TypeOK
    BY TypeInit, TypeStep, PTL DEF Spec

-----------------------------------------------------------------------------
(* The life of a row.  A step leaves a row alone or changes it in one of   *)
(* these ways, unless the step is a tick, which ages every row.            *)

Opens(row, new) ==
    row.status = "none" /\ \E p \in Player, d \in TxDelays : new = Created(p, d)

Pairs(row, new) ==
    /\ row.status = "open"
    /\ \E p \in Player \ row.roster, d \in TxDelays : new = Joined(row, p, d)

Pulses(row, new) ==
    row.status = "open" /\ \E d \in TxDelays : new = Touched(row, d)

CallsOff(row, new) ==
    /\ \/ row.status = "open"
       \/ row.status = "drawing" /\ row.submitted = {} /\ row.age >= RoundSecs
    /\ new = Abandoned(row)

Draws(row, new) ==
    /\ row.status = "drawing"
    /\ \E p \in row.roster : Stamped(row, p).submitted # row.roster /\ new = Stamped(row, p)

Collects(row, new) ==
    /\ row.status = "drawing"
    /\ \E p \in row.roster :
          /\ Stamped(row, p).submitted = row.roster
          /\ \/ new = Queued(Stamped(row, p))
             \/ \E d \in TxDelays : new = Started(Stamped(row, p), d)

Refires(row, new) ==
    /\ row.status = "judging" /\ row.attempts < MaxAttempts
    /\ \E d \in TxDelays :
          (row.queued \/ row.age - d >= StaleSecs) /\ new = Started(row, d)

Forfeits(row, new) ==
    /\ row.status = "drawing" /\ row.age >= RoundSecs
    /\ \E p \in row.roster, before, after \in [Player -> Int] :
          row.submitted = {p} /\ new = Finished(row, "forfeit", p, before, after)

Decides(row, new) ==
    /\ row.status = "judging" /\ row.attempts > 0
    /\ \E winner \in row.roster \cup {NoPlayer}, before, after \in [Player -> Int] :
          new = Finished(row, "judged", winner, before, after)

Aborts(row, new) ==
    /\ row.status = "judging" /\ row.attempts >= MaxAttempts
    /\ new = Finished(row, "aborted", NoPlayer, NoRatings, NoRatings)

RowStep(row, new) ==
    \/ new = row
    \/ Opens(row, new) \/ Pairs(row, new) \/ Pulses(row, new) \/ CallsOff(row, new)
    \/ Draws(row, new) \/ Collects(row, new) \/ Refires(row, new)
    \/ Forfeits(row, new) \/ Decides(row, new) \/ Aborts(row, new)

-----------------------------------------------------------------------------
(* The inductive invariant of a round: what a row of each status holds,    *)
(* and that a pass only ever runs for a match that was counted for it.     *)

SeatsFit(row) ==
    /\ row.submitted \subseteq row.roster
    /\ row.status = "open" => Cardinality(row.roster) = 1 /\ row.submitted = {}
    /\ row.status = "drawing" =>
          Cardinality(row.roster) = 2 /\ row.submitted # row.roster
    /\ row.status = "judging" =>
          Cardinality(row.roster) = 2 /\ row.submitted = row.roster
    /\ row.status = "abandoned" => row.submitted = {}

AttemptsFit(row) ==
    /\ row.status \in {"none", "open", "drawing"} => row.attempts = 0
    /\ row.status = "judging" =>
          row.attempts <= MaxAttempts /\ (row.queued => row.attempts < MaxAttempts)

ResultFits(row) ==
    /\ row.status # "done" => row.resolution = "none"
    /\ row.resolution = "judged" =>
          /\ row.submitted = row.roster /\ row.attempts > 0
          /\ row.winner \in row.roster \cup {NoPlayer}
    /\ row.resolution = "forfeit" => row.submitted = {row.winner} /\ row.attempts = 0
    /\ row.resolution = "aborted" =>
          /\ row.attempts = MaxAttempts /\ row.winner = NoPlayer
          /\ row.before = NoRatings /\ row.after = NoRatings

(* Nothing of a settled row is left to age. *)
ClockFits(row) ==
    /\ row.status # "open" => row.seen = 0
    /\ row.status \in Terminal => row.age = 0

RowInv(row) == SeatsFit(row) /\ AttemptsFit(row) /\ ResultFits(row) /\ ClockFits(row)

JudgingBegun(row) == row.status \in {"judging", "done"} /\ row.attempts > 0

RoundInv ==
    /\ TypeOK
    /\ \A m \in Match : RowInv(match[m])
    /\ \A k \in Slot : Running(k) => JudgingBegun(match[pass[k].match])

LEMMA RostersFinite ==
    ASSUME NEW row \in Row
    PROVE  IsFiniteSet(row.roster)
BY FiniteAssumption, FS_Subset DEF Row

(* The invariant of a row survives whatever happens to the row, and a      *)
(* counted match stays counted.                                            *)
LEMMA RowInvKept ==
    ASSUME NEW row \in Row, RowInv(row), NEW new, RowStep(row, new) \/ new = Older(row)
    PROVE  RowInv(new) /\ (JudgingBegun(row) => JudgingBegun(new))
<1> USE DEF RowInv, JudgingBegun
<1>1. CASE new = row
    BY <1>1
<1>2. CASE new = Older(row)
  <2>1. /\ new.status = row.status /\ new.roster = row.roster
        /\ new.submitted = row.submitted /\ new.queued = row.queued
        /\ new.attempts = row.attempts /\ new.resolution = row.resolution
        /\ new.winner = row.winner /\ new.before = row.before /\ new.after = row.after
    BY <1>2 DEF Older, Row
  <2>2. SeatsFit(new) /\ AttemptsFit(new) /\ ResultFits(new)
    BY <2>1 DEF SeatsFit, AttemptsFit, ResultFits
  <2>3. ClockFits(new)
    BY <1>2 DEF ClockFits, Older, Row, Terminal, AgeCap, Upto
  <2> QED
    BY <2>1, <2>2, <2>3
<1>3. CASE Opens(row, new)
  <2>1. PICK p \in Player, d \in TxDelays : new = Created(p, d)
    BY <1>3 DEF Opens
  <2>2. /\ new.status = "open" /\ new.roster = {p} /\ new.submitted = {}
        /\ new.attempts = 0 /\ new.resolution = "none"
    BY <2>1 DEF Created, NoRow
  <2>3. Cardinality({p}) = 1
    BY FS_Singleton
  <2> QED
    BY <1>3, <2>2, <2>3 DEF Opens, SeatsFit, AttemptsFit, ResultFits, ClockFits, Terminal
<1>4. CASE Pairs(row, new)
  <2>1. PICK p \in Player \ row.roster, d \in TxDelays : new = Joined(row, p, d)
    BY <1>4 DEF Pairs
  <2>2. /\ new.status = "drawing" /\ new.roster = row.roster \cup {p} /\ new.submitted = {}
        /\ new.attempts = 0 /\ new.resolution = "none" /\ new.seen = 0
    BY <1>4, <2>1 DEF Pairs, Joined, Row, SeatsFit, AttemptsFit, ResultFits
  <2>3. Cardinality(row.roster) = 1 /\ p \notin row.roster
    BY <1>4, <2>1 DEF Pairs, SeatsFit
  <2>4. Cardinality(row.roster \cup {p}) = 2
    <3>1. IsFiniteSet(row.roster)
        BY RostersFinite
    <3>2. Cardinality(row.roster \cup {p}) = Cardinality(row.roster) + 1
        BY <2>3, <3>1, FS_AddElement
    <3> QED
        BY <2>3, <3>2
  <2> QED
    BY <1>4, <2>2, <2>4 DEF Pairs, SeatsFit, AttemptsFit, ResultFits, ClockFits, Terminal
<1>5. CASE Pulses(row, new)
  <2>1. /\ new.status = row.status /\ new.roster = row.roster
        /\ new.submitted = row.submitted /\ new.attempts = row.attempts
        /\ new.resolution = row.resolution
    BY <1>5 DEF Pulses, Touched, Row
  <2> QED
    BY <1>5, <2>1 DEF Pulses, SeatsFit, AttemptsFit, ResultFits, ClockFits, Terminal
<1>6. CASE CallsOff(row, new)
  <2>1. /\ new.status = "abandoned" /\ new.roster = row.roster
        /\ new.submitted = {} /\ new.attempts = row.attempts
        /\ new.resolution = "none" /\ new.age = 0 /\ new.seen = 0
    BY <1>6 DEF CallsOff, Abandoned, Row, SeatsFit, ResultFits
  <2> QED
    BY <1>6, <2>1 DEF CallsOff, SeatsFit, AttemptsFit, ResultFits, ClockFits
<1>7. CASE Draws(row, new)
  <2>1. PICK p \in row.roster : Stamped(row, p).submitted # row.roster /\ new = Stamped(row, p)
    BY <1>7 DEF Draws
  <2>2. /\ new.status = "drawing" /\ new.roster = row.roster
        /\ new.submitted = row.submitted \cup {p} /\ new.attempts = row.attempts
        /\ new.resolution = row.resolution /\ new.seen = row.seen
    BY <1>7, <2>1 DEF Draws, Stamped, Row
  <2> QED
    BY <1>7, <2>1, <2>2 DEF Draws, SeatsFit, AttemptsFit, ResultFits, ClockFits, Terminal
<1>8. CASE Collects(row, new)
  <2>1. PICK p \in row.roster :
            /\ Stamped(row, p).submitted = row.roster
            /\ \/ new = Queued(Stamped(row, p))
               \/ \E d \in TxDelays : new = Started(Stamped(row, p), d)
    BY <1>8 DEF Collects
  <2>2. /\ new.status = "judging" /\ new.roster = row.roster /\ new.submitted = row.roster
        /\ new.resolution = row.resolution /\ new.seen = row.seen
        /\ \/ new.attempts = row.attempts
           \/ ~new.queued /\ new.attempts = row.attempts + 1
    BY <2>1 DEF Stamped, Queued, Started, Row
  <2>3. row.attempts = 0
    BY <1>8 DEF Collects, AttemptsFit
  <2>4. new.attempts <= MaxAttempts /\ (new.queued => new.attempts < MaxAttempts)
    BY <2>2, <2>3, TimeAssumption
  <2>5. SeatsFit(new) /\ AttemptsFit(new) /\ ClockFits(new)
    BY <1>8, <2>2, <2>4 DEF Collects, SeatsFit, AttemptsFit, ClockFits, Terminal
  <2>6. ResultFits(new) /\ ~JudgingBegun(row)
    BY <1>8, <2>2 DEF Collects, ResultFits
  <2> QED
    BY <2>5, <2>6
<1>9. CASE Refires(row, new)
  <2>1. /\ new.status = "judging" /\ new.roster = row.roster /\ new.submitted = row.submitted
        /\ new.resolution = row.resolution /\ new.seen = row.seen
        /\ ~new.queued /\ new.attempts = row.attempts + 1
    BY <1>9 DEF Refires, Started, Row
  <2>2. new.attempts <= MaxAttempts /\ new.attempts > 0
    BY <1>9, <2>1, TimeAssumption DEF Refires, Row
  <2> QED
    BY <1>9, <2>1, <2>2 DEF Refires, SeatsFit, AttemptsFit, ResultFits, ClockFits, Terminal
<1>10. CASE Forfeits(row, new)
  <2>1. PICK p \in row.roster, before, after \in [Player -> Int] :
            row.submitted = {p} /\ new = Finished(row, "forfeit", p, before, after)
    BY <1>10 DEF Forfeits
  <2>2. /\ new.status = "done" /\ new.roster = row.roster /\ new.submitted = {p}
        /\ new.resolution = "forfeit" /\ new.winner = p /\ new.attempts = row.attempts
        /\ new.seen = row.seen /\ new.age = 0
    BY <2>1 DEF Finished, Row
  <2> QED
    BY <1>10, <2>2 DEF Forfeits, SeatsFit, AttemptsFit, ResultFits, ClockFits
<1>11. CASE Decides(row, new)
  <2>1. PICK winner \in row.roster \cup {NoPlayer}, before, after \in [Player -> Int] :
            new = Finished(row, "judged", winner, before, after)
    BY <1>11 DEF Decides
  <2>2. /\ new.status = "done" /\ new.roster = row.roster /\ new.submitted = row.submitted
        /\ new.resolution = "judged" /\ new.winner = winner /\ new.attempts = row.attempts
        /\ new.seen = row.seen /\ new.age = 0
    BY <2>1 DEF Finished, Row
  <2> QED
    BY <1>11, <2>2 DEF Decides, SeatsFit, AttemptsFit, ResultFits, ClockFits
<1>12. CASE Aborts(row, new)
  <2>1. /\ new.status = "done" /\ new.roster = row.roster /\ new.submitted = row.submitted
        /\ new.resolution = "aborted" /\ new.winner = NoPlayer /\ new.attempts = row.attempts
        /\ new.before = NoRatings /\ new.after = NoRatings
        /\ new.seen = row.seen /\ new.age = 0
    BY <1>12 DEF Aborts, Finished, Row
  <2>2. row.attempts = MaxAttempts
    BY <1>12, TimeAssumption DEF Aborts, AttemptsFit, Row
  <2> QED
    BY <1>12, <2>1, <2>2 DEF Aborts, SeatsFit, AttemptsFit, ResultFits, ClockFits
<1> QED
    BY <1>1, <1>2, <1>3, <1>4, <1>5, <1>6, <1>7, <1>8, <1>9, <1>10, <1>11, <1>12 DEF RowStep

-----------------------------------------------------------------------------
(* What a step other than a tick does to the rows and to the slots.        *)

(* Slot k starts a pass of m, with the flip or the re-fire that counts it. *)
Starts(k, m) ==
    /\ pass[k] = Idle /\ pass' = [pass EXCEPT ![k] = Fired(m)]
    /\ Collects(match[m], match'[m]) \/ Refires(match[m], match'[m])
    /\ match'[m].status = "judging" /\ ~match'[m].queued
    /\ match'[m].age \in TxDelays /\ match'[m].attempts > 0

(* No slot starts a pass. *)
StartsNone == \A k \in Slot :
    \/ pass'[k] = Idle
    \/ pass'[k].match = pass[k].match /\ pass'[k].age = pass[k].age

RowsMove == \A m \in Match : RowStep(match[m], match'[m])
PassesMove == StartsNone \/ \E k \in Slot, m \in Match : Starts(k, m)

LEMMA OneRowMoves ==
    ASSUME TypeOK, NEW m \in Match, NEW new, RowStep(match[m], new),
           match' = [match EXCEPT ![m] = new]
    PROVE  RowsMove
BY DEF RowsMove, RowStep, TypeOK

LEMMA resolveExpiryRow ==
    ASSUME RoundInv, NEW m \in Match, NEW d \in TxDelays, isExpiredDrawing(m, d),
           resolveExpiry(m)
    PROVE  RowsMove
<1> DEFINE row == match[m]
           forfeited == Cardinality(row.submitted) = 1 /\ Cardinality(row.roster) = 2
<1>1. /\ row \in Row /\ row.submitted \subseteq row.roster /\ row.submitted # row.roster
      /\ Cardinality(row.roster) = 2 /\ row.status = "drawing"
    BY DEF RoundInv, TypeOK, RowInv, SeatsFit, isExpiredDrawing
<1>2. row.age >= RoundSecs
  <2>1. row.age \in Nat /\ d \in Nat /\ row.age - d >= RoundSecs /\ RoundSecs \in Nat
    BY <1>1, TimeAssumption DEF isExpiredDrawing, Row, TxDelays
  <2> QED
    BY <2>1
<1>3. CASE row.submitted = {}
  <2>1. match' = [match EXCEPT ![m] = Abandoned(row)]
    BY <1>3, FS_EmptySet DEF resolveExpiry
  <2>2. RowStep(row, Abandoned(row))
    BY <1>1, <1>2, <1>3 DEF RowStep, CallsOff
  <2> QED
    BY <2>1, <2>2, OneRowMoves DEF RoundInv
<1>4. CASE row.submitted # {}
  <2>1. forfeited
    <3>1. IsFiniteSet(row.roster)
        BY <1>1, RostersFinite
    <3>2. /\ IsFiniteSet(row.submitted) /\ Cardinality(row.submitted) <= 2
          /\ Cardinality(row.submitted) # 2
        BY <1>1, <3>1, FS_Subset
    <3>3. Cardinality(row.submitted) \in Nat /\ Cardinality(row.submitted) # 0
        BY <1>4, <3>2, FS_CardinalityType, FS_EmptySet
    <3> QED
        BY <1>1, <3>2, <3>3
  <2>2. PICK p : row.submitted = {p}
    <3>1. IsFiniteSet(row.submitted)
        BY <1>1, RostersFinite, FS_Subset
    <3> QED
        BY <2>1, <3>1, FS_Singleton
  <2>3. writeFinalResult(m, rating, p, "forfeit")
    <3>1. (CHOOSE q \in row.submitted : TRUE) = p
        BY <2>2
    <3> QED
        BY <1>4, <2>1, <3>1 DEF resolveExpiry
  <2>4. PICK before, after \in [Player -> Int] :
            match' = [match EXCEPT ![m] = Finished(row, "forfeit", p, before, after)]
    BY <2>3, SettledRow DEF RoundInv
  <2>5. RowStep(row, Finished(row, "forfeit", p, before, after))
    BY <1>1, <1>2, <2>2 DEF RowStep, Forfeits
  <2> QED
    BY <2>4, <2>5, OneRowMoves DEF RoundInv
<1> QED
    BY <1>3, <1>4

LEMMA enterJudgingMoves ==
    ASSUME TypeOK, NEW m \in Match, NEW row \in Row, NEW i, NEW d \in TxDelays,
           enterJudging(m, row, i, d),
           Free(i) = {} => RowStep(match[m], Queued(row)),
           Collects(match[m], Started(row, d)) \/ Refires(match[m], Started(row, d))
    PROVE  RowsMove /\ PassesMove
<1>1. CASE Free(i) = {}
  <2>1. match' = [match EXCEPT ![m] = Queued(row)] /\ UNCHANGED pass
    BY <1>1 DEF enterJudging
  <2> QED
    BY <1>1, <2>1, OneRowMoves DEF PassesMove, StartsNone
<1>2. CASE Free(i) # {}
  <2>1. PICK k \in Free(i) :
            /\ match' = [match EXCEPT ![m] = Started(row, d)]
            /\ pass' = [pass EXCEPT ![k] = Fired(m)]
    BY <1>2 DEF enterJudging
  <2>2. RowsMove
    BY <2>1, OneRowMoves DEF RowStep
  <2>3. match'[m] = Started(row, d)
    BY <2>1 DEF TypeOK
  <2>4. /\ Started(row, d).status = "judging" /\ ~Started(row, d).queued
        /\ Started(row, d).age = d /\ Started(row, d).attempts > 0
    BY DEF Started, Row
  <2>5. Starts(k, m)
    BY <2>1, <2>3, <2>4 DEF Starts, Free
  <2> QED
    BY <2>2, <2>5 DEF PassesMove, Free
<1> QED
    BY <1>1, <1>2

LEMMA PlayMoves ==
    ASSUME RoundInv, Play
    PROVE  RowsMove /\ PassesMove
<1>0. TypeOK
    BY DEF RoundInv
<1>1. UNCHANGED pass => PassesMove
    BY DEF PassesMove, StartsNone
<1>2. ASSUME NEW p \in Player, NEW d \in TxDelays, CreateOrJoin(p, d)
      PROVE  RowsMove /\ PassesMove
  <2>1. ASSUME NEW m \in Match, match[m].status = "open",
               match' = [match EXCEPT ![m] = Touched(@, d)]
        PROVE  RowsMove
    BY <1>0, <2>1, OneRowMoves DEF RowStep, Pulses
  <2>2. ASSUME NEW m \in Match, match[m].status = "none",
               match' = [match EXCEPT ![m] = Created(p, d)]
        PROVE  RowsMove
    BY <1>0, <2>2, OneRowMoves DEF RowStep, Opens
  <2>3. ASSUME NEW m \in Match, Joinable(m, p, d),
               match' = [match EXCEPT ![m] = Joined(@, p, d)]
        PROVE  RowsMove
    BY <1>0, <2>3, OneRowMoves DEF RowStep, Pairs, Joinable
  <2> QED
    BY <1>1, <1>2, <2>1, <2>2, <2>3 DEF CreateOrJoin, Create, Join, memory
<1>3. ASSUME NEW p \in Player, NEW m \in Match, Get(p, m)
      PROVE  RowsMove /\ PassesMove
  <2>1. 0 \in TxDelays
    BY TimeAssumption DEF TxDelays
  <2>2. match[m].status = "open" /\ match' = [match EXCEPT ![m] = Touched(@, 0)]
    BY <1>3 DEF Get
  <2> QED
    BY <1>0, <1>1, <1>3, <2>1, <2>2, OneRowMoves DEF Get, memory, RowStep, Pulses
<1>4. ASSUME NEW p \in Player, NEW m \in Match, Cancel(p, m)
      PROVE  RowsMove /\ PassesMove
    BY <1>0, <1>1, <1>4, OneRowMoves DEF Cancel, memory, RowStep, CallsOff
<1>5. ASSUME NEW p \in Player, NEW m \in Match, NEW d \in TxDelays, SubmitLate(p, m, d)
      PROVE  RowsMove /\ PassesMove
    BY <1>1, <1>5, resolveExpiryRow DEF SubmitLate, memory
<1>6. ASSUME NEW p \in Player, NEW m \in Match, NEW i \in Instance, NEW d \in TxDelays,
             Submit(p, m, i, d)
      PROVE  RowsMove /\ PassesMove
  <2> DEFINE row == Stamped(match[m], p)
  <2>1. row \in Row /\ p \in match[m].roster /\ match[m].status = "drawing"
    BY <1>0, <1>6, RowOpsType DEF Submit, TypeOK
  <2>2. row.roster = match[m].roster
    BY <1>0 DEF Stamped, TypeOK, Row
  <2>3. CASE row.submitted = row.roster
    <3>1. enterJudging(m, row, i, d)
        BY <1>6, <2>3 DEF Submit
    <3>2. Collects(match[m], Started(row, d)) /\ Collects(match[m], Queued(row))
        BY <2>1, <2>2, <2>3 DEF Collects
    <3> QED
        BY <1>0, <2>1, <3>1, <3>2, enterJudgingMoves DEF RowStep
  <2>4. CASE row.submitted # row.roster
    <3>1. match' = [match EXCEPT ![m] = row] /\ UNCHANGED pass
        BY <1>6, <2>4 DEF Submit
    <3>2. RowStep(match[m], row)
        BY <2>1, <2>2, <2>4 DEF RowStep, Draws
    <3> QED
        BY <1>0, <1>1, <3>1, <3>2, OneRowMoves
  <2> QED
    BY <2>3, <2>4
<1> QED
    BY <1>2, <1>3, <1>4, <1>5, <1>6 DEF Play

LEMMA JudgingMoves ==
    ASSUME RoundInv, NEW k \in Slot, Judging(k)
    PROVE  RowsMove /\ PassesMove
<1>0. TypeOK
    BY DEF RoundInv
<1>1. UNCHANGED match => RowsMove
    BY DEF RowsMove, RowStep
<1>2. Return(k) => PassesMove
    BY <1>0 DEF Return, PassesMove, StartsNone, TypeOK
<1>3. CASE runJudging(k)
  <2>1. CASE match[pass[k].match].status = "judging"
    <3>1. pass[k] \in RunningPass
        BY <1>0, <1>3 DEF runJudging, TypeOK, Idle
    <3>2. \A l \in Slot : pass'[l].match = pass[l].match /\ pass'[l].age = pass[l].age
        BY <1>0, <1>3, <2>1, <3>1 DEF runJudging, TypeOK, RunningPass
    <3> QED
        BY <1>1, <1>3, <3>2 DEF runJudging, PassesMove, StartsNone
  <2>2. CASE match[pass[k].match].status # "judging"
    BY <1>1, <1>2, <1>3, <2>2 DEF runJudging
  <2> QED
    BY <2>1, <2>2
<1>4. ASSUME NEW winner \in Player \cup {NoPlayer}, persistResult(k, winner)
      PROVE  RowsMove /\ PassesMove
  <2> DEFINE m == pass[k].match
  <2>1. m \in Match /\ Running(k)
    BY <1>0, <1>4, IdAssumption DEF persistResult, TypeOK, RunningPass, Idle, Running
  <2>2. CASE match[m].status = "judging"
    <3>1. writeFinalResult(m, pass[k].ratings, winner, "judged")
        BY <1>4, <2>2 DEF persistResult
    <3>2. PICK before, after \in [Player -> Int] :
              match' = [match EXCEPT ![m] = Finished(match[m], "judged", winner, before, after)]
        BY <1>0, <2>1, <3>1, SettledRow
    <3>3. match[m].attempts > 0 /\ winner \in match[m].roster \cup {NoPlayer}
        BY <1>4, <2>1 DEF RoundInv, JudgingBegun, persistResult
    <3>4. RowStep(match[m], Finished(match[m], "judged", winner, before, after))
        BY <2>2, <3>3 DEF RowStep, Decides
    <3> QED
        BY <1>0, <1>2, <1>4, <2>1, <3>2, <3>4, OneRowMoves DEF persistResult
  <2>3. CASE match[m].status # "judging"
    BY <1>1, <1>2, <1>4, <2>3 DEF persistResult
  <2> QED
    BY <2>2, <2>3
<1>5. CASE judgeFails(k)
    BY <1>1, <1>2, <1>5 DEF judgeFails
<1> QED
    BY <1>3, <1>4, <1>5 DEF Judging

LEMMA SweepMoves ==
    ASSUME RoundInv, NEW i \in Instance, Sweep(i)
    PROVE  RowsMove /\ PassesMove
<1>0. TypeOK
    BY DEF RoundInv
<1>1. UNCHANGED match => RowsMove
    BY DEF RowsMove, RowStep
<1>2. UNCHANGED pass => PassesMove
    BY DEF PassesMove, StartsNone
<1>3. CASE List(i) \/ deferStuck(i)
    BY <1>1, <1>2, <1>3 DEF List, deferStuck
<1>4. ASSUME NEW m \in Match, NEW d \in TxDelays, resolveExpiredMatch(i, m, d)
      PROVE  RowsMove /\ PassesMove
    BY <1>1, <1>2, <1>4, resolveExpiryRow DEF resolveExpiredMatch
<1>5. ASSUME NEW m \in Match, NEW d \in TxDelays, refireJudging(i, m, d)
      PROVE  RowsMove /\ PassesMove
  <2>1. CASE refirable(m, d)
    <3>1. Refires(match[m], Started(match[m], d))
        BY <2>1 DEF refirable, Refires
    <3>2. enterJudging(m, match[m], i, d) /\ Free(i) # {} /\ match[m] \in Row
        BY <1>0, <1>5, <2>1 DEF refireJudging, TypeOK
    <3> QED
        BY <1>0, <3>1, <3>2, enterJudgingMoves
  <2>2. CASE ~refirable(m, d)
    BY <1>1, <1>2, <1>5, <2>2 DEF refireJudging
  <2> QED
    BY <2>1, <2>2
<1>6. ASSUME NEW m \in Match, abortJudging(i, m)
      PROVE  RowsMove /\ PassesMove
    BY <1>0, <1>1, <1>2, <1>6, OneRowMoves DEF abortJudging, RowStep, Aborts
<1>7. ASSUME NEW m \in Match, reapOpenMatch(i, m)
      PROVE  RowsMove /\ PassesMove
    BY <1>0, <1>1, <1>2, <1>7, OneRowMoves DEF reapOpenMatch, RowStep, CallsOff
<1> QED
    BY <1>3, <1>4, <1>5, <1>6, <1>7 DEF Sweep

LEMMA ProcessMoves ==
    ASSUME RoundInv, NEW i \in Instance, Crash(i) \/ Shutdown(i) \/ Restart(i)
    PROVE  RowsMove /\ PassesMove
BY DEF Crash, Shutdown, Restart, RowsMove, RowStep, PassesMove, StartsNone

(* Every step is a tick or moves rows and passes in these ways. *)
LEMMA NextMoves ==
    ASSUME RoundInv, Next
    PROVE  (RowsMove /\ PassesMove) \/ Tick
BY PlayMoves, JudgingMoves, SweepMoves, ProcessMoves DEF Next

-----------------------------------------------------------------------------
(* The round.                                                              *)

LEMMA SettledNeverAges ==
    ASSUME NEW row \in Row, row.status \in Terminal, row.age = 0, row.seen = 0
    PROVE  Older(row) = row
<1>1. AgeCap(row.status) = 0 /\ row.status # "open"
    BY DEF AgeCap, Terminal
<1>2. Upto(row.age, AgeCap(row.status)) = 0
    BY <1>1 DEF Upto
<1>3. Older(row) = [row EXCEPT !.age = 0, !.seen = 0]
    BY <1>1, <1>2 DEF Older
<1>4. [row EXCEPT !.age = 0, !.seen = 0] = row
    BY DEF Row
<1> QED
    BY <1>3, <1>4

LEMMA RoundInit == Init => RoundInv
<1> SUFFICES ASSUME Init PROVE RoundInv
    OBVIOUS
<1>1. RowInv(NoRow)
    BY DEF RowInv, SeatsFit, AttemptsFit, ResultFits, ClockFits, NoRow, Terminal
<1>2. \A k \in Slot : ~Running(k)
    BY DEF Init, Running, Idle
<1> QED
    BY <1>1, <1>2, TypeInit DEF Init, RoundInv

LEMMA RoundStep == RoundInv /\ [Next]_vars => RoundInv'
<1> SUFFICES ASSUME RoundInv, [Next]_vars PROVE RoundInv'
    OBVIOUS
<1>1. TypeOK /\ TypeOK'
    BY TypeStep DEF RoundInv
<1>2. CASE RowsMove /\ PassesMove
  <2>1. ASSUME NEW m \in Match
        PROVE  RowInv(match'[m]) /\ (JudgingBegun(match[m]) => JudgingBegun(match'[m]))
    BY <1>1, <1>2, RowInvKept DEF RowsMove, RoundInv, TypeOK
  <2>2. ASSUME NEW k \in Slot, pass'[k].match # NoMatch
        PROVE  JudgingBegun(match'[pass'[k].match])
    <3>1. pass'[k].match \in Match
        BY <1>1, <2>2 DEF TypeOK, RunningPass, Idle
    <3>2. CASE pass'[k].match = pass[k].match
        BY <2>1, <2>2, <3>1, <3>2 DEF RoundInv, Running
    <3>3. CASE pass'[k].match # pass[k].match
      <4>1. PICK l \in Slot, m \in Match : Starts(l, m)
        BY <1>2, <2>2, <3>3 DEF PassesMove, StartsNone, Idle
      <4>2. k = l /\ pass'[k] = Fired(m)
        BY <1>1, <3>3, <4>1 DEF Starts, TypeOK
      <4>3. pass'[k].match = m
        BY <4>2 DEF Fired, Idle
      <4> QED
        BY <4>1, <4>3 DEF Starts, JudgingBegun
    <3> QED
        BY <3>2, <3>3
  <2> QED
    BY <1>1, <2>1, <2>2 DEF RoundInv, Running
<1>3. CASE Tick
  <2>1. \A m \in Match : match'[m] = Older(match[m])
    BY <1>3 DEF Tick
  <2>2. ASSUME NEW m \in Match
        PROVE  RowInv(match'[m]) /\ (JudgingBegun(match[m]) => JudgingBegun(match'[m]))
    BY <1>1, <2>1, RowInvKept DEF RoundInv, TypeOK
  <2>3. \A k \in Slot : pass'[k].match = pass[k].match
    BY <1>1, <1>3 DEF Tick, TypeOK, RunningPass, Running
  <2>4. \A k \in Slot : Running(k) => pass[k].match \in Match
    BY <1>1 DEF TypeOK, RunningPass, Idle, Running
  <2> QED
    BY <1>1, <2>2, <2>3, <2>4 DEF RoundInv, Running
<1>4. CASE UNCHANGED vars
    BY <1>1, <1>4 DEF vars, RoundInv, Running
<1> QED
    BY <1>2, <1>3, <1>4, NextMoves

LEMMA RoundAlways == Spec => []RoundInv
    BY RoundInit, RoundStep, PTL DEF Spec

(* However submits, deadlines and sweepers interleave, no round stays in   *)
(* drawing with both drawings in, and none is judged with one missing      *)
(* (service.go Submit).                                                    *)
THEOREM RoundsNeverWedge == Spec => []NoWedgedRound
<1>1. RoundInv => NoWedgedRound
    BY DEF RoundInv, NoWedgedRound, RowInv, SeatsFit
<1> QED
    BY <1>1, RoundAlways, PTL

(* Every result is the one its round earned (deadline.go decideExpiry,     *)
(* service.go runJudging, sweeper.go abortJudging).                        *)
THEOREM ResultsFitRounds == Spec => []ResultFitsRound
<1>1. RoundInv => ResultFitsRound
    BY DEF RoundInv, ResultFitsRound, RowInv, SeatsFit, ResultFits
<1> QED
    BY <1>1, RoundAlways, PTL

(* A match in judging that waits or has gone stale is in exactly one of    *)
(* the sweeper's two lists (matches.sql ListStuckJudgingMatches,           *)
(* ListExhaustedJudgingMatches).                                           *)
THEOREM JudgingNeverWedges == Spec => []NoWedgedJudging
<1>1. ASSUME RoundInv, NEW m \in Match, match[m].status = "judging",
             match[m].queued \/ Stale(m)
      PROVE  Stuck(m) # Exhausted(m)
  <2>1. /\ match[m].attempts \in Nat /\ MaxAttempts \in Nat /\ match[m].queued \in BOOLEAN
        /\ match[m].queued => match[m].attempts < MaxAttempts
    BY <1>1, TimeAssumption DEF RoundInv, TypeOK, Row, RowInv, AttemptsFit
  <2>2. CASE match[m].queued
    BY <1>1, <2>1, <2>2 DEF Stuck, Exhausted
  <2>3. CASE ~match[m].queued
    BY <1>1, <2>1, <2>3 DEF Stuck, Exhausted
  <2> QED
    BY <2>2, <2>3
<1>2. RoundInv => NoWedgedJudging
    BY <1>1 DEF NoWedgedJudging
<1> QED
    BY <1>2, RoundAlways, PTL

LEMMA SettledStep ==
    ASSUME RoundInv, [Next]_vars, NEW m \in Match, match[m].status \in Terminal
    PROVE  match'[m] = match[m]
<1>1. match[m] \in Row /\ RowInv(match[m])
    BY DEF RoundInv, TypeOK
<1>2. CASE RowsMove
    BY <1>2 DEF RowsMove, RowStep, Terminal, Opens, Pairs, Pulses, CallsOff, Draws,
                    Collects, Refires, Forfeits, Decides, Aborts
<1>3. CASE Tick
  <2>1. match'[m] = Older(match[m])
    BY <1>3 DEF Tick
  <2>2. match[m].age = 0 /\ match[m].seen = 0
    BY <1>1 DEF RowInv, ClockFits, Terminal
  <2> QED
    BY <1>1, <2>1, <2>2, SettledNeverAges
<1>4. CASE UNCHANGED vars
    BY <1>4 DEF vars
<1> QED
    BY <1>2, <1>3, <1>4, NextMoves

(* A settled or abandoned match is never written again, whoever comes late *)
(* (service.go persistResult, sweeper.go).                                 *)
THEOREM SettledStays == Spec => SettledForGood
<1>1. RoundInv /\ [Next]_vars =>
          [\A m \in Match : match[m].status \in Terminal => match'[m] = match[m]]_vars
    BY SettledStep
<1> QED
    BY <1>1, RoundAlways, PTL DEF Spec, SettledForGood

(* A round is not cut short of its deadline (service.go Cancel, sweeper.go *)
(* reapOpenMatch, deadline.go).                                            *)
THEOREM RoundsRunTheirTime == Spec => RoundRunsItsTime
<1>1. ASSUME RoundInv, [Next]_vars, NEW m \in Match, match[m].status = "drawing",
             match'[m].status \in Terminal
      PROVE  match[m].age >= RoundSecs
  <2>1. match[m] \in Row
    BY <1>1 DEF RoundInv, TypeOK
  <2>2. CASE RowsMove
    <3>1. RowStep(match[m], match'[m])
        BY <2>2 DEF RowsMove
    <3>2. \A p \in match[m].roster :
              /\ Queued(Stamped(match[m], p)).status = "judging"
              /\ \A d \in TxDelays : Started(Stamped(match[m], p), d).status = "judging"
        BY <1>1, <2>1 DEF Stamped, Queued, Started, Row
    <3>3. ~Draws(match[m], match'[m])
        BY <1>1, <2>1 DEF Draws, Stamped, Row, Terminal
    <3>4. ~Collects(match[m], match'[m])
        BY <1>1, <3>2 DEF Collects, Terminal
    <3> QED
        BY <1>1, <3>1, <3>3, <3>4 DEF RowStep, Terminal, Opens, Pairs, Pulses, CallsOff, Refires,
                                Forfeits, Decides, Aborts
  <2>3. CASE Tick
    BY <1>1, <2>1, <2>3 DEF Tick, Older, Row, Terminal
  <2>4. CASE UNCHANGED vars
    BY <1>1, <2>4 DEF vars, Terminal
  <2> QED
    BY <1>1, <2>2, <2>3, <2>4, NextMoves
<1>2. RoundInv /\ [Next]_vars =>
          [\A m \in Match :
              match[m].status = "drawing" /\ match'[m].status \in Terminal =>
                 match[m].age >= RoundSecs]_vars
    BY <1>1
<1> QED
    BY <1>2, RoundAlways, PTL DEF Spec, RoundRunsItsTime

-----------------------------------------------------------------------------
(* The passes, when the stale window outlasts a pass by more than the      *)
(* longest delay of a transaction (StaleMargin).                           *)

(* A match under a live pass was stamped no earlier than MaxDelay before   *)
(* the pass began, so it is not stale while the pass lives.                *)
FreshUnderPass == \A k \in Slot :
    Running(k) /\ match[pass[k].match].status = "judging" =>
        /\ ~match[pass[k].match].queued
        /\ match[pass[k].match].age <= pass[k].age + MaxDelay

(* What a sweeper has listed to abort is out of retries and has no pass.   *)
Hopeless(m) ==
    /\ match[m].status \in {"judging", "done"} /\ match[m].attempts >= MaxAttempts
    /\ match[m].status = "judging" => \A k \in Slot : pass[k].match # m

AbortsHopeless == \A i \in Instance : \A m \in sweep[i].todo :
    sweep[i].phase = "exhausted" => Hopeless(m)

PassInv == FreshUnderPass /\ OnePassPerMatch /\ AbortsHopeless

LEMMA PassInit == Init => PassInv
BY DEF Init, PassInv, FreshUnderPass, OnePassPerMatch, AbortsHopeless, Running, Idle, Booted

(* While a pass runs, its match can be neither re-fired nor listed. *)
LEMMA LivePassGuards ==
    ASSUME StaleMargin, RoundInv, FreshUnderPass, NEW k \in Slot, Running(k),
           NEW m, m = pass[k].match
    PROVE  /\ m \in Match /\ match[m].status \in {"judging", "done"}
           /\ ~Collects(match[m], match'[m]) /\ ~Refires(match[m], match'[m])
           /\ ~Exhausted(m)
<1>1. /\ m \in Match /\ pass[k].age \in 0..PassSecs
      /\ match[m].status \in {"judging", "done"}
    BY DEF RoundInv, TypeOK, RunningPass, Running, Idle, JudgingBegun
<1>2. match[m].age \in Nat /\ match[m] \in Row
    BY <1>1 DEF RoundInv, TypeOK, Row
<1>3. ASSUME match[m].status = "judging"
      PROVE  ~match[m].queued /\ match[m].age < StaleSecs
    BY <1>1, <1>2, <1>3, TimeAssumption DEF FreshUnderPass, StaleMargin
<1>4. ~Collects(match[m], match'[m])
    BY <1>1 DEF Collects
<1>5. ~Refires(match[m], match'[m])
  <2>1. \A d \in TxDelays : match[m].status = "judging" => ~(match[m].age - d >= StaleSecs)
    BY <1>2, <1>3, TimeAssumption DEF TxDelays
  <2> QED
    BY <1>3, <2>1 DEF Refires
<1>6. ~Exhausted(m)
    BY <1>2, <1>3, TimeAssumption DEF Exhausted, Stale
<1> QED
    BY <1>1, <1>4, <1>5, <1>6

LEMMA FreshStep ==
    ASSUME StaleMargin, RoundInv, TypeOK', PassInv, [Next]_vars
    PROVE  FreshUnderPass'
<1>0. TypeOK
    BY DEF RoundInv
<1> SUFFICES ASSUME NEW k \in Slot, pass'[k].match # NoMatch,
                    match'[pass'[k].match].status = "judging"
             PROVE  /\ ~match'[pass'[k].match].queued
                    /\ match'[pass'[k].match].age <= pass'[k].age + MaxDelay
    BY DEF FreshUnderPass, Running
<1> DEFINE m == pass'[k].match
<1>1. m \in Match /\ pass'[k] \in RunningPass
    BY DEF TypeOK, RunningPass, Idle
<1>2. CASE RowsMove /\ PassesMove
  <2>1. CASE \E l \in Slot, n \in Match : Starts(l, n) /\ k = l
    <3>1. PICK n \in Match : Starts(k, n)
        BY <2>1
    <3>2. pass'[k] = Fired(n)
        BY <1>0, <3>1 DEF Starts, TypeOK
    <3>3. m = n /\ pass'[k].age = 0
        BY <3>2 DEF Fired, Idle
    <3>4. match'[m].age \in 0..MaxDelay /\ ~match'[m].queued
        BY <3>1, <3>3 DEF Starts, TxDelays
    <3> QED
        BY <3>3, <3>4, TimeAssumption
  <2>2. CASE ~\E l \in Slot, n \in Match : Starts(l, n) /\ k = l
    <3>1. pass'[k].match = pass[k].match /\ pass'[k].age = pass[k].age
        BY <1>0, <1>1, <1>2, <2>2, IdAssumption
        DEF PassesMove, StartsNone, Starts, TypeOK, Idle, RunningPass
    <3>2. Running(k)
        BY <1>1, <3>1 DEF Running
    <3>3. /\ match[m].status \in {"judging", "done"}
          /\ ~Collects(match[m], match'[m]) /\ ~Refires(match[m], match'[m])
        BY <3>1, <3>2, LivePassGuards DEF PassInv
    <3>4. RowStep(match[m], match'[m])
        BY <1>1, <1>2 DEF RowsMove
    <3>5. match[m] \in Row
        BY <1>0, <1>1 DEF TypeOK
    <3>6. match'[m] = match[m]
        BY <3>3, <3>4, <3>5 DEF RowStep, Opens, Pairs, Pulses, CallsOff, Draws, Forfeits,
                                Decides, Aborts, Finished, Row
    <3> QED
        BY <3>1, <3>2, <3>6 DEF PassInv, FreshUnderPass
  <2> QED
    BY <2>1, <2>2
<1>3. CASE Tick
  <2>1. Running(k) /\ pass[k] \in RunningPass
    BY <1>0, <1>1, <1>3, IdAssumption DEF Tick, TypeOK, Running, Idle, RunningPass
  <2>2. pass'[k].match = pass[k].match /\ pass'[k].age = pass[k].age + 1
    BY <1>3, <2>1 DEF Tick, RunningPass
  <2>3. match'[m] = Older(match[m]) /\ match[m] \in Row
    BY <1>0, <1>1, <1>3 DEF Tick, TypeOK
  <2>4. match[m].status = "judging" /\ match'[m].queued = match[m].queued
    BY <2>3 DEF Older, Row
  <2>5. ~match[m].queued /\ match[m].age <= pass[k].age + MaxDelay
    BY <2>1, <2>2, <2>4 DEF PassInv, FreshUnderPass
  <2>6. match'[m].age = Upto(match[m].age, AgeCap(match[m].status))
    BY <2>3, <2>5 DEF Older, Row
  <2>7. match'[m].age <= match[m].age + 1 /\ match'[m].age \in Nat
    BY <2>3, <2>6 DEF Upto, Row
  <2>8. pass[k].age \in Nat /\ match[m].age \in Nat
    BY <2>1, <2>3, TimeAssumption DEF RunningPass, Row
  <2> QED
    BY <2>2, <2>4, <2>5, <2>7, <2>8, TimeAssumption
<1>4. CASE UNCHANGED vars
    BY <1>4 DEF vars, PassInv, FreshUnderPass, Running
<1> QED
    BY <1>2, <1>3, <1>4, NextMoves

LEMMA OnePassStep ==
    ASSUME StaleMargin, RoundInv, TypeOK', PassInv, [Next]_vars
    PROVE  OnePassPerMatch'
<1>0. TypeOK
    BY DEF RoundInv
<1> SUFFICES ASSUME NEW k \in Slot, NEW l \in Slot, pass'[k].match # NoMatch,
                    pass'[k].match = pass'[l].match
             PROVE  k = l
    BY DEF OnePassPerMatch, Running
<1>1. ASSUME pass'[k].match = pass[k].match, pass'[l].match = pass[l].match
      PROVE  k = l
    BY <1>1 DEF PassInv, OnePassPerMatch, Running
<1>2. ASSUME NEW a \in Slot, NEW b \in Slot, NEW m \in Match, Starts(a, m),
             pass[b].match = m
      PROVE  FALSE
  <2>1. Running(b)
    BY <1>2, IdAssumption DEF Running
  <2> QED
    BY <1>2, <2>1, LivePassGuards DEF Starts, PassInv
<1>3. CASE PassesMove
  <2>1. CASE StartsNone
    BY <1>1, <2>1 DEF StartsNone, Idle
  <2>2. ASSUME NEW a \in Slot, NEW m \in Match, Starts(a, m)
        PROVE  k = l
    <3>1. /\ \A b \in Slot : b # a => pass'[b] = pass[b]
          /\ pass'[a].match = m
        BY <1>0, <2>2 DEF Starts, TypeOK, Fired, Idle
    <3>2. \A b \in Slot : pass[b].match # m
        BY <1>2, <2>2
    <3> QED
        BY <1>1, <3>1, <3>2
  <2> QED
    BY <1>3, <2>1, <2>2 DEF PassesMove
<1>4. CASE Tick
  <2>1. \A b \in Slot : pass'[b].match = pass[b].match
    BY <1>0, <1>4 DEF Tick, TypeOK, RunningPass, Running
  <2> QED
    BY <1>1, <2>1
<1>5. CASE UNCHANGED vars
    BY <1>1, <1>5 DEF vars
<1> QED
    BY <1>3, <1>4, <1>5, NextMoves

(* A sweeper only ever adds to its list of matches to abort what is        *)
(* exhausted at that moment.                                               *)
ListsMove == \A i \in Instance : \A m \in sweep'[i].todo :
    sweep'[i].phase = "exhausted" =>
        \/ sweep[i].phase = "exhausted" /\ m \in sweep[i].todo
        \/ m \in Match /\ Exhausted(m) /\ UNCHANGED << match, pass >>

LEMMA AdvanceLists ==
    ASSUME TypeOK, NEW i \in Instance, NEW todo, Advance(i, todo),
           sweep[i].phase = "exhausted" =>
               \A m \in todo :
                   \/ m \in sweep[i].todo
                   \/ m \in Match /\ Exhausted(m) /\ UNCHANGED << match, pass >>
    PROVE  ListsMove
<1>1. CASE todo = {}
    BY <1>1 DEF Advance, TypeOK, ListsMove
<1>2. CASE todo # {}
    BY <1>2 DEF Advance, TypeOK, ListsMove
<1> QED
    BY <1>1, <1>2

LEMMA HandlesLists ==
    ASSUME TypeOK, NEW i \in Instance, NEW ph, NEW m, Handles(i, ph, m)
    PROVE  ListsMove
<1> DEFINE left == sweep[i].todo \ {m}
<1>1. CASE left = {}
    BY <1>1 DEF Handles, Advance, TypeOK, ListsMove
<1>2. CASE left # {}
    BY <1>2 DEF Handles, Advance, TypeOK, ListsMove
<1> QED
    BY <1>1, <1>2

LEMMA NextLists ==
    ASSUME TypeOK, [Next]_vars
    PROVE  ListsMove
<1>1. UNCHANGED sweep => ListsMove
    BY DEF ListsMove
<1>2. CASE Play
    BY <1>1, <1>2 DEF Play, CreateOrJoin, Get, Cancel, SubmitLate, Submit, memory
<1>3. ASSUME NEW k \in Slot, Judging(k)
      PROVE  ListsMove
    BY <1>1, <1>3 DEF Judging, runJudging, persistResult, judgeFails
<1>4. ASSUME NEW i \in Instance, Sweep(i)
      PROVE  ListsMove
  <2>1. CASE List(i)
    <3>1. sweep[i].phase = "exhausted" =>
              \A m \in Listed(sweep[i].phase) : m \in Match /\ Exhausted(m)
        BY DEF Listed
    <3> QED
        BY <2>1, <3>1, AdvanceLists DEF List
  <2>2. CASE deferStuck(i)
    BY <2>2, AdvanceLists DEF deferStuck
  <2> QED
    BY <1>4, <2>1, <2>2, HandlesLists
    DEF Sweep, resolveExpiredMatch, refireJudging, abortJudging, reapOpenMatch
<1>5. ASSUME NEW i \in Instance, Crash(i) \/ Shutdown(i) \/ Restart(i)
      PROVE  ListsMove
    BY <1>1, <1>5 DEF Crash, Shutdown, Restart, Booted, TypeOK, ListsMove
<1>6. CASE Tick \/ UNCHANGED vars
    BY <1>1, <1>6 DEF Tick, vars
<1>7. CASE Next
    BY <1>2, <1>3, <1>4, <1>5, <1>6, <1>7 DEF Next
<1> QED
    BY <1>6, <1>7

LEMMA AbortsStep ==
    ASSUME StaleMargin, RoundInv, PassInv, [Next]_vars
    PROVE  AbortsHopeless'
<1>0. TypeOK
    BY DEF RoundInv
<1>1. ASSUME NEW m \in Match, Hopeless(m)
      PROVE  Hopeless(m)'
  <2>1. match[m] \in Row /\ MaxAttempts \in Nat
    BY <1>0, TimeAssumption DEF TypeOK
  <2>2. ~Collects(match[m], match'[m]) /\ ~Refires(match[m], match'[m])
    BY <1>1, <2>1 DEF Hopeless, Collects, Refires, Row
  <2>3. CASE RowsMove /\ PassesMove
    <3>1. /\ match'[m].status = match[m].status \/ match'[m].status = "done"
          /\ match'[m].attempts = match[m].attempts
      <4>1. RowStep(match[m], match'[m])
        BY <2>3 DEF RowsMove
      <4>2. \/ match'[m] = match[m]
            \/ Decides(match[m], match'[m]) \/ Aborts(match[m], match'[m])
        BY <1>1, <2>2, <4>1 DEF RowStep, Hopeless, Opens, Pairs, Pulses, CallsOff, Draws,
                                Forfeits
      <4> QED
        BY <2>1, <4>2 DEF Decides, Aborts, Finished, Row
    <3>2. ASSUME match'[m].status = "judging", NEW k \in Slot
          PROVE  pass'[k].match # m
      <4>1. \A l \in Slot : pass[l].match # m
        BY <1>1, <3>1, <3>2 DEF Hopeless
      <4>2. CASE StartsNone
        BY <4>1, <4>2, IdAssumption DEF StartsNone, Idle
      <4>3. ASSUME NEW l \in Slot, NEW n \in Match, Starts(l, n)
            PROVE  pass'[k].match # m
        <5>1. n # m
            BY <2>2, <4>3 DEF Starts
        <5>2. k # l => pass'[k] = pass[k]
            BY <1>0, <4>3 DEF Starts, TypeOK
        <5>3. pass'[l].match = n
            BY <1>0, <4>3 DEF Starts, TypeOK, Fired, Idle
        <5> QED
            BY <4>1, <5>1, <5>2, <5>3
      <4> QED
        BY <2>3, <4>2, <4>3 DEF PassesMove
    <3> QED
        BY <1>1, <3>1, <3>2 DEF Hopeless
  <2>4. CASE Tick
    <3>1. match'[m].status = match[m].status /\ match'[m].attempts = match[m].attempts
        BY <2>1, <2>4 DEF Tick, Older, Row
    <3>2. \A k \in Slot : pass'[k].match = pass[k].match
        BY <1>0, <2>4 DEF Tick, TypeOK, RunningPass, Running
    <3> QED
        BY <1>1, <3>1, <3>2 DEF Hopeless
  <2>5. CASE UNCHANGED vars
    BY <1>1, <2>5 DEF vars, Hopeless
  <2> QED
    BY <2>3, <2>4, <2>5, NextMoves
<1>2. ASSUME NEW m \in Match, Exhausted(m), UNCHANGED << match, pass >>
      PROVE  Hopeless(m)'
  <2>1. \A k \in Slot : pass[k].match # m
    BY <1>2, IdAssumption, LivePassGuards DEF Running, PassInv
  <2> QED
    BY <1>2, <2>1 DEF Exhausted, Hopeless
<1>3. ASSUME NEW i \in Instance, NEW m \in sweep'[i].todo, sweep'[i].phase = "exhausted"
      PROVE  Hopeless(m)'
  <2>1. CASE sweep[i].phase = "exhausted" /\ m \in sweep[i].todo
    <3>1. m \in Match
        BY <1>0, <2>1 DEF TypeOK
    <3> QED
        BY <1>1, <2>1, <3>1 DEF PassInv, AbortsHopeless
  <2> QED
    BY <1>0, <1>2, <1>3, <2>1, NextLists DEF ListsMove
<1> QED
    BY <1>3 DEF AbortsHopeless

LEMMA OtherRowsStay ==
    ASSUME TypeOK, NEW n \in Match,
           \/ resolveExpiry(n)
           \/ \E row, i, d : enterJudging(n, row, i, d)
    PROVE  \A l \in Match \ {n} : match'[l] = match[l]
<1>1. ASSUME resolveExpiry(n)
      PROVE  \E new : match' = [match EXCEPT ![n] = new]
    BY <1>1, SettledRow DEF resolveExpiry
<1>2. ASSUME NEW row, NEW i, NEW d, enterJudging(n, row, i, d)
      PROVE  \E new : match' = [match EXCEPT ![n] = new]
    BY <1>2 DEF enterJudging
<1> QED
    BY <1>1, <1>2 DEF TypeOK

(* Only the sweeper's list of exhausted matches leads to an abort. *)
LEMMA AbortsAreListed ==
    ASSUME RoundInv, [Next]_vars, NEW m \in Match,
           match'[m].resolution = "aborted", match[m].resolution # "aborted"
    PROVE  \E i \in Instance : sweep[i].phase = "exhausted" /\ m \in sweep[i].todo
<1>0. TypeOK /\ match[m] \in Row
    BY DEF RoundInv, TypeOK
<1>1. ~Tick /\ ~UNCHANGED vars
  <2>1. Older(match[m]).resolution = match[m].resolution
    BY <1>0 DEF Older, Row
  <2>2. ~Tick
    BY <2>1 DEF Tick
  <2> QED
    BY <2>2 DEF vars
<1>2. match[m].status = "judging"
  <2>1. RowStep(match[m], match'[m])
    BY <1>1, NextMoves DEF RowsMove
  <2>2. ~Opens(match[m], match'[m])
    BY <1>0 DEF Opens, Created, NoRow
  <2>3. /\ ~Pairs(match[m], match'[m]) /\ ~Pulses(match[m], match'[m])
        /\ ~CallsOff(match[m], match'[m]) /\ ~Draws(match[m], match'[m])
    BY <1>0 DEF Pairs, Joined, Pulses, Touched, CallsOff, Abandoned, Draws, Stamped, Row
  <2>4. ~Collects(match[m], match'[m])
    <3>1. \A p \in match[m].roster :
              /\ Queued(Stamped(match[m], p)).resolution = match[m].resolution
              /\ \A d \in TxDelays :
                    Started(Stamped(match[m], p), d).resolution = match[m].resolution
        BY <1>0 DEF Queued, Stamped, Started, Row
    <3> QED
        BY <3>1 DEF Collects
  <2>5. ~Forfeits(match[m], match'[m])
    BY <1>0 DEF Forfeits, Finished, Row
  <2> QED
    BY <2>1, <2>2, <2>3, <2>4, <2>5 DEF RowStep, Refires, Decides, Aborts
<1>3. ASSUME NEW n \in Match, match[n].status # "judging",
             \A l \in Match \ {n} : match'[l] = match[l]
      PROVE  FALSE
    BY <1>2, <1>3
<1>4. ~Play
  <2>1. ASSUME NEW p \in Player, NEW d \in TxDelays, CreateOrJoin(p, d)
        PROVE  FALSE
    BY <1>0, <1>3, <2>1 DEF CreateOrJoin, Create, Join, Joinable, TypeOK
  <2>2. ASSUME NEW p \in Player, NEW n \in Match, Get(p, n) \/ Cancel(p, n)
        PROVE  FALSE
    BY <1>0, <1>3, <2>2 DEF Get, Cancel, TypeOK
  <2>3. ASSUME NEW p \in Player, NEW n \in Match, NEW d \in TxDelays, SubmitLate(p, n, d)
        PROVE  FALSE
    BY <1>0, <1>3, <2>3, OtherRowsStay DEF SubmitLate, isExpiredDrawing
  <2>4. ASSUME NEW p \in Player, NEW n \in Match, NEW i \in Instance, NEW d \in TxDelays,
               Submit(p, n, i, d)
        PROVE  FALSE
    BY <1>0, <1>3, <2>4, OtherRowsStay DEF Submit, TypeOK
  <2> QED
    BY <2>1, <2>2, <2>3, <2>4 DEF Play
<1>5. ASSUME NEW k \in Slot, Judging(k)
      PROVE  FALSE
  <2>1. ~UNCHANGED match
    BY <1>0 DEF TypeOK
  <2>2. PICK winner \in Player \cup {NoPlayer} : persistResult(k, winner)
    BY <1>5, <2>1 DEF Judging, runJudging, judgeFails
  <2>3. pass[k].match \in Match
    BY <1>0, <2>2 DEF persistResult, TypeOK, RunningPass, Idle
  <2>4. writeFinalResult(pass[k].match, pass[k].ratings, winner, "judged")
    BY <2>1, <2>2 DEF persistResult
  <2>5. PICK before, after \in [Player -> Int] :
            match' = [match EXCEPT ![pass[k].match] =
                         Finished(match[pass[k].match], "judged", winner, before, after)]
    BY <1>0, <2>3, <2>4, SettledRow
  <2> QED
    BY <1>0, <2>3, <2>5 DEF TypeOK, Finished, Row
<1>6. ASSUME NEW i \in Instance, Sweep(i)
      PROVE  sweep[i].phase = "exhausted" /\ m \in sweep[i].todo
  <2>1. ~UNCHANGED match
    BY <1>0 DEF TypeOK
  <2>2. ~List(i) /\ ~deferStuck(i)
    BY <2>1 DEF List, deferStuck
  <2>3. ASSUME NEW n \in Match, NEW d \in TxDelays, resolveExpiredMatch(i, n, d)
        PROVE  FALSE
    <3>1. resolveExpiry(n) /\ match[n].status = "drawing"
        BY <2>1, <2>3 DEF resolveExpiredMatch, isExpiredDrawing
    <3> QED
        BY <1>0, <1>3, <3>1, OtherRowsStay
  <2>4. ASSUME NEW n \in Match, NEW d \in TxDelays, refireJudging(i, n, d)
        PROVE  FALSE
    <3>1. enterJudging(n, match[n], i, d)
        BY <2>1, <2>4 DEF refireJudging
    <3>2. \/ match' = [match EXCEPT ![n] = Queued(match[n])]
          \/ match' = [match EXCEPT ![n] = Started(match[n], d)]
        BY <3>1 DEF enterJudging
    <3>3. /\ Queued(match[n]).resolution = match[n].resolution
          /\ Started(match[n], d).resolution = match[n].resolution
        BY <1>0 DEF Queued, Started, TypeOK, Row
    <3> QED
        BY <1>0, <3>2, <3>3 DEF TypeOK
  <2>5. ASSUME NEW n \in Match, abortJudging(i, n)
        PROVE  sweep[i].phase = "exhausted" /\ m \in sweep[i].todo
    BY <1>0, <2>1, <2>5 DEF abortJudging, Handles, TypeOK
  <2>6. ASSUME NEW n \in Match, reapOpenMatch(i, n)
        PROVE  FALSE
    BY <1>0, <1>3, <2>1, <2>6 DEF reapOpenMatch, TypeOK
  <2> QED
    BY <1>6, <2>2, <2>3, <2>4, <2>5, <2>6 DEF Sweep
<1>7. ASSUME NEW i \in Instance, Crash(i) \/ Shutdown(i) \/ Restart(i)
      PROVE  FALSE
    BY <1>0, <1>7 DEF Crash, Shutdown, Restart
<1>8. Next
    BY <1>1
<1> QED
    BY <1>1, <1>4, <1>5, <1>6, <1>7, <1>8 DEF Next

LEMMA PassAlways ==

    ASSUME StaleMargin
    PROVE  Spec => [](RoundInv /\ PassInv)
<1>1. Init => RoundInv /\ PassInv
    BY RoundInit, PassInit
<1>2. RoundInv /\ PassInv /\ [Next]_vars => RoundInv' /\ PassInv'
  <2> SUFFICES ASSUME RoundInv, PassInv, [Next]_vars PROVE RoundInv' /\ PassInv'
    OBVIOUS
  <2>1. RoundInv' /\ TypeOK'
    BY RoundStep DEF RoundInv
  <2> QED
    BY <2>1, FreshStep, OnePassStep, AbortsStep DEF PassInv
<1> QED
    BY <1>1, <1>2, PTL DEF Spec

(* No match is judged twice at once, provided the stale window outlasts a  *)
(* pass by more than a transaction can wait for its lock (sweeper.go       *)
(* judgeStaleSecs, refireJudging).                                         *)
THEOREM OnePassAtATime ==
    ASSUME StaleMargin
    PROVE  Spec => []OnePassPerMatch
<1>1. RoundInv /\ PassInv => OnePassPerMatch
    BY DEF PassInv
<1> QED
    BY <1>1, PassAlways, PTL

(* Under the same margin an abort never overtakes a live pass, although    *)
(* abortJudging does not look at the age again (sweeper.go).               *)
THEOREM AbortsSpareLivePasses ==
    ASSUME StaleMargin
    PROVE  Spec => NoAbortUnderPass
<1>1. ASSUME RoundInv, PassInv, [Next]_vars, NEW m \in Match,
             match'[m].resolution = "aborted", match[m].resolution # "aborted", NEW k \in Slot
      PROVE  pass[k].match # m
  <2>1. \E i \in Instance : sweep[i].phase = "exhausted" /\ m \in sweep[i].todo
    BY <1>1, AbortsAreListed
  <2>2. Hopeless(m)
    BY <1>1, <2>1 DEF PassInv, AbortsHopeless
  <2>3. match[m].status = "judging"
    <3>1. match[m].status # "done"
        BY <1>1, SettledStep DEF Terminal
    <3> QED
        BY <2>2, <3>1 DEF Hopeless
  <2> QED
    BY <1>1, <2>2, <2>3 DEF Hopeless
<1>2. RoundInv /\ PassInv /\ [Next]_vars =>
          [\A m \in Match :
              match'[m].resolution = "aborted" /\ match[m].resolution # "aborted" =>
                 \A k \in Slot : pass[k].match # m]_vars
    BY <1>1
<1> QED
    BY <1>2, PassAlways, PTL DEF Spec, NoAbortUnderPass

-----------------------------------------------------------------------------
(* The contract.                                                           *)

(* A step that touches at most one row and no rating, or that settles one. *)
Unsettled(row) == row.status # "done" \/ row.resolution = "aborted"

Unrated ==
    /\ UNCHANGED rating
    /\ \/ UNCHANGED match
       \/ \E m \in Match : match' = [match EXCEPT ![m] = match'[m]] /\ Unsettled(match'[m])

Rated == \E m \in Match, r \in [Player -> Int], winner \in Player \cup {NoPlayer},
            resolution \in {"forfeit", "judged"} :
    /\ match[m].status \in {"drawing", "judging"}
    /\ winner \in match[m].roster \cup {NoPlayer}
    /\ writeFinalResult(m, r, winner, resolution)

LEMMA OneRow ==
    ASSUME TypeOK, NEW m \in Match, NEW new, match' = [match EXCEPT ![m] = new]
    PROVE  match' = [match EXCEPT ![m] = match'[m]] /\ match'[m] = new
BY DEF TypeOK

(* Of the row operations only Finished settles, and not as an abort. *)
LEMMA RowsUnsettled ==
    /\ \A p, d : Unsettled(Created(p, d))
    /\ \A row \in Row :
          /\ \A p, d : Unsettled(Joined(row, p, d))
          /\ \A d : row.status = "open" => Unsettled(Touched(row, d))
          /\ \A p : row.status = "drawing" => Unsettled(Stamped(row, p))
          /\ \A d : Unsettled(Started(row, d))
          /\ Unsettled(Abandoned(row)) /\ Unsettled(Queued(row))
          /\ \A winner, before, after : Unsettled(Finished(row, "aborted", winner, before, after))
BY DEF Unsettled, NoRow, Created, Joined, Touched, Stamped, Started, Abandoned, Queued,
       Finished, Row

LEMMA OneRowUnrated ==
    ASSUME TypeOK, NEW m \in Match, NEW new, match' = [match EXCEPT ![m] = new],
           Unsettled(new), UNCHANGED rating
    PROVE  Unrated
<1>1. match' = [match EXCEPT ![m] = match'[m]] /\ match'[m] = new
    BY OneRow
<1> QED
    BY <1>1 DEF Unrated

LEMMA resolveExpiryRates ==
    ASSUME RoundInv, NEW m \in Match, match[m].status = "drawing", resolveExpiry(m)
    PROVE  Unrated \/ Rated
<1> DEFINE row == match[m]
           forfeited == Cardinality(row.submitted) = 1 /\ Cardinality(row.roster) = 2
<1>0. TypeOK /\ row.submitted \subseteq row.roster
    BY DEF RoundInv, RowInv, SeatsFit
<1>1. CASE row.submitted = {}
  <2>1. match' = [match EXCEPT ![m] = Abandoned(row)] /\ UNCHANGED rating
    BY <1>1, FS_EmptySet DEF resolveExpiry
  <2> QED
    BY <1>0, <2>1, RowsUnsettled, OneRowUnrated DEF TypeOK
<1>2. CASE row.submitted # {} /\ forfeited
  <2>1. (CHOOSE p \in row.submitted : TRUE) \in row.roster
    BY <1>0, <1>2
  <2>2. rating \in [Player -> Int]
    BY <1>0 DEF TypeOK
  <2>3. row.roster \subseteq Player
    BY <1>0 DEF TypeOK, Row
  <2> QED
    BY <1>2, <2>1, <2>2, <2>3 DEF resolveExpiry, Rated, Resolution
<1>3. CASE row.submitted # {} /\ ~forfeited
  <2>1. match' = [match EXCEPT ![m] = Queued(row)] /\ UNCHANGED rating
    BY <1>3 DEF resolveExpiry
  <2> QED
    BY <1>0, <2>1, RowsUnsettled, OneRowUnrated DEF TypeOK
<1> QED
    BY <1>1, <1>2, <1>3

LEMMA NextRates ==
    ASSUME RoundInv, Next, ~Tick
    PROVE  Unrated \/ Rated
<1>0. TypeOK
    BY DEF RoundInv
<1>1. ASSUME NEW m \in Match, NEW row \in Row, NEW i, NEW d, enterJudging(m, row, i, d),
             UNCHANGED rating
      PROVE  Unrated
  <2>1. \/ match' = [match EXCEPT ![m] = Queued(row)]
        \/ match' = [match EXCEPT ![m] = Started(row, d)]
    BY <1>1 DEF enterJudging
  <2> QED
    BY <1>0, <1>1, <2>1, RowsUnsettled, OneRowUnrated
<1>2. ASSUME UNCHANGED << match, rating >>
      PROVE  Unrated
    BY <1>2 DEF Unrated
<1>3. CASE Play
  <2>1. ASSUME NEW p \in Player, NEW d \in TxDelays, CreateOrJoin(p, d)
        PROVE  Unrated
    <3>1. \E m \in Match :
             \/ match' = [match EXCEPT ![m] = Created(p, d)]
             \/ match' = [match EXCEPT ![m] = Joined(match[m], p, d)]
             \/ match[m].status = "open" /\ match' = [match EXCEPT ![m] = Touched(match[m], d)]
        BY <2>1 DEF CreateOrJoin, Create, Join
    <3>2. UNCHANGED rating /\ \A m \in Match : match[m] \in Row
        BY <1>0, <2>1 DEF CreateOrJoin, TypeOK
    <3> QED
        BY <1>0, <3>1, <3>2, RowsUnsettled, OneRowUnrated
  <2>2. ASSUME NEW p \in Player, NEW m \in Match, Get(p, m) \/ Cancel(p, m)
        PROVE  Unrated
    <3>1. /\ match[m].status = "open" /\ match[m] \in Row /\ UNCHANGED rating
          /\ \/ match' = [match EXCEPT ![m] = Touched(match[m], 0)]
             \/ match' = [match EXCEPT ![m] = Abandoned(match[m])]
        BY <1>0, <2>2 DEF Get, Cancel, TypeOK
    <3> QED
        BY <1>0, <3>1, RowsUnsettled, OneRowUnrated
  <2>3. ASSUME NEW p \in Player, NEW m \in Match, NEW d \in TxDelays, SubmitLate(p, m, d)
        PROVE  Unrated \/ Rated
    BY <2>3, resolveExpiryRates DEF SubmitLate, isExpiredDrawing
  <2>4. ASSUME NEW p \in Player, NEW m \in Match, NEW i \in Instance, NEW d \in TxDelays,
               Submit(p, m, i, d)
        PROVE  Unrated
    <3> DEFINE row == Stamped(match[m], p)
    <3>1. row \in Row /\ Unsettled(row) /\ UNCHANGED rating
        BY <1>0, <2>4, RowOpsType, RowsUnsettled DEF TypeOK, Submit
    <3>2. enterJudging(m, row, i, d) \/ match' = [match EXCEPT ![m] = row]
        BY <2>4 DEF Submit
    <3> HIDE DEF row
    <3> QED
        BY <1>0, <1>1, <3>1, <3>2, OneRowUnrated
  <2> QED
    BY <1>3, <2>1, <2>2, <2>3, <2>4 DEF Play
<1>4. ASSUME NEW k \in Slot, Judging(k)
      PROVE  Unrated \/ Rated
  <2>1. CASE runJudging(k) \/ judgeFails(k)
    BY <1>2, <2>1 DEF runJudging, judgeFails
  <2>2. ASSUME NEW winner \in Player \cup {NoPlayer}, persistResult(k, winner)
        PROVE  Unrated \/ Rated
    <3>1. pass[k] \in RunningPass /\ pass[k].match \in Match
        BY <1>0, <2>2 DEF persistResult, TypeOK, RunningPass, Idle
    <3>2. pass[k].ratings \in [Player -> Int]
        BY <3>1 DEF RunningPass
    <3> QED
        BY <1>2, <2>2, <3>1, <3>2 DEF persistResult, Rated, Resolution
  <2> QED
    BY <1>4, <2>1, <2>2 DEF Judging
<1>5. ASSUME NEW i \in Instance, Sweep(i)
      PROVE  Unrated \/ Rated
  <2>1. CASE List(i) \/ deferStuck(i)
    BY <1>2, <2>1 DEF List, deferStuck
  <2>2. ASSUME NEW m \in Match, NEW d \in TxDelays, resolveExpiredMatch(i, m, d)
        PROVE  Unrated \/ Rated
    BY <1>2, <2>2, resolveExpiryRates DEF resolveExpiredMatch, isExpiredDrawing
  <2>3. ASSUME NEW m \in Match, NEW d \in TxDelays, refireJudging(i, m, d)
        PROVE  Unrated
    <3>1. match[m] \in Row
        BY <1>0 DEF TypeOK
    <3> QED
        BY <1>1, <1>2, <2>3, <3>1 DEF refireJudging
  <2>4. ASSUME NEW m \in Match, abortJudging(i, m) \/ reapOpenMatch(i, m)
        PROVE  Unrated
    <3>1. /\ match[m] \in Row /\ UNCHANGED rating
          /\ \/ UNCHANGED match
             \/ match' = [match EXCEPT ![m] =
                             Finished(match[m], "aborted", NoPlayer, NoRatings, NoRatings)]
             \/ match' = [match EXCEPT ![m] = Abandoned(match[m])]
        BY <1>0, <2>4 DEF abortJudging, reapOpenMatch, TypeOK
    <3> QED
        BY <1>0, <1>2, <3>1, RowsUnsettled, OneRowUnrated
  <2> QED
    BY <1>5, <2>1, <2>2, <2>3, <2>4 DEF Sweep
<1>6. ASSUME NEW i \in Instance, Crash(i) \/ Shutdown(i) \/ Restart(i)
      PROVE  Unrated
    BY <1>2, <1>6 DEF Crash, Shutdown, Restart
<1> QED
    BY <1>3, <1>4, <1>5, <1>6 DEF Next

-----------------------------------------------------------------------------
(* The contract's variables, as DuelProperties gives them. *)
PhaseOf(row) == IF row.status = "open" THEN "waiting" ELSE row.status
phases == [m \in Match |-> PhaseOf(match[m])]
seated == [m \in Match |-> match[m].roster]

(* Time only makes a row older. *)
LEMMA OlderKeeps ==
    ASSUME NEW row \in Row, NEW new, new = Older(row)
    PROVE  /\ new.status = row.status /\ new.roster = row.roster /\ new.attempts = row.attempts
           /\ new.before = row.before /\ new.after = row.after
BY DEF Older, Row

(* A second that passes changes no status, seat, attempt or settled rating. *)
LEMMA TickKeeps ==
    ASSUME TypeOK, Tick
    PROVE  \A m \in Match :
              /\ match'[m].status = match[m].status /\ match'[m].roster = match[m].roster
              /\ match'[m].attempts = match[m].attempts
              /\ match'[m].before = match[m].before /\ match'[m].after = match[m].after
<1>1. ASSUME NEW m \in Match
      PROVE  match'[m] = Older(match[m]) /\ match[m] \in Row
    BY <1>1 DEF Tick, TypeOK
<1> QED
    BY <1>1, OlderKeeps

(* What a row becomes keeps its seats. *)
LEMMA JudgingKeeps ==
    ASSUME NEW row \in Row, NEW new, Collects(row, new)
    PROVE  new.status = "judging" /\ new.roster = row.roster
<1>1. PICK p \in row.roster : \/ new = Queued(Stamped(row, p))
                              \/ \E d \in TxDelays : new = Started(Stamped(row, p), d)
    BY DEF Collects
<1>2. PICK stamped : stamped = Stamped(row, p)
    OBVIOUS
<1>3. stamped \in Row /\ stamped.roster = row.roster
  <2>1. p \in Player
    BY DEF Row
  <2> QED
    BY <1>2, <2>1 DEF Stamped, Row
<1> QED
    BY <1>1, <1>2, <1>3 DEF Queued, Started, Row

(* A round that ends keeps its seats and says how it ended. *)
LEMMA FinishedKeeps ==
    ASSUME NEW row \in Row, NEW new, Forfeits(row, new) \/ Decides(row, new) \/ Aborts(row, new)
    PROVE  new.status = "done" /\ new.roster = row.roster /\ new.resolution # "none"
<1>1. PICK resolution, winner, before, after :
          resolution # "none" /\ new = Finished(row, resolution, winner, before, after)
    BY DEF Forfeits, Decides, Aborts
<1> QED
    BY <1>1 DEF Finished, Row

LEMMA MovedRow ==
    ASSUME TypeOK, NEW m \in Match, match' = [match EXCEPT ![m] = match'[m]]
    PROVE  /\ phases' = [phases EXCEPT ![m] = PhaseOf(match'[m])]
           /\ seated' = [seated EXCEPT ![m] = match'[m].roster]
BY DEF phases, seated, TypeOK

LEMMA StillRow ==
    ASSUME TypeOK, NEW m \in Match
    PROVE  /\ [phases EXCEPT ![m] = PhaseOf(match[m])] = phases
           /\ [seated EXCEPT ![m] = match[m].roster] = seated
BY DEF phases, seated

(* The two seats gain what the other loses. *)
LEMMA SeatsMirror ==
    ASSUME NEW p \in Player, NEW q \in Player, p # q, NEW roster, roster = {p, q},
           NEW r \in [Player -> Int], NEW winner \in roster \cup {NoPlayer}
    PROVE  /\ Delta(roster, r, winner)[p] \in -eloK..eloK
           /\ Delta(roster, r, winner)[q] = -Delta(roster, r, winner)[p]
           /\ \A o \in Player \ {p, q} : Delta(roster, r, winner)[o] = 0
<1>1. Opponent(roster, p) = q /\ Opponent(roster, q) = p
    BY DEF Opponent
<1>2. ScoreOf(p, winner) \in Score /\ ScoreOf(q, winner) = Opposite(ScoreOf(p, winner))
    BY IdAssumption DEF ScoreOf, Score, Opposite
<1>3. r[p] - r[q] \in Int /\ r[q] - r[p] = -(r[p] - r[q])
    OBVIOUS
<1>4. /\ EloGain(r[p] - r[q], ScoreOf(p, winner)) \in -eloK..eloK
      /\ EloGain(r[q] - r[p], ScoreOf(q, winner)) =
             -EloGain(r[p] - r[q], ScoreOf(p, winner))
    BY <1>2, <1>3, GainsMirror
<1> QED
    BY <1>1, <1>4 DEF Delta

LEMMA TwoSeats ==
    ASSUME NEW roster \in SUBSET Player, Cardinality(roster) = 2
    PROVE  \E p, q \in Player : p # q /\ roster = {p, q}
<1>1. IsFiniteSet(roster) /\ roster # {}
    BY FiniteAssumption, FS_Subset, FS_EmptySet
<1>2. PICK p \in roster : TRUE
    BY <1>1
<1>3. IsFiniteSet(roster \ {p}) /\ Cardinality(roster \ {p}) = 1
    BY <1>1, <1>2, FS_RemoveElement
<1>4. PICK q : roster \ {p} = {q}
    BY <1>3, FS_Singleton
<1> QED
    BY <1>2, <1>4

LEMMA RatedSettles ==
    ASSUME RoundInv, Rated
    PROVE  Contract!Next
<1>0. TypeOK
    BY DEF RoundInv
<1>1. PICK m \in Match, r \in [Player -> Int], winner \in Player \cup {NoPlayer},
           resolution \in {"forfeit", "judged"} :
          /\ match[m].status \in {"drawing", "judging"}
          /\ winner \in match[m].roster \cup {NoPlayer}
          /\ writeFinalResult(m, r, winner, resolution)
    BY DEF Rated
<1> DEFINE roster == match[m].roster
           delta == Delta(roster, r, winner)
<1>2. roster \in SUBSET Player /\ Cardinality(roster) = 2 /\ match[m] \in Row
    BY <1>0, <1>1 DEF RoundInv, RowInv, SeatsFit, TypeOK, Row
<1>3. PICK p, q \in Player : p # q /\ roster = {p, q}
    BY <1>2, TwoSeats
<1>4. /\ delta[p] \in -eloK..eloK /\ delta[q] = -delta[p]
      /\ \A o \in Player \ {p, q} : delta[o] = 0
    BY <1>1, <1>3, SeatsMirror
<1>5. rating \in [Player -> Int] /\ delta[p] \in Int
    BY <1>0, <1>4, eloKType DEF TypeOK
<1>6. rating' = [o \in Player |-> rating[o] + delta[o]]
    BY <1>1 DEF writeFinalResult
<1>7. rating' = [rating EXCEPT ![p] = @ + delta[p], ![q] = @ - delta[p]]
  <2>1. ASSUME NEW o \in Player
        PROVE  rating[o] + delta[o] =
                   [rating EXCEPT ![p] = @ + delta[p], ![q] = @ - delta[p]][o]
    <3>1. /\ rating[p] \in Int /\ rating[q] \in Int /\ rating[o] \in Int
          /\ delta[p] \in Int /\ delta[q] = -delta[p]
        BY <1>4, <1>5
    <3>2. CASE o = p
        BY <1>3, <1>5, <3>1, <3>2
    <3>3. CASE o = q
        BY <1>3, <1>5, <3>1, <3>3
    <3>4. CASE o \notin {p, q}
        BY <1>4, <1>5, <3>1, <3>4
    <3> QED
        BY <3>2, <3>3, <3>4
  <2> QED
    BY <1>5, <1>6, <2>1
<1>8. /\ match' = [match EXCEPT ![m] = match'[m]]
      /\ match'[m].status = "done" /\ match'[m].roster = roster
  <2>1. PICK before, after \in [Player -> Int] :
            match' = [match EXCEPT ![m] = Finished(match[m], resolution, winner, before, after)]
    BY <1>0, <1>1, SettledRow
  <2>2. match'[m] = Finished(match[m], resolution, winner, before, after)
    BY <1>0, <2>1 DEF TypeOK
  <2>3. match' = [match EXCEPT ![m] = match'[m]]
    BY <1>0, <2>1, OneRow
  <2>4. match'[m].status = "done" /\ match'[m].roster = roster
    BY <1>2, <2>2 DEF Finished, Row
  <2> QED
    BY <2>3, <2>4
<1>9. /\ phases' = [phases EXCEPT ![m] = "done"] /\ UNCHANGED seated
      /\ phases[m] = "drawing" \/ phases[m] = "judging"
  <2>1. PhaseOf(match'[m]) = "done"
    BY <1>8 DEF PhaseOf
  <2>2. phases' = [phases EXCEPT ![m] = "done"] /\ seated' = [seated EXCEPT ![m] = roster]
    BY <1>0, <1>8, <2>1, MovedRow
  <2>3. UNCHANGED seated
    BY <1>0, <2>2, StillRow
  <2>4. phases[m] = "drawing" \/ phases[m] = "judging"
    BY <1>1 DEF phases, PhaseOf
  <2> QED
    BY <2>2, <2>3, <2>4
<1>10. Contract!Settle(m)
    BY <1>3, <1>4, <1>7, <1>9 DEF Contract!Settle, Contract!Move, phases, seated, PhaseOf
<1> QED
    BY <1>10 DEF Contract!Next

LEMMA UnratedMoves ==
    ASSUME RoundInv, Unrated, RowsMove
    PROVE  [Contract!Next]_(Contract!cvars)
<1>0. TypeOK
    BY DEF RoundInv
<1>1. CASE UNCHANGED match
    BY <1>1 DEF Contract!cvars, Unrated
<1>2. ASSUME NEW m \in Match, match' = [match EXCEPT ![m] = match'[m]]
      PROVE  [Contract!Next]_(Contract!cvars)
  <2> DEFINE row == match[m]
             new == match'[m]
  <2>1. /\ phases' = [phases EXCEPT ![m] = PhaseOf(new)]
        /\ seated' = [seated EXCEPT ![m] = new.roster]
        /\ rating' = rating /\ row \in Row
    BY <1>0, <1>2, MovedRow DEF Unrated, TypeOK
  <2>2. ASSUME new.status = row.status, new.roster = row.roster
        PROVE  UNCHANGED Contract!cvars
    BY <1>0, <2>1, <2>2, StillRow DEF PhaseOf, Contract!cvars, phases, seated
  <2>3. ASSUME NEW from, NEW to, phases[m] = from, PhaseOf(new) = to, new.roster = row.roster
        PROVE  Contract!Move(m, from, to) /\ UNCHANGED << seated, rating >>
    BY <1>0, <2>1, <2>3, StillRow DEF Contract!Move, phases, PhaseOf
  <2>4. phases[m] = PhaseOf(row)
    BY DEF phases
  <2>5. RowStep(row, new)
    BY DEF RowsMove
  <2>6. CASE new = row
    BY <2>2, <2>6
  <2>7. CASE Opens(row, new)
    <3>1. PICK p \in Player, d \in TxDelays : new = Created(p, d)
        BY <2>7 DEF Opens
    <3>2. PhaseOf(new) = "waiting" /\ new.roster = {p} /\ phases[m] = "none"
        BY <2>4, <2>7, <3>1 DEF Opens, Created, NoRow, PhaseOf
    <3>3. Contract!Open(m, p)
        BY <2>1, <3>2 DEF Contract!Open, Contract!Move, phases, seated, PhaseOf
    <3> QED
        BY <3>3 DEF Contract!Next
  <2>8. CASE Pairs(row, new)
    <3>1. PICK p \in Player \ row.roster, d \in TxDelays : new = Joined(row, p, d)
        BY <2>8 DEF Pairs
    <3>2. /\ PhaseOf(new) = "drawing" /\ new.roster = row.roster \cup {p}
          /\ phases[m] = "waiting"
        BY <2>1, <2>4, <2>8, <3>1 DEF Pairs, Joined, Row, PhaseOf
    <3>3. seated[m] = row.roster
        BY DEF seated
    <3>4. Contract!Pair(m, p)
        BY <2>1, <3>1, <3>2, <3>3 DEF Contract!Pair, Contract!Move, phases, seated, PhaseOf
    <3> QED
        BY <3>4 DEF Contract!Next
  <2>9. CASE Pulses(row, new) \/ Draws(row, new) \/ Refires(row, new)
    <3>1. new.status = row.status /\ new.roster = row.roster
        BY <2>1, <2>9 DEF Pulses, Touched, Draws, Stamped, Refires, Started, Row
    <3> QED
        BY <2>2, <3>1
  <2>10. CASE CallsOff(row, new)
    <3>1. /\ PhaseOf(new) = "abandoned" /\ new.roster = row.roster
          /\ phases[m] = "waiting" \/ phases[m] = "drawing"
        BY <2>1, <2>4, <2>10 DEF CallsOff, Abandoned, Row, PhaseOf
    <3>2. Contract!CallOff(m)
        BY <2>3, <3>1 DEF Contract!CallOff, seated
    <3> QED
        BY <3>2 DEF Contract!Next
  <2>11. CASE Collects(row, new)
    <3>1. PhaseOf(new) = "judging" /\ new.roster = row.roster /\ phases[m] = "drawing"
        BY <2>1, <2>4, <2>11, JudgingKeeps DEF Collects, PhaseOf
    <3>2. Contract!Collect(m)
        BY <2>3, <3>1 DEF Contract!Collect, seated
    <3> QED
        BY <3>2 DEF Contract!Next
  <2>12. CASE Decides(row, new) \/ Aborts(row, new)
    <3>1. PhaseOf(new) = "done" /\ new.roster = row.roster /\ phases[m] = "judging"
        BY <2>1, <2>4, <2>12, FinishedKeeps DEF Decides, Aborts, PhaseOf
    <3>2. Contract!GiveUp(m)
        BY <2>3, <3>1 DEF Contract!GiveUp, seated
    <3> QED
        BY <3>2 DEF Contract!Next
  <2>13. CASE Forfeits(row, new)
    <3>1. PhaseOf(new) = "done" /\ new.roster = row.roster /\ phases[m] = "drawing"
        BY <2>1, <2>4, <2>13 DEF Forfeits, Finished, Row, PhaseOf
    <3>2. PICK p, q \in Player : p # q /\ row.roster = {p, q}
        BY <2>1, <2>13, TwoSeats DEF Forfeits, RoundInv, RowInv, SeatsFit, Row
    <3>3. rating' = [rating EXCEPT ![p] = @ + 0, ![q] = @ - 0]
        BY <1>0, <2>1 DEF TypeOK
    <3>4. 0 \in -eloK..eloK
        BY eloKType
    <3>5. Contract!Settle(m)
        BY <2>3, <3>1, <3>2, <3>3, <3>4 DEF Contract!Settle, seated
    <3> QED
        BY <3>5 DEF Contract!Next
  <2> QED
    BY <2>5, <2>6, <2>7, <2>8, <2>9, <2>10, <2>11, <2>12, <2>13 DEF RowStep
<1> QED
    BY <1>1, <1>2 DEF Unrated

(* The duel implements its contract: a match takes two players and is      *)
(* settled or called off once, and only a settled match moves the ladder,  *)
(* by no more than K and by as much for one seat as against the other      *)
(* (service.go, deadline.go, sweeper.go; docs/GAME.md 3 and 8).            *)
THEOREM DuelImplementsContract == Spec => ContractKept
<1>1. Init => Contract!Init
    BY DEF Init, Contract!Init, NoRow
<1>2. RoundInv /\ [Next]_vars => [Contract!Next]_(Contract!cvars)
  <2> SUFFICES ASSUME RoundInv, [Next]_vars PROVE [Contract!Next]_(Contract!cvars)
    OBVIOUS
  <2>1. CASE Tick
    <3>1. \A m \in Match : match'[m].status = match[m].status /\ match'[m].roster = match[m].roster
        BY <2>1, TickKeeps DEF RoundInv
    <3> QED
        BY <2>1, <3>1 DEF Tick, Contract!cvars
  <2>2. CASE UNCHANGED vars
    BY <2>2 DEF vars, Contract!cvars
  <2>3. CASE Next /\ ~Tick
    BY <2>3, NextMoves, NextRates, RatedSettles, UnratedMoves
  <2> QED
    BY <2>1, <2>2, <2>3
<1> QED
    BY <1>1, <1>2, RoundAlways, PTL DEF Spec, ContractKept, Contract!Spec

-----------------------------------------------------------------------------
(* The books of the duel.                                                  *)

(* What a step does to the books, apart from a tick: it plays (which may   *)
(* pair a match), or leaves the seats alone and bills nothing, or starts a *)
(* pass and bills the provider for it.                                     *)
OneRowChanges(m) == match' = [match EXCEPT ![m] = match'[m]]

SeatsStay(m) ==
    /\ OneRowChanges(m)
    /\ match'[m].roster = match[m].roster

BillsNothing ==
    /\ UNCHANGED ledger
    /\ \/ UNCHANGED match
       \/ \E m \in Match : SeatsStay(m) /\ match'[m].attempts = match[m].attempts

BillsPass ==
    \E m \in Match :
        /\ SeatsStay(m) /\ match'[m].attempts = match[m].attempts + 1
        /\ ledger' = [ledger EXCEPT !.provider = @ + 1]

(* The row operations that leave the seats alone. *)
LEMMA RowOpsKeep ==
    ASSUME TypeOK, NEW m \in Match
    PROVE  /\ \A d : Touched(match[m], d).roster = match[m].roster
                     /\ Touched(match[m], d).attempts = match[m].attempts
           /\ \A p : Stamped(match[m], p).roster = match[m].roster
                     /\ Stamped(match[m], p).attempts = match[m].attempts
           /\ Abandoned(match[m]).roster = match[m].roster
           /\ Abandoned(match[m]).attempts = match[m].attempts
           /\ \A resolution, winner, before, after :
                  /\ Finished(match[m], resolution, winner, before, after).roster = match[m].roster
                  /\ Finished(match[m], resolution, winner, before, after).attempts = match[m].attempts
BY DEF TypeOK, Row, Touched, Stamped, Abandoned, Finished

LEMMA JudgingRowsKeep ==
    ASSUME NEW row \in Row
    PROVE  /\ Queued(row).roster = row.roster /\ Queued(row).attempts = row.attempts
           /\ \A d : Started(row, d).roster = row.roster
                     /\ Started(row, d).attempts = row.attempts + 1
BY DEF Row, Queued, Started

LEMMA OneRowBills ==
    ASSUME TypeOK, NEW m \in Match, NEW new, match' = [match EXCEPT ![m] = new],
           new.roster = match[m].roster, new.attempts = match[m].attempts,
           UNCHANGED ledger
    PROVE  BillsNothing
<1>1. match'[m] = new /\ OneRowChanges(m)
    BY OneRow DEF OneRowChanges, TypeOK
<1> QED
    BY <1>1 DEF BillsNothing, SeatsStay

LEMMA enterJudgingBills ==
    ASSUME TypeOK, NEW m \in Match, NEW row \in Row, NEW i, NEW d,
           row.roster = match[m].roster, row.attempts = match[m].attempts,
           enterJudging(m, row, i, d)
    PROVE  BillsNothing \/ BillsPass
<1>1. CASE Free(i) = {}
  <2>1. match' = [match EXCEPT ![m] = Queued(row)] /\ UNCHANGED ledger
    BY <1>1 DEF enterJudging
  <2> QED
    BY <2>1, JudgingRowsKeep, OneRowBills
<1>2. CASE Free(i) # {}
  <2>1. /\ match' = [match EXCEPT ![m] = Started(row, d)]
        /\ ledger' = [ledger EXCEPT !.provider = @ + 1]
    BY <1>2 DEF enterJudging
  <2>2. match'[m] = Started(row, d) /\ OneRowChanges(m)
    BY <2>1, OneRow DEF OneRowChanges, TypeOK
  <2>3. SeatsStay(m) /\ match'[m].attempts = match[m].attempts + 1
    BY <2>2, JudgingRowsKeep DEF SeatsStay
  <2> QED
    BY <2>1, <2>3 DEF BillsPass
<1> QED
    BY <1>1, <1>2

LEMMA resolveExpiryBills ==
    ASSUME TypeOK, NEW m \in Match, resolveExpiry(m), UNCHANGED ledger
    PROVE  BillsNothing
<1>1. match[m] \in Row
    BY DEF TypeOK
<1>2. ASSUME NEW r, NEW winner, writeFinalResult(m, r, winner, "forfeit")
      PROVE  BillsNothing
    BY <1>2, RowOpsKeep, OneRowBills DEF writeFinalResult
<1>3. CASE match[m].submitted = {}
  <2>1. match' = [match EXCEPT ![m] = Abandoned(match[m])]
    BY <1>3, FS_EmptySet DEF resolveExpiry
  <2> QED
    BY <2>1, RowOpsKeep, OneRowBills
<1>4. CASE match[m].submitted # {}
  <2>1. \/ writeFinalResult(m, rating, CHOOSE p \in match[m].submitted : TRUE, "forfeit")
        \/ match' = [match EXCEPT ![m] = Queued(match[m])]
    BY <1>4 DEF resolveExpiry
  <2> QED
    BY <1>1, <1>2, <2>1, JudgingRowsKeep, OneRowBills
<1> QED
    BY <1>3, <1>4

LEMMA NextBills ==
    ASSUME TypeOK, Next, ~Tick
    PROVE  \/ BillsNothing \/ BillsPass
           \/ \E p \in Player, d \in TxDelays : CreateOrJoin(p, d)
<1>1. UNCHANGED << match, ledger >> => BillsNothing
    BY DEF BillsNothing
<1>2. CASE Play
  <2>1. ASSUME NEW p \in Player, NEW m \in Match, Get(p, m) \/ Cancel(p, m)
        PROVE  BillsNothing
    BY <2>1, RowOpsKeep, OneRowBills DEF Get, Cancel
  <2>2. ASSUME NEW p \in Player, NEW m \in Match, NEW d \in TxDelays, SubmitLate(p, m, d)
        PROVE  BillsNothing
    BY <2>2, resolveExpiryBills DEF SubmitLate
  <2>3. ASSUME NEW p \in Player, NEW m \in Match, NEW i \in Instance, NEW d \in TxDelays,
               Submit(p, m, i, d)
        PROVE  BillsNothing \/ BillsPass
    <3> DEFINE row == Stamped(match[m], p)
    <3>1. row \in Row /\ row.roster = match[m].roster /\ row.attempts = match[m].attempts
        BY <2>3, RowOpsType, RowOpsKeep DEF TypeOK, Submit
    <3>2. \/ enterJudging(m, row, i, d)
          \/ match' = [match EXCEPT ![m] = row] /\ UNCHANGED ledger
        BY <2>3 DEF Submit
    <3> HIDE DEF row
    <3> QED
        BY <3>1, <3>2, enterJudgingBills, OneRowBills
  <2> QED
    BY <1>2, <2>1, <2>2, <2>3 DEF Play
<1>3. ASSUME NEW k \in Slot, Judging(k)
      PROVE  BillsNothing
  <2>1. CASE runJudging(k) \/ judgeFails(k)
    BY <1>1, <2>1 DEF runJudging, judgeFails
  <2>2. ASSUME NEW winner \in Player \cup {NoPlayer}, persistResult(k, winner)
        PROVE  BillsNothing
    <3>1. pass[k].match \in Match
        BY <2>2 DEF persistResult, TypeOK, RunningPass, Idle
    <3>2. CASE match[pass[k].match].status = "judging"
      <4> DEFINE m == pass[k].match
      <4>1. PICK before, after :
                match' = [match EXCEPT ![m] = Finished(@, "judged", winner, before, after)]
          BY <2>2, <3>2 DEF persistResult, writeFinalResult
      <4>2. UNCHANGED ledger
          BY <2>2 DEF persistResult
      <4>3. m \in Match /\ match[m] \in Row
          BY <3>1 DEF TypeOK
      <4>4. PICK new : new = Finished(match[m], "judged", winner, before, after)
          OBVIOUS
      <4>5. new.roster = match[m].roster /\ new.attempts = match[m].attempts
          BY <4>3, <4>4 DEF Finished, Row
      <4>6. match' = [match EXCEPT ![m] = new]
          BY <4>1, <4>4
      <4> HIDE DEF m
      <4> QED
          BY <4>2, <4>3, <4>5, <4>6, OneRowBills
    <3>3. CASE match[pass[k].match].status # "judging"
        BY <1>1, <2>2, <3>3 DEF persistResult
    <3> QED
        BY <3>2, <3>3
  <2> QED
    BY <1>3, <2>1, <2>2 DEF Judging
<1>4. ASSUME NEW i \in Instance, Sweep(i)
      PROVE  BillsNothing \/ BillsPass
  <2>1. CASE List(i) \/ deferStuck(i)
    BY <1>1, <2>1 DEF List, deferStuck
  <2>2. ASSUME NEW m \in Match, NEW d \in TxDelays, resolveExpiredMatch(i, m, d)
        PROVE  BillsNothing
    BY <1>1, <2>2, resolveExpiryBills DEF resolveExpiredMatch
  <2>3. ASSUME NEW m \in Match, NEW d \in TxDelays, refireJudging(i, m, d)
        PROVE  BillsNothing \/ BillsPass
    <3>1. match[m] \in Row
        BY DEF TypeOK
    <3> QED
        BY <1>1, <2>3, <3>1, enterJudgingBills DEF refireJudging
  <2>4. ASSUME NEW m \in Match, abortJudging(i, m) \/ reapOpenMatch(i, m)
        PROVE  BillsNothing
    BY <1>1, <2>4, RowOpsKeep, OneRowBills DEF abortJudging, reapOpenMatch
  <2> QED
    BY <1>4, <2>1, <2>2, <2>3, <2>4 DEF Sweep
<1>5. ASSUME NEW i \in Instance, Crash(i) \/ Shutdown(i) \/ Restart(i)
      PROVE  BillsNothing
    BY <1>1, <1>5 DEF Crash, Shutdown, Restart
<1> QED
    BY <1>2, <1>3, <1>4, <1>5 DEF Next

-----------------------------------------------------------------------------
(* The books.  What a row gives a player, and what holds of a row besides  *)
(* RowInv for the sums to come out.                                        *)
Gains(p) == [m \in Match |-> match[m].after[p] - match[m].before[p]]
Attempts == [m \in Match |-> match[m].attempts]
Rounds(p) == {m \in Match : p \in match[m].roster /\ Cardinality(match[m].roster) = 2}

AccountFits(row) ==
    /\ row.status = "none" => row.roster = {}
    /\ row.status \in {"none", "open", "drawing"} => ~row.queued
    /\ row.status # "done" => row.before = NoRatings /\ row.after = NoRatings
    /\ row.status = "done" => Cardinality(row.roster) = 2 /\ row.resolution # "none"

LEMMA AccountKept ==
    ASSUME NEW row \in Row, RowInv(row), AccountFits(row), NEW new,
           RowStep(row, new) \/ new = Older(row)
    PROVE  AccountFits(new)
<1>1. CASE new = row
    BY <1>1
<1>2. CASE new = Older(row)
    BY <1>2 DEF Older, Row, AccountFits
<1>3. CASE Opens(row, new)
    BY <1>3 DEF Opens, Created, NoRow, AccountFits
<1>4. CASE Pairs(row, new)
    BY <1>4 DEF Pairs, Joined, Row, AccountFits
<1>5. CASE Pulses(row, new)
    BY <1>5 DEF Pulses, Touched, Row, AccountFits
<1>6. CASE CallsOff(row, new)
    BY <1>6 DEF CallsOff, Abandoned, Row, AccountFits
<1>7. CASE Draws(row, new)
    BY <1>7 DEF Draws, Stamped, Row, AccountFits
<1>8. CASE Collects(row, new)
    BY <1>8 DEF Collects, Stamped, Queued, Started, Row, AccountFits
<1>9. CASE Refires(row, new)
    BY <1>9 DEF Refires, Started, Row, AccountFits
<1>10. CASE Forfeits(row, new) \/ Decides(row, new) \/ Aborts(row, new)
  <2>1. /\ new.status = "done" /\ new.roster = row.roster /\ new.resolution # "none"
    BY <1>10, FinishedKeeps
  <2>2. Cardinality(row.roster) = 2
    BY <1>10 DEF Forfeits, Decides, Aborts, RowInv, SeatsFit
  <2> QED
    BY <2>1, <2>2 DEF AccountFits
<1> QED
    BY <1>1, <1>2, <1>3, <1>4, <1>5, <1>6, <1>7, <1>8, <1>9, <1>10 DEF RowStep

AccountInv == RoundInv /\ \A m \in Match : AccountFits(match[m])

LEMMA AccountInit == Init => AccountInv
BY RoundInit DEF Init, AccountInv, AccountFits, NoRow

LEMMA AccountStep == AccountInv /\ [Next]_vars => AccountInv'
<1> SUFFICES ASSUME AccountInv, [Next]_vars PROVE AccountInv'
    OBVIOUS
<1>1. RoundInv /\ RoundInv' /\ TypeOK
    BY RoundStep DEF AccountInv, RoundInv
<1>2. ASSUME NEW m \in Match
      PROVE  AccountFits(match'[m])
  <2>1. match[m] \in Row /\ RowInv(match[m]) /\ AccountFits(match[m])
    BY <1>1 DEF TypeOK, RoundInv, AccountInv
  <2>2. RowStep(match[m], match'[m]) \/ match'[m] = Older(match[m])
    BY <1>1, NextMoves DEF RowsMove, RowStep, Tick, vars
  <2> QED
    BY <2>1, <2>2, AccountKept
<1> QED
    BY <1>1, <1>2 DEF AccountInv

(* A step that leaves the ladder alone gives nobody anything. *)
LEMMA GainsStay ==
    ASSUME AccountInv, AccountInv', [Next]_vars, Tick \/ Unrated \/ UNCHANGED vars, NEW p \in Player
    PROVE  UNCHANGED rating /\ Gains(p)' = Gains(p)
<1>1. TypeOK /\ TypeOK' /\ RoundInv /\ RoundInv'
    BY DEF AccountInv, RoundInv
<1>2. UNCHANGED rating
    BY DEF Tick, Unrated, vars
<1>3. ASSUME NEW m \in Match
      PROVE  match'[m].after = match[m].after /\ match'[m].before = match[m].before
  <2>1. CASE Tick
    BY <1>1, <2>1, TickKeeps
  <2>2. CASE UNCHANGED vars
    BY <2>2 DEF vars
  <2>3. CASE Unrated /\ match'[m] = match[m]
    BY <2>3
  <2>4. CASE Unrated /\ match'[m] # match[m]
    <3>1. Unsettled(match'[m])
        BY <1>1, <2>4 DEF Unrated, TypeOK
    <3>2. match[m].status # "done"
        BY <1>1, <2>4, SettledStep DEF Terminal
    <3>3. match[m].before = NoRatings /\ match[m].after = NoRatings
        BY <3>2 DEF AccountInv, AccountFits
    <3>4. match'[m].before = NoRatings /\ match'[m].after = NoRatings
        BY <1>1, <3>1 DEF AccountInv, AccountFits, Unsettled, RoundInv, RowInv, ResultFits
    <3> QED
        BY <3>3, <3>4
  <2> QED
    BY <2>1, <2>2, <2>3, <2>4
<1> QED
    BY <1>2, <1>3 DEF Gains

(* A step that settles a match moves the ladder by what the match gives.   *)
LEMMA GainsMove ==
    ASSUME AccountInv, Rated, NEW p \in Player
    PROVE  \E m \in Match, resolution \in {"forfeit", "judged"} :
              /\ match[m].status \in {"drawing", "judging"} /\ match'[m].status = "done"
              /\ match'[m].resolution = resolution /\ match'[m].roster = match[m].roster
              /\ \A n \in Match \ {m} : match'[n] = match[n]
              /\ Gains(p)[m] = 0 /\ Gains(p)'[m] \in Int
              /\ rating'[p] = rating[p] + Gains(p)'[m]
              /\ p \notin match[m].roster => rating'[p] = rating[p]
<1>1. TypeOK
    BY DEF AccountInv, RoundInv
<1>2. PICK m \in Match, r \in [Player -> Int], winner \in Player \cup {NoPlayer},
           resolution \in {"forfeit", "judged"} :
          /\ match[m].status \in {"drawing", "judging"}
          /\ winner \in match[m].roster \cup {NoPlayer}
          /\ writeFinalResult(m, r, winner, resolution)
    BY DEF Rated
<1> DEFINE roster == match[m].roster
           delta == Delta(roster, r, winner)
           after == [q \in Player |-> rating[q] + delta[q]]
           new == Finished(match[m], resolution, winner, Seated(roster, rating), Seated(roster, after))
<1>3. rating' = after /\ match' = [match EXCEPT ![m] = new]
    BY <1>2 DEF writeFinalResult
<1>4. match[m] \in Row /\ roster \in SUBSET Player /\ rating \in [Player -> Int]
    BY <1>1 DEF TypeOK, Row
<1>5. delta \in [Player -> Int]
  <2>1. Cardinality(roster) = 2
    BY <1>2 DEF AccountInv, RoundInv, RowInv, SeatsFit
  <2>2. PICK a, b \in Player : a # b /\ roster = {a, b}
    BY <1>4, <2>1, TwoSeats
  <2>3. /\ delta[a] \in -eloK..eloK /\ delta[b] = -delta[a]
        /\ \A o \in Player \ {a, b} : delta[o] = 0
    BY <1>2, <2>2, SeatsMirror
  <2>4. \A q \in Player : delta[q] \in Int
    <3> HIDE DEF delta
    <3>1. delta[a] \in Int /\ delta[b] \in Int
        BY <2>3, eloKType
    <3> QED
        BY <2>2, <2>3, <3>1
  <2>5. DOMAIN delta = Player /\ delta = [q \in Player |-> delta[q]]
    BY DEF Delta
  <2> QED
    BY <2>4, <2>5
<1>6. p \notin roster => delta[p] = 0
    BY DEF Delta
<1>7. /\ match'[m] = new /\ \A n \in Match \ {m} : match'[n] = match[n]
    BY <1>1, <1>3 DEF TypeOK
<1>8. /\ new.status = "done" /\ new.resolution = resolution /\ new.roster = roster
      /\ new.before = Seated(roster, rating) /\ new.after = Seated(roster, after)
    BY <1>4 DEF Finished, Row
<1>9. new.after[p] - new.before[p] = delta[p]
  <2>1. rating[p] \in Int /\ delta[p] \in Int
    BY <1>4, <1>5
  <2>2. after[p] = rating[p] + delta[p]
    OBVIOUS
  <2>3. new.before[p] = (IF p \in roster THEN rating[p] ELSE 0)
        /\ new.after[p] = (IF p \in roster THEN after[p] ELSE 0)
    BY <1>8 DEF Seated
  <2> HIDE DEF delta, after, new, roster
  <2> QED
    BY <1>6, <2>1, <2>2, <2>3
<1>10. Gains(p)'[m] = delta[p]
    BY <1>7, <1>9 DEF Gains
<1>11. Gains(p)[m] = 0
  <2>1. match[m].before = NoRatings /\ match[m].after = NoRatings
    BY <1>2 DEF AccountInv, AccountFits
  <2> QED
    BY <2>1 DEF Gains, NoRatings
<1>12. rating'[p] = rating[p] + delta[p] /\ delta[p] \in Int /\ rating[p] \in Int
    BY <1>3, <1>4, <1>5
<1> HIDE DEF delta, after, new
<1> QED
    BY <1>2, <1>6, <1>7, <1>8, <1>10, <1>11, <1>12

LEMMA GainsType ==
    ASSUME TypeOK, NEW p \in Player
    PROVE  Gains(p) \in [Match -> Int]
<1>1. ASSUME NEW m \in Match
      PROVE  match[m].after[p] - match[m].before[p] \in Int
    BY DEF TypeOK, Row
<1> QED
    BY <1>1 DEF Gains

LEMMA LadderStep ==
    ASSUME AccountInv, AccountInv', [Next]_vars, LadderAddsUp
    PROVE  LadderAddsUp'
<1> SUFFICES ASSUME NEW p \in Player
             PROVE  rating'[p] = InitRating[p] + SumFunction(Gains(p)')
    BY DEF LadderAddsUp, Gains
<1>1. rating[p] = InitRating[p] + SumFunction(Gains(p))
    BY DEF LadderAddsUp, Gains
<1>2. TypeOK /\ TypeOK' /\ RoundInv
    BY DEF AccountInv, RoundInv
<1>3. CASE Tick \/ Unrated \/ UNCHANGED vars
    BY <1>1, <1>3, GainsStay
<1>4. CASE Rated
  <2>1. PICK m \in Match :
              /\ \A n \in Match \ {m} : match'[n] = match[n]
              /\ Gains(p)[m] = 0 /\ Gains(p)'[m] \in Int
              /\ rating'[p] = rating[p] + Gains(p)'[m]
    BY <1>4, GainsMove
  <2>2. Gains(p) \in [Match -> Int] /\ Gains(p)' \in [Match -> Int]
    <3>1. \A n \in Match : match'[n].after[p] - match'[n].before[p] \in Int
        BY <1>2 DEF TypeOK, Row
    <3> QED
        BY <1>2, <3>1, GainsType DEF Gains
  <2>3. \A n \in Match \ {m} : Gains(p)[n] = Gains(p)'[n]
    BY <2>1 DEF Gains
  <2>4. /\ SumFunction(Gains(p)) \in Int
        /\ SumFunction(Gains(p)') = SumFunction(Gains(p)) + Gains(p)'[m] - Gains(p)[m]
    BY <2>1, <2>2, <2>3, FiniteAssumption, SumChange
  <2>5. InitRating[p] \in Int
    BY IdAssumption
  <2> QED
    BY <1>1, <2>1, <2>4, <2>5
<1> QED
    BY <1>2, <1>3, <1>4, NextRates

-----------------------------------------------------------------------------
(* Billing.                                                                *)
LEMMA SeatsStayRounds ==
    ASSUME TypeOK, NEW m \in Match, SeatsStay(m), NEW p \in Player
    PROVE  Rounds(p)' = Rounds(p)
<1>1. \A n \in Match : match'[n].roster = match[n].roster
    BY DEF SeatsStay, OneRowChanges, TypeOK
<1> QED
    BY <1>1 DEF Rounds

LEMMA NothingBilled ==
    ASSUME TypeOK, BillsNothing \/ Tick \/ UNCHANGED vars
    PROVE  /\ UNCHANGED ledger /\ Attempts' = Attempts
           /\ \A p \in Player : Rounds(p)' = Rounds(p)
<1>1. CASE UNCHANGED match /\ UNCHANGED ledger
    BY <1>1 DEF Attempts, Rounds
<1>2. CASE Tick
  <2>1. \A m \in Match : /\ match'[m].roster = match[m].roster
                         /\ match'[m].attempts = match[m].attempts
    BY <1>2, TickKeeps
  <2> QED
    BY <1>2, <2>1 DEF Tick, Attempts, Rounds
<1>3. ASSUME NEW m \in Match, SeatsStay(m), match'[m].attempts = match[m].attempts,
             UNCHANGED ledger
      PROVE  /\ UNCHANGED ledger /\ Attempts' = Attempts
             /\ \A p \in Player : Rounds(p)' = Rounds(p)
  <2>1. \A n \in Match : match'[n].attempts = match[n].attempts
    BY <1>3 DEF SeatsStay, OneRowChanges, TypeOK
  <2> QED
    BY <1>3, <2>1, SeatsStayRounds DEF Attempts
<1> QED
    BY <1>1, <1>2, <1>3 DEF BillsNothing, vars

LEMMA PassIsBilled ==
    ASSUME TypeOK, TypeOK', BillsPass
    PROVE  /\ ledger'.provider = ledger.provider + 1 /\ ledger'.player = ledger.player
           /\ SumFunction(Attempts') = SumFunction(Attempts) + 1
           /\ SumFunction(Attempts) \in Int
           /\ \A p \in Player : Rounds(p)' = Rounds(p)
<1>1. PICK m \in Match :
        /\ SeatsStay(m) /\ match'[m].attempts = match[m].attempts + 1
        /\ ledger' = [ledger EXCEPT !.provider = @ + 1]
    BY DEF BillsPass
<1>2. ledger'.provider = ledger.provider + 1 /\ ledger'.player = ledger.player
    BY <1>1 DEF TypeOK
<1>3. Attempts \in [Match -> Int] /\ Attempts' \in [Match -> Int]
  <2>1. \A n \in Match : match[n].attempts \in Int /\ match'[n].attempts \in Int
    BY DEF TypeOK, Row
  <2> QED
    BY <2>1 DEF Attempts
<1>4. /\ \A n \in Match \ {m} : Attempts[n] = Attempts'[n]
      /\ Attempts'[m] = Attempts[m] + 1 /\ Attempts[m] \in Int
    BY <1>1, <1>3 DEF SeatsStay, OneRowChanges, TypeOK, Attempts
<1>5. /\ SumFunction(Attempts) \in Int
      /\ SumFunction(Attempts') = SumFunction(Attempts) + Attempts'[m] - Attempts[m]
    BY <1>3, <1>4, FiniteAssumption, SumChange
<1> QED
    BY <1>1, <1>2, <1>4, <1>5, SeatsStayRounds

(* Play bills both seats of the round it starts, and nothing else.         *)
LEMMA PlayIsBilled ==
    ASSUME AccountInv, AccountInv', NEW q \in Player, NEW d \in TxDelays, CreateOrJoin(q, d),
           NEW p \in Player
    PROVE  /\ ledger'.provider = ledger.provider /\ Attempts' = Attempts
           /\ \/ ledger'.player[p] = ledger.player[p] /\ Rounds(p)' = Rounds(p)
              \/ /\ ledger'.player[p] = ledger.player[p] + 1
                 /\ \E m \in Match : m \notin Rounds(p) /\ Rounds(p)' = Rounds(p) \cup {m}
<1>0. TypeOK /\ \A m \in Match : RowInv(match[m]) /\ AccountFits(match[m]) /\ match[m] \in Row
    BY DEF AccountInv, RoundInv, TypeOK
<1>1. ASSUME NEW m \in Match, match' = [match EXCEPT ![m] = Touched(match[m], d)], UNCHANGED ledger
      PROVE  UNCHANGED ledger /\ Attempts' = Attempts /\ Rounds(p)' = Rounds(p)
    BY <1>0, <1>1, RowOpsKeep, OneRowBills, NothingBilled
<1>2. ASSUME NEW m \in Match, match[m].status = "none", match' = [match EXCEPT ![m] = Created(q, d)],
             UNCHANGED ledger
      PROVE  UNCHANGED ledger /\ Attempts' = Attempts /\ Rounds(p)' = Rounds(p)
  <2>1. /\ Created(q, d).roster = {q} /\ Created(q, d).attempts = 0
        /\ match[m].roster = {} /\ match[m].attempts = 0
    BY <1>0, <1>2 DEF Created, NoRow, AccountFits, RowInv, AttemptsFit
  <2>2. match'[m] = Created(q, d) /\ \A n \in Match \ {m} : match'[n] = match[n]
    BY <1>0, <1>2 DEF TypeOK
  <2>3. Attempts' = Attempts
    BY <2>1, <2>2 DEF Attempts
  <2>4. Cardinality({q}) = 1
    BY FS_Singleton
  <2>5. Rounds(p)' = Rounds(p)
    BY <2>1, <2>2, <2>4 DEF Rounds
  <2> QED
    BY <1>2, <2>3, <2>5
<1>3. ASSUME NEW m \in Match, Joinable(m, q, d), Join(q, m, d)
      PROVE  /\ ledger'.provider = ledger.provider /\ Attempts' = Attempts
             /\ \/ ledger'.player[p] = ledger.player[p] /\ Rounds(p)' = Rounds(p)
                \/ /\ ledger'.player[p] = ledger.player[p] + 1
                   /\ m \notin Rounds(p) /\ Rounds(p)' = Rounds(p) \cup {m}
  <2> DEFINE old == match[m].roster
             new == Joined(match[m], q, d)
  <2>1. /\ match' = [match EXCEPT ![m] = new]
        /\ ledger' = [ledger EXCEPT !.player =
                         [o \in Player |-> IF o \in old \cup {q} THEN @[o] + 1 ELSE @[o]]]
    BY <1>3 DEF Join, billPlayers
  <2>2. new.roster = old \cup {q} /\ new.attempts = match[m].attempts /\ new.status = "drawing"
    BY <1>0 DEF Joined, Row
  <2>3. match'[m] = new /\ \A n \in Match \ {m} : match'[n] = match[n]
    BY <1>0, <2>1 DEF TypeOK
  <2>4. Cardinality(old) # 2 /\ Cardinality(old \cup {q}) = 2
    <3>1. Cardinality(old) = 1
        BY <1>0, <1>3 DEF Joinable, RowInv, SeatsFit
    <3>2. match'[m].status = "drawing" /\ RowInv(match'[m])
        BY <2>2, <2>3 DEF AccountInv, RoundInv
    <3> QED
        BY <2>2, <2>3, <3>1, <3>2 DEF RowInv, SeatsFit
  <2>5. Attempts' = Attempts
    BY <2>2, <2>3 DEF Attempts
  <2>6. /\ m \notin Rounds(p)
        /\ p \in old \cup {q} => Rounds(p)' = Rounds(p) \cup {m}
        /\ p \notin old \cup {q} => Rounds(p)' = Rounds(p)
    <3> HIDE DEF new
    <3>1. \A n \in Match : n \in Rounds(p)' <=>
              p \in match'[n].roster /\ Cardinality(match'[n].roster) = 2
        BY DEF Rounds
    <3>2. \A n \in Match : n \in Rounds(p) <=>
              p \in match[n].roster /\ Cardinality(match[n].roster) = 2
        BY DEF Rounds
    <3>3. Rounds(p) \subseteq Match /\ Rounds(p)' \subseteq Match
        BY DEF Rounds
    <3>4. \A n \in Match \ {m} : n \in Rounds(p)' <=> n \in Rounds(p)
        BY <2>3, <3>1, <3>2
    <3>5. m \notin Rounds(p) /\ (m \in Rounds(p)' <=> p \in old \cup {q})
        BY <2>2, <2>3, <2>4, <3>1, <3>2
    <3> QED
        BY <3>3, <3>4, <3>5
  <2>7. /\ ledger'.provider = ledger.provider
        /\ ledger'.player[p] = ledger.player[p] + (IF p \in old \cup {q} THEN 1 ELSE 0)
    BY <1>0, <2>1 DEF TypeOK
  <2>8. ledger.player[p] \in Int
    BY <1>0 DEF TypeOK
  <2> QED
    BY <2>5, <2>6, <2>7, <2>8
<1> QED
    BY <1>1, <1>2, <1>3 DEF CreateOrJoin, Create

LEMMA BillingStep ==
    ASSUME AccountInv, AccountInv', [Next]_vars, BilledExactly
    PROVE  BilledExactly'
<1>0. TypeOK /\ TypeOK'
    BY DEF AccountInv, RoundInv
<1>1. /\ ledger.provider = SumFunction(Attempts)
      /\ \A p \in Player : ledger.player[p] = Cardinality(Rounds(p))
    BY DEF BilledExactly, Attempts, Rounds
<1> SUFFICES /\ ledger'.provider = SumFunction(Attempts')
             /\ \A p \in Player : ledger'.player[p] = Cardinality(Rounds(p)')
    BY DEF BilledExactly, Attempts, Rounds
<1>2. CASE BillsNothing \/ Tick \/ UNCHANGED vars
    BY <1>0, <1>1, <1>2, NothingBilled
<1>3. CASE BillsPass
    BY <1>0, <1>1, <1>3, PassIsBilled
<1>4. ASSUME NEW q \in Player, NEW d \in TxDelays, CreateOrJoin(q, d)
      PROVE  /\ ledger'.provider = SumFunction(Attempts')
             /\ \A p \in Player : ledger'.player[p] = Cardinality(Rounds(p)')
  <2>1. ledger'.provider = SumFunction(Attempts')
    BY <1>1, <1>4, PlayIsBilled, IdAssumption
  <2>2. ASSUME NEW p \in Player
        PROVE  ledger'.player[p] = Cardinality(Rounds(p)')
    <3>1. IsFiniteSet(Rounds(p)) /\ Cardinality(Rounds(p)) \in Nat
        BY FiniteAssumption, FS_Subset, FS_CardinalityType DEF Rounds
    <3>2. \A m : m \notin Rounds(p) =>
              Cardinality(Rounds(p) \cup {m}) = Cardinality(Rounds(p)) + 1
        BY <3>1, FS_AddElement
    <3> QED
        BY <1>1, <1>4, <3>2, PlayIsBilled
  <2> QED
    BY <2>1, <2>2
<1> QED
    BY <1>0, <1>2, <1>3, <1>4, NextBills

-----------------------------------------------------------------------------
(* The leaderboard.                                                        *)
MovedAreRanked == \A p \in Player : rating[p] # InitRating[p] => p \in Ranked

LEMMA CountedStays ==
    ASSUME RoundInv, [Next]_vars, NEW p \in Player, p \in Ranked
    PROVE  p \in Ranked'
<1>1. PICK m \in Match : /\ p \in match[m].roster /\ match[m].status = "done"
                         /\ match[m].resolution # "aborted"
    BY DEF Ranked, Counted
<1>2. match'[m] = match[m]
    BY <1>1, SettledStep DEF Terminal
<1>3. m \in Counted(p)'
    BY <1>1, <1>2 DEF Counted
<1> QED
    BY <1>3 DEF Ranked

LEMMA RankedStep ==
    ASSUME AccountInv, AccountInv', [Next]_vars, MovedAreRanked
    PROVE  MovedAreRanked'
<1> SUFFICES ASSUME NEW p \in Player, rating'[p] # InitRating[p]
             PROVE  p \in Ranked'
    BY DEF MovedAreRanked
<1>1. RoundInv
    BY DEF AccountInv
<1>2. CASE rating'[p] = rating[p]
    BY <1>1, <1>2, CountedStays DEF MovedAreRanked
<1>3. CASE rating'[p] # rating[p]
  <2>1. Rated
    BY <1>1, <1>3, GainsStay, NextRates
  <2>2. PICK m \in Match : /\ match'[m].status = "done" /\ match'[m].resolution \in {"forfeit", "judged"}
                           /\ match'[m].roster = match[m].roster
                           /\ p \notin match[m].roster => rating'[p] = rating[p]
    BY <2>1, GainsMove
  <2>3. m \in Counted(p)'
    BY <1>3, <2>2 DEF Counted
  <2> QED
    BY <2>3 DEF Ranked
<1> QED
    BY <1>2, <1>3

(* Every win on the board is the loss of the seat across. *)
LEMMA WinsAreLosses ==
    ASSUME AccountInv
    PROVE  UNION {Wins(p) : p \in Player} = UNION {Losses(p) : p \in Player}
<1>1. ASSUME NEW p \in Player, NEW m \in Wins(p)
      PROVE  \E q \in Player : m \in Losses(q)
  <2>1. /\ m \in Match /\ p \in match[m].roster /\ match[m].status = "done"
        /\ match[m].resolution # "aborted" /\ match[m].winner = p
    BY <1>1 DEF Wins, Counted
  <2>2. Cardinality(match[m].roster) = 2 /\ match[m].roster \in SUBSET Player
    BY <2>1 DEF AccountInv, AccountFits, RoundInv, TypeOK, Row
  <2>3. PICK q \in match[m].roster : q # p
    BY <2>2, TwoSeats
  <2>4. m \in Losses(q) /\ q \in Player
    BY <2>1, <2>2, <2>3, IdAssumption DEF Losses, Counted
  <2> QED
    BY <2>4
<1>2. ASSUME NEW q \in Player, NEW m \in Losses(q)
      PROVE  \E p \in Player : m \in Wins(p)
  <2>1. /\ m \in Match /\ q \in match[m].roster /\ match[m].status = "done"
        /\ match[m].resolution # "aborted" /\ match[m].winner \notin {NoPlayer, q}
    BY <1>2 DEF Losses, Counted
  <2>2. match[m].resolution \in {"judged", "forfeit"} /\ match[m].roster \in SUBSET Player
    BY <2>1 DEF AccountInv, AccountFits, RoundInv, TypeOK, Row, Resolution
  <2>3. match[m].winner \in match[m].roster
    BY <2>1, <2>2 DEF AccountInv, RoundInv, RowInv, SeatsFit, ResultFits
  <2> QED
    BY <2>1, <2>2, <2>3 DEF Wins, Counted
<1> QED
    BY <1>1, <1>2

BooksInv == AccountInv /\ LadderAddsUp /\ BilledExactly /\ MovedAreRanked

LEMMA BooksInit == Init => BooksInv
<1> SUFFICES ASSUME Init PROVE BooksInv
    OBVIOUS
<1>1. \A m \in Match : match[m] = NoRow
    BY DEF Init
<1>2. LadderAddsUp
  <2>1. ASSUME NEW p \in Player
        PROVE  rating[p] = InitRating[p] + SumFunction(Gains(p))
    <3>1. \A m \in Match : match[m].after[p] - match[m].before[p] = 0
        BY <1>1 DEF NoRow, NoRatings
    <3>2. Gains(p) \in [Match -> Int] /\ \A m \in Match : Gains(p)[m] = 0
        BY <3>1 DEF Gains
    <3>3. SumFunction(Gains(p)) = 0
        BY <3>2, FiniteAssumption, SumOfNothing
    <3> QED
        BY <3>3, IdAssumption DEF Init
  <2> QED
    BY <2>1 DEF LadderAddsUp, Gains
<1>3. BilledExactly
  <2>1. Attempts \in [Match -> Int] /\ \A m \in Match : Attempts[m] = 0
    BY <1>1 DEF Attempts, NoRow
  <2>2. ledger.provider = SumFunction(Attempts)
    BY <2>1, FiniteAssumption, SumOfNothing DEF Init
  <2>3. \A p \in Player : Rounds(p) = {}
    BY <1>1 DEF Rounds, NoRow
  <2>4. \A p \in Player : ledger.player[p] = Cardinality(Rounds(p))
    BY <2>3, FS_EmptySet DEF Init
  <2> QED
    BY <2>2, <2>4 DEF BilledExactly, Attempts, Rounds
<1>4. MovedAreRanked
    BY DEF Init, MovedAreRanked
<1> QED
    BY <1>2, <1>3, <1>4, AccountInit DEF BooksInv

LEMMA BooksAlways == Spec => []BooksInv
<1>1. BooksInv /\ [Next]_vars => BooksInv'
  <2> SUFFICES ASSUME BooksInv, [Next]_vars PROVE BooksInv'
    OBVIOUS
  <2>1. AccountInv'
    BY AccountStep DEF BooksInv
  <2> QED
    BY <2>1, LadderStep, BillingStep, RankedStep DEF BooksInv
<1> QED
    BY <1>1, BooksInit, PTL DEF Spec

(* No match is rated twice or by half, and no result that lands at the     *)
(* same time as another is lost (service.go writeFinalResult).             *)
THEOREM LadderAlwaysAddsUp == Spec => []LadderAddsUp
<1>1. BooksInv => LadderAddsUp
    BY DEF BooksInv
<1> QED
    BY <1>1, BooksAlways, PTL

(* Nothing is billed twice, and nothing for a match that did not happen    *)
(* (service.go enterJudging, CreateOrJoin).                                *)
THEOREM BillsAreExact == Spec => []BilledExactly
<1>1. BooksInv => BilledExactly
    BY DEF BooksInv
<1> QED
    BY <1>1, BooksAlways, PTL

(* The record and the ladder tell of the same matches (leaderboard.sql).   *)
THEOREM BoardAlwaysFits == Spec => []BoardFitsLadder
<1>1. BooksInv => BoardFitsLadder
    BY WinsAreLosses DEF BooksInv, MovedAreRanked, BoardFitsLadder
<1> QED
    BY <1>1, BooksAlways, PTL

-----------------------------------------------------------------------------
(* One match in play.                                                      *)
LEMMA PlayingFinite ==
    ASSUME NEW p
    PROVE  IsFiniteSet(Playing(p)) /\ Playing(p) \subseteq Match
BY FiniteAssumption, FS_Subset DEF Playing

(* Where the seats stay, nobody gets another match to play. *)
LEMMA PlayingShrinks ==
    ASSUME AccountInv, NEW m \in Match, NEW p \in Player,
           RowStep(match[m], match'[m]) \/ match'[m] = Older(match[m]),
           match'[m].roster = match[m].roster, m \in Playing(p)'
    PROVE  m \in Playing(p)
<1> DEFINE row == match[m]
           new == match'[m]
<1>1. row \in Row /\ RowInv(row) /\ AccountFits(row)
    BY DEF AccountInv, RoundInv, TypeOK
<1>2. /\ p \in row.roster
      /\ new.status \in {"drawing", "judging"} \/ (new.status = "open" /\ new.age - 0 < OpenTTL)
    BY DEF Playing, InPlay
<1>3. row.age \in Nat /\ OpenTTL \in Nat /\ MaxDelay \in Nat
    BY <1>1, TimeAssumption DEF Row
<1>4. SUFFICES \/ row.status \in {"drawing", "judging"}
               \/ row.status = "open" /\ row.age - 0 < OpenTTL
    BY <1>2 DEF Playing, InPlay
<1>5. CASE new = row
    BY <1>2, <1>5
<1>6. CASE new = Older(row)
  <2>1. new.status = row.status
    BY <1>1, <1>6 DEF Older, Row
  <2>2. CASE row.status = "open"
    <3>1. ~row.queued
        BY <1>1, <2>2 DEF AccountFits
    <3>2. new.age = Upto(row.age, OpenTTL + MaxDelay)
        BY <1>1, <1>6, <2>2, <3>1 DEF Older, Row, AgeCap
    <3> QED
        BY <1>2, <1>3, <2>1, <2>2, <3>2 DEF Upto
  <2> QED
    BY <1>2, <2>1, <2>2
<1>7. CASE Opens(row, new)
  <2>1. row.roster = {}
    BY <1>1, <1>7 DEF Opens, AccountFits
  <2> QED
    BY <1>2, <2>1
<1>8. CASE Pairs(row, new)
  <2>1. PICK q \in Player \ row.roster : new.roster = row.roster \cup {q}
    BY <1>1, <1>8 DEF Pairs, Joined, Row
  <2> QED
    BY <2>1
<1>9. CASE Pulses(row, new)
    BY <1>1, <1>2, <1>9 DEF Pulses, Touched, Row
<1>10. CASE CallsOff(row, new)
  <2>1. new.status = "abandoned"
    BY <1>1, <1>10 DEF CallsOff, Abandoned, Row
  <2> QED
    BY <1>2, <2>1
<1>11. CASE Draws(row, new) \/ Collects(row, new) \/ Refires(row, new) \/ Forfeits(row, new)
            \/ Decides(row, new) \/ Aborts(row, new)
    BY <1>11 DEF Draws, Collects, Refires, Forfeits, Decides, Aborts
<1> QED
    BY <1>5, <1>6, <1>7, <1>8, <1>9, <1>10, <1>11 DEF RowStep

LEMMA FewerPlaying ==
    ASSUME NEW p, Cardinality(Playing(p)) <= 1,
           Playing(p)' \subseteq Playing(p)
    PROVE  ~(Cardinality(Playing(p)') > 1)
<1>1. IsFiniteSet(Playing(p))
    BY PlayingFinite
<1>2. Cardinality(Playing(p)') <= Cardinality(Playing(p)) /\ IsFiniteSet(Playing(p)')
    BY <1>1, FS_Subset
<1>3. Cardinality(Playing(p)) \in Nat /\ Cardinality(Playing(p)') \in Nat
    BY <1>1, <1>2, FS_CardinalityType
<1> QED
    BY <1>2, <1>3

LEMMA OnePlaying ==
    ASSUME NEW p, NEW m, Playing(p)' \subseteq {m}
    PROVE  ~(Cardinality(Playing(p)') > 1)
<1>1. IsFiniteSet({m}) /\ Cardinality({m}) = 1
    BY FS_Singleton
<1>2. Cardinality(Playing(p)') <= 1 /\ IsFiniteSet(Playing(p)')
    BY <1>1, FS_Subset
<1>3. Cardinality(Playing(p)') \in Nat
    BY <1>2, FS_CardinalityType
<1> QED
    BY <1>2, <1>3

(* Who plays has no match in play, by their own clock, or resumes it.      *)
LEMMA PlayingAfterPlay ==
    ASSUME AccountInv, AccountInv', NEW q \in Player, NEW d \in TxDelays, CreateOrJoin(q, d),
           NEW p \in Player, Cardinality(Playing(p)) <= 1, Cardinality(Playing(p)') > 1
    PROVE  \E m \in Match : SeatedByLateClock(p, m)
<1>0. /\ TypeOK /\ d \in Nat /\ d <= MaxDelay
      /\ \A m \in Match : AccountFits(match[m]) /\ RowInv(match[m]) /\ match[m] \in Row
    BY TimeAssumption DEF AccountInv, RoundInv, TypeOK, TxDelays
<1>1. ASSUME NEW m \in Match, \A n \in Match \ {m} : match'[n] = match[n]
      PROVE  \A n \in Playing(p)' \ {m} : n \in Playing(p)
    BY <1>1 DEF Playing, InPlay
<1>2. ASSUME {m \in Match : InPlay(m, q, d)} = {}
      PROVE  Playing(q) = {}
  <2>1. ASSUME NEW m \in Match, InPlay(m, q, 0)
        PROVE  InPlay(m, q, d)
    <3>1. match[m].age \in Nat /\ OpenTTL \in Nat
        BY <1>0, TimeAssumption DEF Row
    <3> QED
        BY <1>0, <2>1, <3>1 DEF InPlay
  <2> QED
    BY <1>2, <2>1 DEF Playing
<1>3. ASSUME NEW m \in Match, match[m].status = "open",
             match' = [match EXCEPT ![m] = Touched(match[m], d)]
      PROVE  FALSE
  <2>1. /\ match'[m] = Touched(match[m], d) /\ \A n \in Match \ {m} : match'[n] = match[n]
        /\ Touched(match[m], d).roster = match[m].roster
    BY <1>0, <1>3, RowOpsKeep DEF TypeOK
  <2>2. RowStep(match[m], match'[m])
    BY <1>3, <2>1 DEF RowStep, Pulses
  <2>3. Playing(p)' \subseteq Playing(p)
    BY <1>1, <2>1, <2>2, PlayingShrinks
  <2> QED
    BY <2>3, FewerPlaying
<1>4. ASSUME NEW m \in Match, Playing(q) = {}, match[m].status = "none",
             match' = [match EXCEPT ![m] = Created(q, d)]
      PROVE  FALSE
  <2>1. /\ match'[m] = Created(q, d) /\ \A n \in Match \ {m} : match'[n] = match[n]
        /\ Created(q, d).roster = {q}
    BY <1>0, <1>4 DEF TypeOK, Created, NoRow
  <2>2. CASE p = q
    <3>1. Playing(p)' \subseteq {m}
        BY <1>1, <1>4, <2>1, <2>2
    <3> QED
        BY <3>1, OnePlaying
  <2>3. CASE p # q
    <3>1. m \notin Playing(p)'
        BY <2>1, <2>3 DEF Playing, InPlay
    <3>2. Playing(p)' \subseteq Playing(p)
        BY <1>1, <2>1, <3>1
    <3> QED
        BY <3>2, FewerPlaying
  <2> QED
    BY <2>2, <2>3
<1>5. ASSUME NEW m \in Match, Playing(q) = {}, Joinable(m, q, d), Join(q, m, d)
      PROVE  SeatedByLateClock(p, m)
  <2>1. /\ match'[m] = Joined(match[m], q, d) /\ \A n \in Match \ {m} : match'[n] = match[n]
    BY <1>0, <1>5 DEF TypeOK, Join
  <2>2. /\ Joined(match[m], q, d).roster = match[m].roster \cup {q}
        /\ Joined(match[m], q, d).status = "drawing"
    BY <1>0 DEF Joined, Row
  <2>3. p # q
    <3>1. ASSUME p = q
          PROVE  Playing(p)' \subseteq {m}
        BY <1>1, <1>5, <2>1, <3>1
    <3> QED
        BY <3>1, OnePlaying
  <2>4. m \in Playing(p)' /\ m \notin Playing(p)
    <3>1. ~(Playing(p)' \subseteq Playing(p))
        BY FewerPlaying
    <3> QED
        BY <1>1, <2>1, <3>1
  <2>5. p \in match[m].roster
    BY <2>1, <2>2, <2>3, <2>4 DEF Playing, InPlay
  <2>6. match[m].status = "open" /\ match[m].age - d < OpenTTL
    BY <1>5 DEF Joinable
  <2>7. ~(match[m].age - 0 < OpenTTL)
    BY <2>4, <2>5, <2>6 DEF Playing, InPlay
  <2>8. match[m].age \in Nat /\ OpenTTL \in Nat /\ MaxDelay \in Nat
    BY <1>0, TimeAssumption DEF Row
  <2>9. match[m].age >= OpenTTL /\ match[m].age < OpenTTL + MaxDelay
    BY <1>0, <2>6, <2>7, <2>8
  <2> QED
    BY <2>1, <2>2, <2>5, <2>6, <2>9 DEF SeatedByLateClock
<1> QED
    BY <1>2, <1>3, <1>4, <1>5 DEF CreateOrJoin, Create

LEMMA PlayingStep ==
    ASSUME AccountInv, AccountInv', [Next]_vars, NEW p \in Player,
           Cardinality(Playing(p)) <= 1, Cardinality(Playing(p)') > 1
    PROVE  \E m \in Match : SeatedByLateClock(p, m)
<1>0. TypeOK /\ RoundInv
    BY DEF AccountInv, RoundInv
<1>1. ASSUME \A m \in Match : match'[m].roster = match[m].roster
      PROVE  FALSE
  <2>1. \A m \in Match : RowStep(match[m], match'[m]) \/ match'[m] = Older(match[m])
    BY <1>0, NextMoves DEF RowsMove, RowStep, Tick, vars
  <2>2. Playing(p)' \subseteq Playing(p)
    <3>1. Playing(p)' \subseteq Match
        BY DEF Playing
    <3> QED
        BY <1>1, <2>1, <3>1, PlayingShrinks
  <2> QED
    BY <2>2, FewerPlaying
<1>2. CASE Tick
  <2>1. \A m \in Match : match'[m].roster = match[m].roster
    BY <1>0, <1>2, TickKeeps
  <2> QED
    BY <1>1, <2>1
<1>3. CASE UNCHANGED match
    BY <1>1, <1>3
<1>4. CASE BillsNothing \/ BillsPass
  <2>1. \A m \in Match : SeatsStay(m) => \A n \in Match : match'[n].roster = match[n].roster
    BY <1>0 DEF SeatsStay, OneRowChanges, TypeOK
  <2> QED
    BY <1>1, <1>4, <2>1 DEF BillsNothing, BillsPass
<1> QED
    BY <1>0, <1>2, <1>3, <1>4, NextBills, PlayingAfterPlay DEF vars

(* Nobody comes to play two matches at once, but for the creator whom a    *)
(* joiner with an older clock seats after the TTL (service.go              *)
(* CreateOrJoin).                                                          *)
THEOREM OneMatchAtATime == Spec => OneMatchInPlay
<1>1. AccountInv /\ AccountInv' /\ [Next]_vars =>
          [\A p \in Player :
              Cardinality(Playing(p)') > 1 /\ Cardinality(Playing(p)) <= 1 =>
                 \E m \in Match : SeatedByLateClock(p, m)]_vars
    BY PlayingStep
<1>2. BooksInv => AccountInv
    BY DEF BooksInv
<1> QED
    BY <1>1, <1>2, BooksAlways, PTL DEF Spec, OneMatchInPlay

-----------------------------------------------------------------------------
(* Two players playing each other again and again, for any integer rating  *)
(* of a new account and any lead to stop at.                               *)
IntegerRatings == ra \in Int /\ rb \in Int /\ ra + rb = 2 * Start

LEMMA RatingsAlways == RivalsSpec => []IntegerRatings
<1>1. RivalsInit => IntegerRatings
    BY StartAssumption DEF RivalsInit, IntegerRatings
<1>2. IntegerRatings /\ [Rematch]_<< ra, rb >> => IntegerRatings'
  <2> SUFFICES ASSUME IntegerRatings, [Rematch]_<< ra, rb >> PROVE IntegerRatings'
    OBVIOUS
  <2>1. ASSUME NEW s \in Score,
               ra' = computeElo(ra, rb, s)[1], rb' = computeElo(ra, rb, s)[2]
        PROVE  IntegerRatings'
    <3>1. ra' + rb' = ra + rb
        BY <2>1, EloKeepsTheSum DEF IntegerRatings
    <3>2. /\ EloGain(ra - rb, s) \in Int
          /\ EloGain(rb - ra, Opposite(s)) \in Int
      <4>1. Opposite(s) \in Score
        BY DEF Opposite, Score
      <4>2. ra - rb \in Int /\ rb - ra \in Int
        BY DEF IntegerRatings
      <4> QED
        BY <4>1, <4>2, GainsMirror, eloKType
    <3> QED
        BY <2>1, <3>1, <3>2 DEF computeElo, IntegerRatings
  <2>2. CASE UNCHANGED << ra, rb >>
    BY <2>2 DEF IntegerRatings
  <2> QED
    BY <2>1, <2>2 DEF Rematch
<1> QED
    BY <1>1, <1>2, PTL DEF RivalsSpec

(* No rating is made or lost in any number of matches (elo.go computeElo). *)
THEOREM LadderKeepsItsSum == RivalsSpec => []EloZeroSum
<1>1. IntegerRatings => EloZeroSum
    BY DEF IntegerRatings, EloZeroSum
<1> QED
    BY <1>1, RatingsAlways, PTL
=============================================================================
