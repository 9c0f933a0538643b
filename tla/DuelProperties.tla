--------------------------- MODULE DuelProperties ---------------------------
(* What the duel guarantees: the invariants, the steps it never takes, and *)
(* what must happen in the end.                                            *)
EXTENDS Duel, Functions

RunningPass ==
    [match : Match, phase : {"fired", "scoring"}, age : 0..PassSecs, ratings : [Player -> Int]]

(* The state has its types; a pass is never older than JudgePassBudget     *)
(* (service.go judgeMatch), whatever the renderer and the judge do.        *)
TypeOK ==
    /\ match \in [Match -> Row]
    /\ rating \in [Player -> Int]
    /\ ledger \in [player : [Player -> Nat], provider : Nat]
    /\ pass \in [Slot -> RunningPass \cup {Idle}]
    /\ sweep \in [Instance -> [phase : Phase, todo : SUBSET Match]]
    /\ draining \in SUBSET Instance
    /\ crashes \in Nat

-----------------------------------------------------------------------------
(* However two submits, the deadline and the sweeper interleave, a round   *)
(* in which both have drawn is not left in drawing, and a match in judging *)
(* has the two drawings the judge needs (service.go Submit).               *)
NoWedgedRound == \A m \in Match :
    /\ match[m].status = "drawing" =>
          Cardinality(match[m].roster) = 2 /\ match[m].submitted # match[m].roster
    /\ match[m].status = "judging" =>
          Cardinality(match[m].roster) = 2 /\ match[m].submitted = match[m].roster

(* A result is the one the round earned: the judge's only when both drew,  *)
(* a forfeit only to the one who did, an abort only after every retry and  *)
(* without a rating, and nothing that anyone drew is thrown away           *)
(* (deadline.go decideExpiry, service.go Cancel, sweeper.go).              *)
ResultFitsRound == \A m \in Match :
    LET row == match[m]
    IN  /\ row.resolution = "judged" =>
              /\ row.submitted = row.roster /\ row.attempts > 0
              /\ row.winner \in row.roster \cup {NoPlayer}
        /\ row.resolution = "forfeit" =>
              row.submitted = {row.winner} /\ row.attempts = 0
        /\ row.resolution = "aborted" =>
              /\ row.attempts = MaxAttempts /\ row.winner = NoPlayer
              /\ row.before = NoRatings /\ row.after = NoRatings
        /\ row.status = "abandoned" => row.submitted = {}

(* A match in judging that no pass can be working on is in exactly one of  *)
(* the two lists of the sweeper, the one that retries or the one that      *)
(* aborts, so none falls between them (matches.sql).                       *)
NoWedgedJudging == \A m \in Match :
    match[m].status = "judging" /\ (match[m].queued \/ Stale(m)) => Stuck(m) # Exhausted(m)

(* No match is judged twice at once, by the instance that took the last    *)
(* submit, by a sweeper, or by two sweepers (sweeper.go judgeStaleSecs,    *)
(* refireJudging).  Rests on StaleMargin.                                  *)
OnePassPerMatch == \A k, l \in Slot :
    Running(k) /\ pass[k].match = pass[l].match => k = l

-----------------------------------------------------------------------------
(* A player's rating is the first one plus what each match says it gave    *)
(* them: no match is rated twice or by half, and no result that lands at   *)
(* the same time is lost (service.go writeFinalResult, persistResult).     *)
LadderAddsUp == \A p \in Player :
    rating[p] = InitRating[p]
                + SumFunction([m \in Match |-> match[m].after[p] - match[m].before[p]])

(* Nothing is billed twice, and nothing for a match that did not happen:   *)
(* the provider pays for each pass that was started and not for a queued   *)
(* match, each player for each round they were seated in when it started   *)
(* and not for one nobody joined (service.go enterJudging, CreateOrJoin;   *)
(* docs/GAME.md 4.3).                                                      *)
BilledExactly ==
    /\ ledger.provider = SumFunction([m \in Match |-> match[m].attempts])
    /\ \A p \in Player :
          ledger.player[p] =
             Cardinality({m \in Match : p \in match[m].roster
                                         /\ Cardinality(match[m].roster) = 2})

-----------------------------------------------------------------------------
(* A settled or abandoned match is never written again, by a late pass, a  *)
(* stale candidate of a sweeper or a late submit (sweeper.go, service.go). *)
SettledForGood ==
    [][\A m \in Match : match[m].status \in Terminal => match'[m] = match[m]]_vars

(* An abort never overtakes a pass that could still bring the verdict      *)
(* (sweeper.go abortJudging).  Rests on StaleMargin.                       *)
NoAbortUnderPass ==
    [][\A m \in Match :
          match'[m].resolution = "aborted" /\ match[m].resolution # "aborted" =>
             \A k \in Slot : pass[k].match # m]_vars

(* A round that has started is not cut short: without both drawings it     *)
(* ends no sooner than its deadline, whoever cancels, reaps or resolves it *)
(* (service.go Cancel, sweeper.go reapOpenMatch, deadline.go).             *)
RoundRunsItsTime ==
    [][\A m \in Match :
          match[m].status = "drawing" /\ match'[m].status \in Terminal =>
             match[m].age >= RoundSecs]_vars

(* Nobody comes to play two matches at once, however they press play       *)
(* (docs/GAME.md 4.1 "A player has one match in play"), with the one       *)
(* exception the code leaves: a joiner whose transaction began before a    *)
(* match passed its TTL, and got the matchmaking lock after it, still      *)
(* seats its creator (service.go CreateOrJoin).  Without a delay there is  *)
(* no exception.                                                           *)
Playing(p) == {m \in Match : InPlay(m, p, 0)}

SeatedByLateClock(p, m) ==
    /\ match[m].status = "open" /\ p \in match[m].roster
    /\ match[m].age >= OpenTTL /\ match[m].age < OpenTTL + MaxDelay
    /\ match'[m].status = "drawing"

OneMatchInPlay ==
    [][\A p \in Player :
          Cardinality(Playing(p)') > 1 /\ Cardinality(Playing(p)) <= 1 =>
             \E m \in Match : SeatedByLateClock(p, m)]_vars

(* The duel keeps the contract of DuelContract.                            *)
Contract ==
    INSTANCE DuelContract WITH
        K <- eloK,
        phase <- [m \in Match |-> IF match[m].status = "open" THEN "waiting"
                                  ELSE match[m].status],
        seats <- [m \in Match |-> match[m].roster],
        ladder <- rating

ContractKept == Contract!Spec

(* Every match anyone opens is settled or abandoned, whatever its players, *)
(* the judge, and a bounded number of crashes do (sweeper.go RunSweeper).  *)
EveryMatchEnds == \A m \in Match :
    match[m].status # "none" ~> match[m].status \in Terminal
=============================================================================
