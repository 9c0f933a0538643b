-------------------------------- MODULE MCElo --------------------------------
(* Two players of the ladder playing each other again and again.           *)
EXTENDS Elo

CONSTANTS Start, Spread   \* the rating of a new account; the lead a run stops at

ASSUME StartAssumption == Start \in Int

VARIABLES ra, rb

RivalsInit == ra = Start /\ rb = Start

Rematch == \E s \in Score :
    LET after == computeElo(ra, rb, s)
    IN  /\ after[1] - after[2] \in -Spread..Spread
        /\ ra' = after[1] /\ rb' = after[2]

RivalsSpec == RivalsInit /\ [][Rematch]_<< ra, rb >>

(* A match moves rating from one player to the other and makes none, ties  *)
(* and roundings included (elo.go computeElo "Zero-sum").                  *)
EloZeroSum == ra + rb = 2 * Start

(* The points of a win are the rounding of 32 * (1 - E): k points are due  *)
(* when (2k - 1) 10^(d/400) <= 65 - 2k.  Squared, this can be computed in  *)
(* integers where d is a multiple of 200 (elo.go expectedScore).           *)
Due(k, d) ==
    LET left == 2 * k - 1
        right == 65 - 2 * k
    IN  IF d >= 0 THEN left * left * 10 ^ (d \div 200) <= right * right
                  ELSE left * left <= right * right * 10 ^ ((-d) \div 200)

WinFollowsFormula ==
    LET d == ra - rb
    IN  d % 200 = 0 => WinGain(d) = Cardinality({k \in 1..eloK : Due(k, d)})
=============================================================================
