-------------------------------- MODULE Elo --------------------------------
(***************************************************************************)
(* The rating arithmetic of server/internal/game/elo.go, in integers.      *)
(*                                                                         *)
(* computeElo rounds ra + 32 * (S - E) with E = 1 / (1 + 10^((rb-ra)/400)). *)
(* Ratings are integers, so a win is worth the rounded 32 * (1 - E), a     *)
(* step function of the difference d = ra - rb: it is at least k exactly   *)
(* when 10^(d/400) <= (65 - 2k) / (2k - 1).  WinBand[k] is the largest     *)
(* integer d of which that holds; no integer d falls on a step, so the     *)
(* rounding of halves never matters.                                       *)
(***************************************************************************)
EXTENDS Integers, FiniteSets

eloK == 32

(* What a result is to one player: scoreWin, scoreLoss, scoreTie. *)
Score == {"win", "loss", "tie"}

(* The opponent's score, the code's 1 - sa. *)
Opposite(s) == CASE s = "win" -> "loss" [] s = "loss" -> "win" [] s = "tie" -> "tie"

WinBand ==
    << 719, 523, 428, 364, 314, 273, 237, 205, 176, 149, 124, 100, 77, 54, 32, 10,
       -11, -33, -55, -78, -101, -125, -150, -177, -206, -238, -274, -315, -365,
       -429, -524, -720 >>

(* The logistic with 200 in place of 400. *)
WinGain_Steep(d) == Cardinality({k \in 1..eloK : 2 * d <= WinBand[k]})

(* Points a win is worth to a player rated d above the opponent. *)
WinGain(d) == Cardinality({k \in 1..eloK : d <= WinBand[k]})

(* A tie that gives both players the rounding of a quarter of K.           *)
EloGain_TieAsWin(d, s) ==
    CASE s = "win"  -> WinGain(d)
      [] s = "loss" -> -WinGain(-d)
      [] s = "tie"  -> WinGain(d) - eloK \div 4

(* The rounded K * (S - E) of a player rated d above the opponent.         *)
EloGain(d, s) ==
    CASE s = "win"  -> WinGain(d)
      [] s = "loss" -> -WinGain(-d)
      [] s = "tie"  -> WinGain(d) - eloK \div 2

(* The two ratings after a match: each side rounded on its own.            *)
computeElo(ra, rb, s) ==
    << ra + EloGain(ra - rb, s), rb + EloGain(rb - ra, Opposite(s)) >>
=============================================================================
