------------------------------- MODULE MCDuel -------------------------------
(* Small instances of the duel for TLC.                                    *)
EXTENDS Leaderboard, TLC

CONSTANTS p1, p2, p3, m1, m2, i1, i2, i3, s1, s2

(* One slot on each of two instances (any other has its slots taken by     *)
(* matches that are not in the model), and two slots on one.               *)
OneSlotEach == s1 :> i1 @@ s2 :> i2
TwoSlots == s1 :> i1 @@ s2 :> i1

(* The favourite, p1, is far enough ahead for its gains to differ.         *)
Unequal == [p \in Player |-> IF p = p1 THEN 1400 ELSE 1200]

(* Match ids are interchangeable, and so are players of one rating.        *)
AllAlikeButP1 == Permutations(Player \ {p1}) \cup Permutations(Match)
=============================================================================
