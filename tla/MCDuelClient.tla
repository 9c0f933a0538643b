---------------------------- MODULE MCDuelClient ----------------------------
(* Instances of DuelClient for TLC. *)
EXTENDS DuelClientProperties, TLC

Alike == Permutations(Match)
=============================================================================
