-------------------------------- MODULE MCApi --------------------------------
(* A small instance of ApiProperties for TLC. *)
EXTENDS ApiProperties

CONSTANTS b1, b2, c1, c2, ann, bob

Addresses == b1 :> c1 @@ b2 :> c2
Two       == [l \in Limiter |-> 2]
One       == [l \in Limiter |-> 1]

\* The two people are alike.
People == Permutations({ann, bob})
=============================================================================
