---------------------------- MODULE DuelContract ----------------------------
(***************************************************************************)
(* What a duel promises its players, with no clock, queue, slot or sweep:  *)
(* docs/GAME.md sections 3 and 8.  A match takes two players, is settled   *)
(* or called off once, and the ladder moves only when a match is settled,  *)
(* by as much for one seat as against the other and by no more than K.     *)
(***************************************************************************)
EXTENDS Integers, FiniteSets

CONSTANTS Player, Match, InitRating, K

VARIABLES
    phase,   \* where each match is
    seats,   \* who plays it
    ladder   \* the rating of each player

cvars == << phase, seats, ladder >>

Init ==
    /\ phase = [m \in Match |-> "none"]
    /\ seats = [m \in Match |-> {}]
    /\ ladder = InitRating

Move(m, from, to) ==
    /\ phase[m] = from
    /\ phase' = [phase EXCEPT ![m] = to]

Open(m, p) ==
    /\ Move(m, "none", "waiting")
    /\ seats' = [seats EXCEPT ![m] = {p}]
    /\ UNCHANGED ladder

Pair(m, p) ==
    /\ p \notin seats[m]
    /\ Move(m, "waiting", "drawing")
    /\ seats' = [seats EXCEPT ![m] = @ \cup {p}]
    /\ UNCHANGED ladder

Collect(m) ==
    /\ Move(m, "drawing", "judging")
    /\ UNCHANGED << seats, ladder >>

(* A forfeit or a verdict. *)
Settle(m) ==
    /\ Move(m, "drawing", "done") \/ Move(m, "judging", "done")
    /\ \E p, q \in seats[m], x \in -K..K :
          /\ p # q
          /\ ladder' = [ladder EXCEPT ![p] = @ + x, ![q] = @ - x]
    /\ UNCHANGED seats

(* Judging that never answered. *)
GiveUp(m) ==
    /\ Move(m, "judging", "done")
    /\ UNCHANGED << seats, ladder >>

CallOff(m) ==
    /\ Move(m, "waiting", "abandoned") \/ Move(m, "drawing", "abandoned")
    /\ UNCHANGED << seats, ladder >>

Next == \E m \in Match :
    \/ \E p \in Player : Open(m, p) \/ Pair(m, p)
    \/ Collect(m) \/ Settle(m) \/ GiveUp(m) \/ CallOff(m)

Spec == Init /\ [][Next]_cvars
=============================================================================
