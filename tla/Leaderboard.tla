---------------------------- MODULE Leaderboard ----------------------------
(***************************************************************************)
(* The leaderboard: a query over the ladder and the finished matches, read *)
(* while matches are settled.                                              *)
(***************************************************************************)
EXTENDS DuelProperties

Counted(p) == {m \in Match : /\ p \in match[m].roster
                             /\ match[m].status = "done" /\ match[m].resolution # "aborted"}

Wins(p) == {m \in Counted(p) : match[m].winner = p}

\* Mutant: a tie is no win, so it counts as a loss.
Losses_Ties(p) == {m \in Counted(p) : match[m].winner # p}

Losses(p) == {m \in Counted(p) : match[m].winner \notin {NoPlayer, p}}

Ranked == {p \in Player : Counted(p) # {}}

\* Everyone whose rating moved is ranked, and every win on the board is another's loss
\* on it: the record and the ladder tell of the same matches.
BoardFitsLadder ==
    /\ \A p \in Player : rating[p] # InitRating[p] => p \in Ranked
    /\ UNION {Wins(p) : p \in Player} = UNION {Losses(p) : p \in Player}
=============================================================================
