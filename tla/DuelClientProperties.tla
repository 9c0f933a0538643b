------------------------ MODULE DuelClientProperties ------------------------
(* What the duel's browser tab guarantees over a lossy, late and reordered *)
(* network.                                                                *)
EXTENDS DuelClient

(* The state has its types; an ended round has an end the page can word    *)
(* (duel.ts DuelEnd).                                                      *)
TypeOK ==
    /\ row \in [Match -> Row]
    /\ cookie \in BOOLEAN /\ user \in BOOLEAN
    /\ client \in Client
    /\ requests \in SUBSET Request
    /\ frames \in SUBSET Frame
    /\ faults \in Nat
    /\ client.duel.phase = "ended" => client.duel.end \in DuelEnd

(* "The poll loop: one timer, one request in flight, or neither"           *)
(* (useDuel.ts:42), and the flag is the one request of this round.         *)
OneLoop ==
    LET polls == {r \in requests : IsPoll(r) /\ ~r.stale}
    IN  /\ ~(client.timer /\ client.inFlight)
        /\ Cardinality(polls) = (IF client.inFlight THEN 1 ELSE 0)

(* While a round goes on the loop does, whichever way the last poll, the   *)
(* socket or the submit failed (useDuel.ts tick, pollNow, recoverAuth).    *)
LoopNeverDies ==
    ~Over(client) /\ ~client.signingIn /\ ~client.disposed => client.timer \/ client.inFlight

(* What the page says of the match is true of it: no reply or frame of an  *)
(* earlier round or match reaches this one, and nothing is concluded from  *)
(* a torn or reordered read that the match never was (duel.ts, useDuel.ts  *)
(* generation, docs/NOTES.md "Get reads without a snapshot").              *)
ShowsTheTruth ==
    LET s == client.duel
        m == row[s.match]
    IN  IF s.match = NoMatch THEN s.phase \in {"connecting", "ended"}
        ELSE /\ s.phase = "submitted" => m.mine \/ m.status \notin {"open", "drawing"}
             /\ s.phase = "judging" => m.status \in {"judging", "done"}
             /\ s.phase = "done" => m.status = "done"
             /\ s.end \in {"queue-ended", "nobody-submitted"} => m.status = "abandoned"
             /\ s.end = "nobody-submitted" => m.joined
             /\ s.opponent = "submitted" => m.theirs

-----------------------------------------------------------------------------
PhaseOrder == [p \in DuelPhase |->
    CASE p = "connecting" -> 0 [] p = "waiting" -> 1 [] p = "drawing" -> 2
      [] p = "submitting" -> 3 [] p = "submitted" -> 4 [] p = "judging" -> 5 [] OTHER -> 6]

SameRound == client'.duel # initialDuel

(* Within a round the page only moves on, except for a submit that did not *)
(* arrive: a late snapshot does not reopen the canvas (duel.ts applyMatch).*)
PhaseNeverGoesBack ==
    [][SameRound =>
          \/ PhaseOrder[client'.duel.phase] >= PhaseOrder[client.duel.phase]
          \/ client.duel.phase = "submitting" /\ client'.duel.phase = "drawing"]_vars

(* Once its match is over the tab shows it, frames or not, unless the      *)
(* player has left, is asked to sign in, or is on to another round         *)
(* (docs/API.md 9.5 "still completes a correct round over REST alone").    *)
CatchesUp == \A m \in Match :
    client.duel.match = m /\ row[m].status \in {"done", "abandoned"} ~>
        Over(client) \/ client.signingIn \/ client.disposed \/ client.duel.match # m
=============================================================================
