-------------------------- MODULE DuelClientProofs --------------------------
(***************************************************************************)
(* Proofs about the browser tab of a duel, for any matches of its player   *)
(* and any number of faults, frames and requests: its poll loop is one and *)
(* does not die, and what the page shows is true of the match.             *)
(***************************************************************************)
EXTENDS DuelClientProperties, FiniteSetTheorems, TLAPS

-----------------------------------------------------------------------------
(* A match.  Whatever its row says, it goes on saying.                     *)

RowFits(w) ==
    /\ w.status \in {"none", "open"} => ~w.joined
    /\ w.status \in {"drawing", "judging", "done"} => w.joined
    /\ ~w.joined => ~w.mine /\ ~w.theirs
    /\ w.status = "drawing" => ~(w.mine /\ w.theirs)
    /\ w.status = "judging" => w.mine /\ w.theirs
    /\ w.status = "abandoned" => ~w.mine /\ ~w.theirs

Settled(w) == w.status \in {"judging", "done"} /\ w.theirs

Grows(w, v) ==
    /\ w.joined => v.joined
    /\ w.mine => v.mine
    /\ w.theirs => v.theirs
    /\ w.status # "none" => v.status # "none"
    /\ w.status = "done" => v.status = "done"
    /\ w.status = "abandoned" => v.status = "abandoned"
    /\ w.status \in {"judging", "done"} => v.status \in {"judging", "done"}
    /\ w.status \notin {"none", "open", "drawing"} =>
          v.status \notin {"none", "open", "drawing"}

RowsGrow == \A m \in Match : Grows(row[m], row'[m])

-----------------------------------------------------------------------------
(* What an event says of the match w it is about.                          *)

ViewTrue(view, w) ==
    /\ view.status # "none" /\ w.status # "none"
    /\ view.deadline => w.joined
    /\ view.joined => w.joined
    /\ view.mine => w.mine
    /\ view.theirs => w.theirs
    /\ view.status = "drawing" => w.joined
    /\ view.status = "judging" => Settled(w)
    /\ view.status = "done" => w.status = "done"
    /\ view.status = "abandoned" => w.status = "abandoned"

Refusable(w) == w.mine \/ w.status \notin {"none", "open", "drawing"}

SaysTrue(e, w) ==
    /\ e.type = "match" => ViewTrue(e.view, w)
    /\ e.type = "result" => w.status = "done"
    /\ e.type = "pending" =>
          /\ e.view.status = "judging" => Settled(w)
          /\ e.view.status = "abandoned" => w.status = "abandoned"
    /\ e.type = "i-submitted" => w.mine
    /\ e.type = "player-submitted" => w.theirs
    /\ e.type = "judging" => Settled(w)
    /\ e.type = "abandoned" => w.status = "abandoned"
    /\ e.type = "submit-ok" => w.mine /\ (e.view.status = "judging" => Settled(w))
    /\ e.type = "submit-conflict" => Refusable(w)

(* What a poll, a submit or the hub can bring. *)
FrameTypes == {"match", "i-submitted", "player-submitted", "judging", "result", "abandoned"}

AnswerTypes(kind) == CASE kind \in {"create", "get"} -> {"match"}
                       [] kind = "result" -> {"result", "pending"}
                       [] kind = "submit" -> {"submit-ok"}
                       [] OTHER -> {}

(* What the page shows, of the matches rs. *)
DuelFits(s, rs) ==
    /\ s \in DuelState
    /\ IF s.phase = "ended" THEN s.end \in DuelEnd ELSE s.end = "none"
    /\ s.match = NoMatch =>
          /\ s.phase \in {"connecting", "ended"} /\ s.status = "none"
          /\ ~s.started /\ s.opponent = "empty"
          /\ s.end \notin {"queue-ended", "nobody-submitted"}
    /\ s.match # NoMatch =>
          LET w == rs[s.match]
          IN  /\ w.status # "none"
              /\ s.started => w.joined
              /\ s.opponent = "submitted" => w.theirs
              /\ s.status = "judging" => Settled(w)
              /\ s.phase \in {"drawing", "submitting"} => w.joined
              /\ s.phase = "submitted" => Refusable(w)
              /\ s.phase = "judging" => w.status \in {"judging", "done"}
              /\ s.phase = "done" => w.status = "done"
              /\ s.end \in {"queue-ended", "nobody-submitted"} => w.status = "abandoned"
              /\ s.end = "nobody-submitted" => w.joined

TabFits(c, rs) ==
    /\ c \in Client
    /\ DuelFits(c.duel, rs)
    /\ c.socket # "closed" => c.duel.match # NoMatch
    /\ ~(c.timer /\ c.inFlight)

RequestFits(r, rs) ==
    /\ r \in Request
    /\ r.kind # "create" => r.match \in Match /\ rs[r.match].status # "none"
    /\ r.kind = "create" => r.match = NoMatch
    /\ r.kind = "submit" => rs[r.match].joined
    /\ r.at = "reading" => ~IsFailure(r) /\ r.kind \in {"create", "get"}
    /\ r.at # "sent" /\ ~IsFailure(r) =>
          /\ r.answer \in Event
          /\ r.answer.type \in AnswerTypes(r.kind)
          /\ r.answer.type = "match" => r.answer.match \in Match
          /\ r.kind = "get" => r.answer.match = r.match
          /\ SaysTrue(r.answer, rs[IF r.answer.type = "match" THEN r.answer.match ELSE r.match])
    /\ r.at # "sent" /\ IsFailure(r) =>
          /\ r.answer \in [failure : Failure]
          /\ r.answer.failure = "conflict" => r.kind = "submit" /\ Refusable(rs[r.match])
    /\ r.at = "sent" => r.answer = News("offline")
    /\ r.kind = "beacon" => r.at = "sent"

FrameFits(f, m, rs) ==
    /\ f \in Frame
    /\ f.event.type \in FrameTypes
    /\ f.event.type = "match" => f.event.match = m
    /\ f.at = "reading" => f.event.type = "match"
    /\ SaysTrue(f.event, rs[m])

Polls(rqs) == {r \in rqs : IsPoll(r) /\ ~r.stale}

LoopFits(c, rqs) ==
    /\ c.inFlight => \E r \in rqs : Polls(rqs) = {r}
    /\ ~c.inFlight => Polls(rqs) = {}
    /\ ~Over(c) /\ ~c.signingIn /\ ~c.disposed => c.timer \/ c.inFlight

(* A reply that is still waited for is about the match the page shows. *)
Awaited(rqs, m) == \A r \in rqs : ~r.stale /\ (IsPoll(r) \/ r.kind = "submit") => r.match = m

(* The invariant.  The page, each request and each frame are true of the   *)
(* rows; the loop is the one live poll under way, its timer, or its end;   *)
(* and nothing that is still waited for is about another match.            *)
TabInv ==
    /\ row \in [Match -> Row] /\ \A m \in Match : RowFits(row[m])
    /\ cookie \in BOOLEAN /\ user \in BOOLEAN /\ faults \in Nat
    /\ TabFits(client, row)
    /\ \A r \in requests : RequestFits(r, row)
    /\ Awaited(requests, client.duel.match)
    /\ LoopFits(client, requests)
    /\ frames # {} => client.socket # "closed"
    /\ \A f \in frames : FrameFits(f, client.duel.match, row)

-----------------------------------------------------------------------------
(* The reducer keeps the page true, and in the right match.                *)

NewsFits(e, s, rs) ==
    /\ e \in Event /\ e.type # "start"
    /\ e.type = "end" => e.end \in {"left", "auth", "budget"}
    /\ e.type = "match" => e.match \in Match /\ s.match \in {NoMatch, e.match}
                           /\ ViewTrue(e.view, rs[e.match])
    /\ e.type \notin {"match", "end", "offline"} =>
          s.match # NoMatch /\ SaysTrue(e, rs[s.match])

LEMMA FurthestType ==
    ASSUME NEW a \in MatchStatus \cup {"none"}, NEW b \in MatchStatus \cup {"none"}
    PROVE  furthest(a, b) \in {a, b}
BY DEF furthest

LEMMA FirstSnapshot ==
    ASSUME NEW a, NEW b \in MatchStatus \cup {"none"}, a = "none"
    PROVE  furthest(a, b) = b
BY DEF furthest, StatusOrder, MatchStatus

(* What a snapshot leaves of s before the phase is decided. *)
SnapshotTaken(s, m, view) ==
    [s EXCEPT !.match = m, !.status = furthest(@, view.status),
              !.started = @ \/ view.deadline, !.opponent = SeatSeen(@, view)]

LEMMA SnapshotFits ==
    ASSUME NEW rs, NEW s, DuelFits(s, rs), ~isTerminal(s.phase), NEW m \in Match,
           s.match \in {NoMatch, m}, NEW view \in View, ViewTrue(view, rs[m])
    PROVE  LET t == SnapshotTaken(s, m, view)
               w == rs[m]
           IN  /\ t \in DuelState /\ t.match = m /\ t.phase = s.phase /\ t.end = s.end
               /\ t.started => w.joined
               /\ t.opponent = "submitted" => w.theirs
               /\ t.status = "judging" => Settled(w)
<1> DEFINE t == SnapshotTaken(s, m, view)
           w == rs[m]
<1>1. s \in DuelState /\ m # NoMatch
    BY MatchAssumption DEF DuelFits
<1>2. furthest(s.status, view.status) \in {s.status, view.status}
    BY <1>1, FurthestType DEF DuelState, View
<1>3. SeatSeen(s.opponent, view) \in Seat
    BY <1>1 DEF SeatSeen, Seat, DuelState
<1>4. /\ t.match = m /\ t.phase = s.phase /\ t.end = s.end
      /\ t.status = furthest(s.status, view.status)
      /\ t.started = (s.started \/ view.deadline)
      /\ t.opponent = SeatSeen(s.opponent, view)
    BY <1>1 DEF SnapshotTaken, DuelState
<1>5. t \in DuelState
    BY <1>1, <1>2, <1>3 DEF SnapshotTaken, DuelState, View
<1>6. t.started => w.joined
    BY <1>1, <1>4 DEF DuelFits, ViewTrue
<1>7. t.opponent = "submitted" => w.theirs
    BY <1>1, <1>4 DEF DuelFits, ViewTrue, SeatSeen
<1>8. t.status = "judging" => Settled(w)
    BY <1>1, <1>2, <1>4 DEF DuelFits, ViewTrue
<1> QED
    BY <1>4, <1>5, <1>6, <1>7, <1>8

LEMMA AbandonFits ==
    ASSUME NEW rs, NEW s \in DuelState, s.match \in Match, rs[s.match].status = "abandoned",
           s.started => rs[s.match].joined, s.opponent = "submitted" => rs[s.match].theirs
    PROVE  DuelFits(abandon(s), rs) /\ abandon(s).match = s.match
<1>1. /\ abandon(s).match = s.match /\ abandon(s).phase = "ended"
      /\ abandon(s).status = "abandoned" /\ abandon(s).started = s.started
      /\ abandon(s).opponent = s.opponent
      /\ abandon(s).end = IF s.started THEN "nobody-submitted" ELSE "queue-ended"
    BY DEF abandon, DuelState
<1>2. abandon(s) \in DuelState
    BY DEF abandon, DuelState, DuelPhase, DuelEnd, MatchStatus
<1>3. s.match # NoMatch
    BY MatchAssumption
<1> QED
    BY <1>1, <1>2, <1>3 DEF DuelFits, DuelEnd

LEMMA JudgingFits ==
    ASSUME NEW rs, NEW s \in DuelState, s.match \in Match, Settled(rs[s.match]),
           ~isTerminal(s.phase), s.end = "none",
           s.started => rs[s.match].joined, NEW status \in {s.status, "judging"}
    PROVE  LET t == [toJudging(s) EXCEPT !.status = status]
           IN  DuelFits(t, rs) /\ t.match = s.match
<1> DEFINE t == [toJudging(s) EXCEPT !.status = status]
<1>1. /\ t.match = s.match /\ t.phase = "judging" /\ t.status = status
      /\ t.started = s.started /\ t.end = s.end
      /\ t.opponent \in {"empty", "submitted"}
    BY DEF toJudging, withOpponentSubmitted, DuelState
<1>2. t \in DuelState
    BY DEF toJudging, withOpponentSubmitted, DuelState, DuelPhase, Seat, MatchStatus
<1>3. s.match # NoMatch
    BY MatchAssumption
<1> QED
    BY <1>1, <1>2, <1>3 DEF DuelFits, Settled

LEMMA JudgingKeepsStatus ==
    ASSUME NEW s \in DuelState
    PROVE  toJudging(s) = [toJudging(s) EXCEPT !.status = s.status]
BY DEF toJudging, withOpponentSubmitted, DuelState

LEMMA applyMatchFits ==
    ASSUME NEW rs, NEW s, DuelFits(s, rs), ~isTerminal(s.phase), NEW m \in Match,
           s.match \in {NoMatch, m}, NEW view \in View, ViewTrue(view, rs[m])
    PROVE  DuelFits(applyMatch(s, m, view), rs) /\ applyMatch(s, m, view).match = m
<1> DEFINE t == SnapshotTaken(s, m, view)
           w == rs[m]
<1>1. /\ t \in DuelState /\ t.match = m /\ t.phase = s.phase /\ t.end = s.end
      /\ t.started => w.joined
      /\ t.opponent = "submitted" => w.theirs
      /\ t.status = "judging" => Settled(w)
    BY SnapshotFits
<1>2. /\ s \in DuelState /\ ~(s.match # NoMatch /\ s.match # m) /\ m # NoMatch
      /\ w.status # "none" /\ s.phase # "done" /\ s.phase # "ended" /\ s.end = "none"
    BY MatchAssumption DEF DuelFits, ViewTrue, isTerminal
<1>3. /\ s.phase \in {"drawing", "submitting"} => w.joined
      /\ s.phase = "submitted" => Refusable(w)
      /\ s.phase = "judging" => w.status \in {"judging", "done"}
    BY <1>2 DEF DuelFits
<1>4. ASSUME NEW phase \in DuelPhase \ {"done", "ended"},
             phase \in {"drawing", "submitting"} => w.joined,
             phase = "submitted" => Refusable(w),
             phase = "judging" => w.status \in {"judging", "done"}
      PROVE  /\ DuelFits([t EXCEPT !.phase = phase], rs)
             /\ [t EXCEPT !.phase = phase].match = m
  <2> DEFINE u == [t EXCEPT !.phase = phase]
  <2> HIDE DEF t
  <2>1. /\ u.match = m /\ u.phase = phase /\ u.end = t.end /\ u.status = t.status
        /\ u.started = t.started /\ u.opponent = t.opponent /\ u \in DuelState
    BY <1>1 DEF DuelState
  <2> HIDE DEF u
  <2>2. u.end = "none" /\ u.phase # "ended" /\ u.phase # "done" /\ rs[u.match] = w
    BY <1>1, <1>2, <1>4, <2>1
  <2>3. /\ rs[u.match].status # "none"
        /\ u.started => rs[u.match].joined
        /\ u.opponent = "submitted" => rs[u.match].theirs
        /\ u.status = "judging" => Settled(rs[u.match])
        /\ u.phase \in {"drawing", "submitting"} => rs[u.match].joined
        /\ u.phase = "submitted" => Refusable(rs[u.match])
        /\ u.phase = "judging" => rs[u.match].status \in {"judging", "done"}
    BY <1>1, <1>2, <1>4, <2>1, <2>2
  <2>4. u.match # NoMatch
    BY <1>2, <2>1
  <2>5. DuelFits(u, rs)
    BY <2>1, <2>2, <2>3, <2>4 DEF DuelFits
  <2> QED
    BY <2>1, <2>5 DEF u
<1>5. s.phase \in DuelPhase \ {"done", "ended"} /\ [t EXCEPT !.phase = s.phase] = t
    BY <1>1, <1>2 DEF DuelState
<1>6. CASE view.status = "open"
  <2>1. applyMatch(s, m, view) =
            [t EXCEPT !.phase = IF @ \in BeforeRound THEN "waiting" ELSE @]
    BY <1>2, <1>6 DEF applyMatch, SnapshotTaken
  <2>2. "waiting" \in DuelPhase \ {"done", "ended"}
    BY DEF DuelPhase
  <2> QED
    BY <1>1, <1>3, <1>4, <1>5, <2>1, <2>2
<1>7. CASE view.status = "drawing" /\ ~view.mine
  <2>1. applyMatch(s, m, view) =
            [t EXCEPT !.phase = IF @ \in BeforeRound THEN "drawing" ELSE @]
    BY <1>2, <1>7 DEF applyMatch, SnapshotTaken
  <2>2. "drawing" \in DuelPhase \ {"done", "ended"} /\ w.joined
    BY <1>7 DEF DuelPhase, ViewTrue
  <2> QED
    BY <1>1, <1>3, <1>4, <1>5, <2>1, <2>2
<1>8. CASE view.status = "drawing" /\ view.mine
  <2>1. applyMatch(s, m, view) =
            [t EXCEPT !.phase = IF @ = "judging" THEN @ ELSE "submitted"]
    BY <1>2, <1>8 DEF applyMatch, SnapshotTaken
  <2>2. "submitted" \in DuelPhase \ {"done", "ended"} /\ Refusable(w)
    BY <1>8 DEF DuelPhase, ViewTrue, Refusable
  <2> QED
    BY <1>1, <1>3, <1>4, <1>5, <2>1, <2>2
<1>9. CASE view.status = "judging"
  <2>1. applyMatch(s, m, view) = toJudging(t)
    BY <1>2, <1>9 DEF applyMatch, SnapshotTaken
  <2>2. Settled(w)
    BY <1>9 DEF ViewTrue
  <2>3. ~isTerminal(t.phase) /\ t.end = "none" /\ t.match \in Match
    BY <1>1, <1>2
  <2> HIDE DEF t
  <2>4. /\ DuelFits([toJudging(t) EXCEPT !.status = t.status], rs)
        /\ [toJudging(t) EXCEPT !.status = t.status].match = t.match
    BY <1>1, <2>2, <2>3, JudgingFits
  <2>5. toJudging(t) = [toJudging(t) EXCEPT !.status = t.status]
    BY <1>1, JudgingKeepsStatus
  <2> QED
    BY <1>1, <2>1, <2>4, <2>5
<1>10. CASE view.status = "done"
  <2>1. applyMatch(s, m, view) = t
    BY <1>2, <1>10 DEF applyMatch, SnapshotTaken
  <2> QED
    BY <1>1, <1>3, <1>4, <1>5, <2>1
<1>11. CASE view.status = "abandoned"
  <2>1. applyMatch(s, m, view) = abandon(t)
    BY <1>2, <1>11 DEF applyMatch, SnapshotTaken
  <2>2. w.status = "abandoned"
    BY <1>11 DEF ViewTrue
  <2> HIDE DEF t
  <2> QED
    BY <1>1, <2>1, <2>2, AbandonFits
<1>12. view.status \in MatchStatus
    BY DEF View, ViewTrue
<1>13. \/ view.status = "open" \/ view.status = "drawing" \/ view.status = "judging"
       \/ view.status = "done" \/ view.status = "abandoned"
    BY <1>12 DEF MatchStatus
<1> HIDE DEF t, w
<1> QED
    BY <1>6, <1>7, <1>8, <1>9, <1>10, <1>11, <1>13

(* A change of the phase and of the status alone. *)
Rephased(s, status, phase) == [s EXCEPT !.status = status, !.phase = phase]

LEMMA RephaseFits ==
    ASSUME NEW rs, NEW s, DuelFits(s, rs), ~isTerminal(s.phase), s.match # NoMatch,
           NEW status \in MatchStatus \cup {"none"},
           status = "judging" => Settled(rs[s.match]),
           NEW phase \in DuelPhase \ {"done", "ended"},
           phase \in {"drawing", "submitting"} => rs[s.match].joined,
           phase = "submitted" => Refusable(rs[s.match]),
           phase = "judging" => rs[s.match].status \in {"judging", "done"}
    PROVE  /\ DuelFits(Rephased(s, status, phase), rs)
           /\ Rephased(s, status, phase).match = s.match
<1> DEFINE u == Rephased(s, status, phase)
           w == rs[s.match]
<1>1. s \in DuelState /\ s.end = "none"
    BY DEF DuelFits, isTerminal
<1>2. /\ u \in DuelState /\ u.match = s.match /\ u.phase = phase /\ u.end = "none"
      /\ u.status = status /\ u.started = s.started /\ u.opponent = s.opponent
    BY <1>1 DEF DuelState, Rephased
<1>3. /\ w.status # "none" /\ (s.started => w.joined)
      /\ s.opponent = "submitted" => w.theirs
    BY DEF DuelFits
<1> HIDE DEF u
<1>4. DuelFits(u, rs)
    BY <1>2, <1>3 DEF DuelFits
<1> QED
    BY <1>2, <1>4 DEF u

LEMMA SeatFits ==
    ASSUME NEW rs, NEW s, DuelFits(s, rs), s.match # NoMatch, rs[s.match].theirs
    PROVE  DuelFits(withOpponentSubmitted(s), rs)
           /\ withOpponentSubmitted(s).match = s.match
<1> DEFINE u == withOpponentSubmitted(s)
<1>1. s \in DuelState
    BY DEF DuelFits
<1>2. /\ u \in DuelState /\ u.match = s.match /\ u.phase = s.phase /\ u.end = s.end
      /\ u.status = s.status /\ u.started = s.started
    BY <1>1 DEF DuelState, Seat, withOpponentSubmitted
<1> HIDE DEF u
<1>3. DuelFits(u, rs)
    BY <1>2 DEF DuelFits
<1> QED
    BY <1>2, <1>3 DEF u

(* What an event leaves of the page is true, and of the same match but for *)
(* a first snapshot.                                                       *)
LEMMA reduceDuelFits ==
    ASSUME NEW rs, NEW s, DuelFits(s, rs), NEW e, NewsFits(e, s, rs),
           s.match # NoMatch => RowFits(rs[s.match])
    PROVE  /\ DuelFits(reduceDuel(s, e), rs)
           /\ reduceDuel(s, e).match = (IF e.type = "match" /\ ~isTerminal(s.phase)
                                        THEN e.match ELSE s.match)
<1> DEFINE t == reduceDuel(s, e)
           w == rs[s.match]
           noted == IF e.type = "match" /\ ~isTerminal(s.phase) THEN e.match ELSE s.match
<1>1. s \in DuelState /\ e \in Event /\ e.type # "start"
    BY DEF DuelFits, NewsFits
<1>2. CASE isTerminal(s.phase)
  <2>1. t = s
    BY <1>1, <1>2 DEF reduceDuel
  <2> QED
    BY <1>2, <2>1
<1>3. CASE ~isTerminal(s.phase) /\ e.type = "match"
  <2>1. t = applyMatch(s, e.match, e.view)
    BY <1>1, <1>3 DEF reduceDuel
  <2>2. e.match \in Match /\ s.match \in {NoMatch, e.match} /\ e.view \in View
        /\ ViewTrue(e.view, rs[e.match])
    BY <1>1, <1>3 DEF NewsFits, Event
  <2> QED
    BY <1>3, <2>1, <2>2, applyMatchFits
<1>4. CASE ~isTerminal(s.phase) /\ e.type = "end"
  <2>1. t = [s EXCEPT !.phase = "ended", !.end = e.end] /\ e.end \in {"left", "auth", "budget"}
    BY <1>1, <1>4 DEF reduceDuel, NewsFits
  <2>2. /\ t \in DuelState /\ t.match = s.match /\ t.phase = "ended" /\ t.end = e.end
        /\ t.status = s.status /\ t.started = s.started /\ t.opponent = s.opponent
    BY <1>1, <2>1 DEF DuelState, DuelPhase, DuelEnd
  <2> HIDE DEF t
  <2>3. DuelFits(t, rs)
    BY <2>1, <2>2 DEF DuelFits, DuelEnd
  <2> QED
    BY <1>4, <2>2, <2>3 DEF t
<1>5. CASE ~isTerminal(s.phase) /\ e.type = "offline"
  <2>1. t = s
    BY <1>1, <1>5 DEF reduceDuel
  <2> QED
    BY <1>5, <2>1
<1>6. CASE ~isTerminal(s.phase) /\ e.type \notin {"match", "end", "offline"}
  <2>1. /\ s.match \in Match /\ s.match # NoMatch /\ SaysTrue(e, w) /\ RowFits(w)
        /\ s.end = "none" /\ noted = s.match
    BY <1>1, <1>6 DEF NewsFits, DuelFits, DuelState, isTerminal
  <2>2. /\ w.status # "none" /\ (s.started => w.joined)
        /\ s.opponent = "submitted" => w.theirs
        /\ s.status = "judging" => Settled(w)
        /\ s.phase \in {"drawing", "submitting"} => w.joined
        /\ s.phase = "submitted" => Refusable(w)
        /\ s.phase = "judging" => w.status \in {"judging", "done"}
    BY <2>1 DEF DuelFits
  <2>3. s.phase \in DuelPhase \ {"done", "ended"} /\ s.status \in MatchStatus \cup {"none"}
    BY <1>1, <1>6 DEF DuelState, isTerminal
  <2>4. s = [s EXCEPT !.phase = s.phase] /\ s = [s EXCEPT !.status = s.status]
    BY <1>1 DEF DuelState
  <2>5. CASE e.type = "result"
    <3>1. t = [s EXCEPT !.phase = "done", !.status = "done", !.started = TRUE]
      BY <1>6, <2>5 DEF reduceDuel
    <3>2. w.status = "done" /\ w.joined
      BY <2>1, <2>5 DEF SaysTrue, RowFits
    <3>3. /\ t \in DuelState /\ t.match = s.match /\ t.phase = "done" /\ t.end = s.end
          /\ t.status = "done" /\ t.started /\ t.opponent = s.opponent
      BY <1>1, <3>1 DEF DuelState, DuelPhase, MatchStatus
    <3> HIDE DEF t
    <3>4. DuelFits(t, rs)
      BY <2>1, <2>2, <3>2, <3>3 DEF DuelFits
    <3> QED
      BY <2>1, <3>3, <3>4 DEF t
  <2>6. CASE e.type = "pending" /\ e.view.status = "abandoned"
    <3>1. t = abandon(s) /\ w.status = "abandoned"
      BY <1>6, <2>1, <2>6 DEF reduceDuel, applyPending, SaysTrue
    <3> QED
      BY <1>1, <2>1, <2>2, <3>1, AbandonFits
  <2>7. CASE e.type = "pending" /\ e.view.status = "judging"
    <3>1. t = [toJudging(s) EXCEPT !.status = "judging"] /\ Settled(w)
      BY <1>6, <2>1, <2>7 DEF reduceDuel, applyPending, SaysTrue
    <3> QED
      BY <1>1, <1>6, <2>1, <2>2, <3>1, JudgingFits
  <2>8. CASE e.type = "pending" /\ e.view.status \notin {"abandoned", "judging"}
    <3> DEFINE status == furthest(s.status, e.view.status)
    <3>1. t = [s EXCEPT !.status = status]
      BY <1>6, <2>8 DEF reduceDuel, applyPending
    <3>2. status \in {s.status, e.view.status} /\ e.view.status \in MatchStatus \cup {"none"}
      BY <1>1, <2>3, FurthestType DEF Event, View
    <3>3. t = Rephased(s, status, s.phase)
      BY <1>1, <3>1 DEF DuelState, Rephased
    <3> HIDE DEF status
    <3>4. status \in MatchStatus \cup {"none"} /\ (status = "judging" => Settled(w))
      BY <2>2, <2>3, <2>8, <3>2
    <3>5. DuelFits(Rephased(s, status, s.phase), rs)
          /\ Rephased(s, status, s.phase).match = s.match
      BY <1>6, <2>1, <2>2, <2>3, <3>3, <3>4, RephaseFits
    <3> QED
      BY <1>6, <2>1, <3>3, <3>5
  <2>9. CASE e.type = "player-submitted"
    <3>1. t = withOpponentSubmitted(s) /\ w.theirs
      BY <1>6, <2>1, <2>9 DEF reduceDuel, SaysTrue
    <3> QED
      BY <2>1, <3>1, SeatFits
  <2>10. CASE e.type = "judging"
    <3>1. t = [toJudging(s) EXCEPT !.status = "judging"] /\ Settled(w)
      BY <1>6, <2>1, <2>10 DEF reduceDuel, SaysTrue
    <3> QED
      BY <1>1, <1>6, <2>1, <2>2, <3>1, JudgingFits
  <2>11. CASE e.type = "abandoned"
    <3>1. t = abandon(s) /\ w.status = "abandoned"
      BY <1>6, <2>1, <2>11 DEF reduceDuel, SaysTrue
    <3> QED
      BY <1>1, <2>1, <2>2, <3>1, AbandonFits
  <2>12. CASE e.type \in {"i-submitted", "submit", "submit-conflict", "submit-failed"}
    <3>1. PICK phase \in DuelPhase \ {"done", "ended"} :
             /\ t = Rephased(s, s.status, phase)
             /\ phase \in {"drawing", "submitting"} => w.joined
             /\ phase = "submitted" => Refusable(w)
             /\ phase = "judging" => w.status \in {"judging", "done"}
      <4>1. CASE t = s
        <5>1. t = Rephased(s, s.status, s.phase)
          BY <1>1, <4>1 DEF DuelState, Rephased
        <5> QED
          BY <2>2, <2>3, <5>1
      <4>2. CASE e.type = "i-submitted" /\ t # s
        <5>1. t = [s EXCEPT !.phase = "submitted"] /\ Refusable(w)
          BY <1>6, <2>1, <4>2 DEF reduceDuel, SaysTrue, Refusable
        <5>2. t = Rephased(s, s.status, "submitted")
          BY <1>1, <5>1 DEF DuelState, Rephased
        <5> QED
          BY <5>1, <5>2 DEF DuelPhase
      <4>3. CASE e.type = "submit" /\ t # s
        <5>1. t = [s EXCEPT !.phase = "submitting"] /\ s.phase = "drawing"
          BY <1>6, <4>3 DEF reduceDuel
        <5>2. t = Rephased(s, s.status, "submitting")
          BY <1>1, <5>1 DEF DuelState, Rephased
        <5> QED
          BY <2>2, <5>1, <5>2 DEF DuelPhase
      <4>4. CASE e.type = "submit-conflict" /\ t # s
        <5>1. t = [s EXCEPT !.phase = "submitted"] /\ Refusable(w)
          BY <1>6, <2>1, <4>4 DEF reduceDuel, SaysTrue
        <5>2. t = Rephased(s, s.status, "submitted")
          BY <1>1, <5>1 DEF DuelState, Rephased
        <5> QED
          BY <5>1, <5>2 DEF DuelPhase
      <4>5. CASE e.type = "submit-failed" /\ t # s
        <5>1. t = [s EXCEPT !.phase = "drawing"] /\ s.phase = "submitting"
          BY <1>6, <4>5 DEF reduceDuel
        <5>2. t = Rephased(s, s.status, "drawing")
          BY <1>1, <5>1 DEF DuelState, Rephased
        <5> QED
          BY <2>2, <5>1, <5>2 DEF DuelPhase
      <4> QED
        BY <2>12, <4>1, <4>2, <4>3, <4>4, <4>5
    <3>2. DuelFits(Rephased(s, s.status, phase), rs)
          /\ Rephased(s, s.status, phase).match = s.match
      BY <1>6, <2>1, <2>2, <2>3, <3>1, RephaseFits
    <3> QED
      BY <1>6, <2>1, <3>1, <3>2
  <2>13. CASE e.type = "submit-ok"
    <3> DEFINE status == furthest(s.status, e.view.status)
    <3>1. status \in {s.status, e.view.status} /\ e.view.status \in MatchStatus \cup {"none"}
      BY <1>1, <2>3, FurthestType DEF Event, View
    <3>2. status \in MatchStatus \cup {"none"} /\ (status = "judging" => Settled(w))
          /\ Refusable(w)
      BY <2>1, <2>2, <2>3, <2>13, <3>1 DEF SaysTrue, Refusable
    <3>3. CASE s.phase # "submitting"
      <4>1. t = s
        BY <1>6, <2>13, <3>3 DEF reduceDuel
      <4> QED
        BY <2>1, <4>1
    <3>4. CASE s.phase = "submitting" /\ status # "judging"
      <4>1. t = applySubmitted(s, e.view.status)
        BY <1>6, <2>13, <3>4 DEF reduceDuel
      <4>2. [s EXCEPT !.status = status].status = status
        BY <1>1 DEF DuelState
      <4>3. t = [[s EXCEPT !.status = status] EXCEPT !.phase = "submitted"]
        BY <3>4, <4>1, <4>2 DEF applySubmitted
      <4> HIDE DEF status
      <4>4. t = Rephased(s, status, "submitted")
        BY <1>1, <4>3 DEF DuelState, Rephased
      <4>5. "submitted" \in DuelPhase \ {"done", "ended"}
        BY DEF DuelPhase
      <4>6. DuelFits(Rephased(s, status, "submitted"), rs)
            /\ Rephased(s, status, "submitted").match = s.match
        BY <1>6, <2>1, <3>2, <4>4, <4>5, RephaseFits
      <4> QED
        BY <1>6, <2>1, <4>4, <4>6
    <3>5. CASE s.phase = "submitting" /\ status = "judging"
      <4>1. t = applySubmitted(s, e.view.status)
        BY <1>6, <2>13, <3>5 DEF reduceDuel
      <4>2. [s EXCEPT !.status = status].status = status
        BY <1>1 DEF DuelState
      <4>3. t = toJudging([s EXCEPT !.status = status])
        BY <3>5, <4>1, <4>2 DEF applySubmitted
      <4>4. t = [toJudging(s) EXCEPT !.status = "judging"]
        BY <1>1, <3>5, <4>3 DEF toJudging, withOpponentSubmitted, DuelState
      <4>5. Settled(w)
        BY <3>2, <3>5
      <4> QED
        BY <1>1, <1>6, <2>1, <2>2, <4>4, <4>5, JudgingFits
    <3> QED
      BY <3>3, <3>4, <3>5
  <2> QED
    <3>1. e.type \in EventType
      BY <1>1 DEF Event
    <3> HIDE DEF t, w
    <3> QED
      BY <1>1, <1>6, <2>5, <2>6, <2>7, <2>8, <2>9, <2>10, <2>11, <2>12, <2>13, <3>1
         DEF EventType
<1> HIDE DEF t
<1> QED
    BY <1>2, <1>3, <1>4, <1>5, <1>6

-----------------------------------------------------------------------------
(* The reducer moves the phase on, but for a submit that did not arrive.   *)

Onward(s, t) ==
    \/ PhaseOrder[t.phase] >= PhaseOrder[s.phase]
    \/ s.phase = "submitting" /\ t.phase = "drawing"

LEMMA PhaseOrders ==
    /\ PhaseOrder["connecting"] = 0 /\ PhaseOrder["waiting"] = 1 /\ PhaseOrder["drawing"] = 2
    /\ PhaseOrder["submitting"] = 3 /\ PhaseOrder["submitted"] = 4
    /\ PhaseOrder["judging"] = 5 /\ PhaseOrder["done"] = 6 /\ PhaseOrder["ended"] = 6
BY DEF PhaseOrder, DuelPhase

LEMMA OnwardPhases ==
    ASSUME NEW s \in DuelState, NEW t, t.phase \in DuelPhase,
           \/ t.phase = s.phase
           \/ s.phase \in BeforeRound /\ t.phase = "drawing"
           \/ s.phase \in BeforeRound /\ t.phase = "waiting"
           \/ t.phase = "submitting" /\ s.phase = "drawing"
           \/ t.phase = "drawing" /\ s.phase = "submitting"
           \/ t.phase = "submitted" /\ s.phase \notin {"judging", "done", "ended"}
           \/ t.phase = "judging" /\ s.phase \notin {"done", "ended"}
           \/ t.phase \in {"done", "ended"}
    PROVE  Onward(s, t)
<1>1. s.phase \in DuelPhase
    BY DEF DuelState
<1> DEFINE n == PhaseOrder[s.phase]
<1>2. n \in 0..6
    BY <1>1, PhaseOrders DEF DuelPhase
<1>3. CASE t.phase = s.phase
    BY <1>2, <1>3 DEF Onward
<1>4. CASE t.phase # s.phase
    BY <1>1, <1>2, <1>4, PhaseOrders DEF Onward, DuelPhase, BeforeRound
<1> QED
    BY <1>3, <1>4

LEMMA JudgingPhase ==
    ASSUME NEW s \in DuelState, NEW status
    PROVE  /\ toJudging(s).phase = "judging"
           /\ [toJudging(s) EXCEPT !.status = status].phase = "judging"
BY DEF toJudging, withOpponentSubmitted, DuelState

LEMMA applyMatchOnward ==
    ASSUME NEW s \in DuelState, ~isTerminal(s.phase), NEW m \in Match,
           NEW view \in View, view.status # "none"
    PROVE  Onward(s, applyMatch(s, m, view))
<1> DEFINE t == SnapshotTaken(s, m, view)
           u == applyMatch(s, m, view)
<1>1. t \in DuelState /\ t.phase = s.phase
  <2>1. furthest(s.status, view.status) \in {s.status, view.status}
    BY FurthestType DEF DuelState, View
  <2>2. SeatSeen(s.opponent, view) \in Seat
    BY DEF SeatSeen, Seat, DuelState
  <2> QED
    BY <2>1, <2>2 DEF SnapshotTaken, DuelState, View
<1>2. s.phase \in DuelPhase /\ s.phase # "done" /\ s.phase # "ended"
    BY DEF DuelState, isTerminal
<1>3. CASE s.match # NoMatch /\ s.match # m
  <2>1. u = s
    BY <1>3 DEF applyMatch
  <2> QED
    BY <1>2, <2>1, OnwardPhases
<1>4. CASE ~(s.match # NoMatch /\ s.match # m) /\ view.status = "open"
  <2>1. u = [t EXCEPT !.phase = IF @ \in BeforeRound THEN "waiting" ELSE @]
    BY <1>4 DEF applyMatch, SnapshotTaken
  <2> HIDE DEF t
  <2>2. u.phase = IF s.phase \in BeforeRound THEN "waiting" ELSE s.phase
    BY <1>1, <2>1 DEF DuelState
  <2> QED
    BY <1>2, <2>2, OnwardPhases DEF DuelPhase
<1>5. CASE ~(s.match # NoMatch /\ s.match # m) /\ view.status = "drawing" /\ ~view.mine
  <2>1. u = [t EXCEPT !.phase = IF @ \in BeforeRound THEN "drawing" ELSE @]
    BY <1>5 DEF applyMatch, SnapshotTaken
  <2> HIDE DEF t
  <2>2. u.phase = IF s.phase \in BeforeRound THEN "drawing" ELSE s.phase
    BY <1>1, <2>1 DEF DuelState
  <2> QED
    BY <1>2, <2>2, OnwardPhases DEF DuelPhase
<1>6. CASE ~(s.match # NoMatch /\ s.match # m) /\ view.status = "drawing" /\ view.mine
  <2>1. u = [t EXCEPT !.phase = IF @ = "judging" THEN @ ELSE "submitted"]
    BY <1>6 DEF applyMatch, SnapshotTaken
  <2> HIDE DEF t
  <2>2. u.phase = IF s.phase = "judging" THEN "judging" ELSE "submitted"
    BY <1>1, <2>1 DEF DuelState
  <2> QED
    BY <1>2, <2>2, OnwardPhases DEF DuelPhase
<1>7. CASE ~(s.match # NoMatch /\ s.match # m) /\ view.status = "judging"
  <2>1. u = toJudging(t)
    BY <1>7 DEF applyMatch, SnapshotTaken
  <2> HIDE DEF t
  <2>2. u.phase = "judging"
    BY <1>1, <2>1, JudgingPhase
  <2> QED
    BY <1>2, <2>2, OnwardPhases DEF DuelPhase
<1>8. CASE ~(s.match # NoMatch /\ s.match # m) /\ view.status = "done"
  <2>1. u = t
    BY <1>8 DEF applyMatch, SnapshotTaken
  <2> QED
    BY <1>1, <1>2, <2>1, OnwardPhases
<1>9. CASE ~(s.match # NoMatch /\ s.match # m) /\ view.status = "abandoned"
  <2>1. u = abandon(t)
    BY <1>9 DEF applyMatch, SnapshotTaken
  <2> HIDE DEF t
  <2>2. u.phase = "ended"
    BY <1>1, <2>1 DEF abandon, DuelState
  <2> QED
    BY <2>2, OnwardPhases DEF DuelPhase
<1> QED
  <2>1. view.status \in MatchStatus
    BY DEF View
  <2> QED
    BY <1>3, <1>4, <1>5, <1>6, <1>7, <1>8, <1>9, <2>1 DEF MatchStatus

LEMMA reduceDuelOnward ==
    ASSUME NEW rs, NEW s \in DuelState, NEW e, NewsFits(e, s, rs)
    PROVE  Onward(s, reduceDuel(s, e))
<1> DEFINE t == reduceDuel(s, e)
<1>1. /\ e \in Event /\ e.type \in EventType /\ e.type # "start" /\ s.phase \in DuelPhase
      /\ e.view.status \in MatchStatus \cup {"none"}
    BY DEF NewsFits, Event, View, DuelState
<1>2. CASE isTerminal(s.phase) \/ e.type = "offline"
  <2>1. t = s
    BY <1>1, <1>2 DEF reduceDuel
  <2> QED
    BY <1>1, <2>1, OnwardPhases
<1>3. CASE ~isTerminal(s.phase) /\ e.type = "match"
  <2>1. t = applyMatch(s, e.match, e.view)
    BY <1>3 DEF reduceDuel
  <2>2. e.match \in Match /\ e.view \in View /\ e.view.status # "none"
    BY <1>1, <1>3 DEF NewsFits, Event, ViewTrue
  <2> QED
    BY <1>3, <2>1, <2>2, applyMatchOnward
<1>4. CASE ~isTerminal(s.phase) /\ e.type \in {"result", "abandoned", "end"}
  <2>1. t.phase \in {"done", "ended"}
    BY <1>4 DEF reduceDuel, abandon, DuelState
  <2>2. t.phase \in DuelPhase
    BY <2>1 DEF DuelPhase
  <2> HIDE DEF t
  <2>3. Onward(s, t)
    BY <2>1, <2>2, OnwardPhases
  <2> QED
    BY <2>3 DEF t
<1>5. CASE ~isTerminal(s.phase) /\ e.type = "judging"
  <2>1. t = [toJudging(s) EXCEPT !.status = "judging"]
    BY <1>5 DEF reduceDuel
  <2>2. t.phase = "judging"
    BY <2>1, JudgingPhase
  <2> QED
    BY <1>5, <2>2, OnwardPhases DEF isTerminal, DuelPhase
<1>6. CASE ~isTerminal(s.phase) /\ e.type = "pending"
  <2>1. t = applyPending(s, e.view.status)
    BY <1>6 DEF reduceDuel
  <2>2. CASE e.view.status = "abandoned"
    <3>1. t.phase = "ended"
      BY <2>1, <2>2 DEF applyPending, abandon, DuelState
    <3> QED
      BY <3>1, OnwardPhases DEF DuelPhase
  <2>3. CASE e.view.status = "judging"
    <3>1. t.phase = "judging"
      BY <2>1, <2>3, JudgingPhase DEF applyPending
    <3> QED
      BY <1>6, <3>1, OnwardPhases DEF isTerminal, DuelPhase
  <2>4. CASE e.view.status \notin {"abandoned", "judging"}
    <3>1. t = [s EXCEPT !.status = furthest(@, e.view.status)]
      BY <2>1, <2>4 DEF applyPending
    <3>2. t.phase = s.phase
      BY <3>1 DEF DuelState
    <3> QED
      BY <1>1, <3>2, OnwardPhases
  <2> QED
    BY <2>2, <2>3, <2>4
<1>7. CASE ~isTerminal(s.phase) /\ e.type = "player-submitted"
  <2>1. t.phase = s.phase
    BY <1>7 DEF reduceDuel, withOpponentSubmitted, DuelState
  <2> QED
    BY <1>1, <2>1, OnwardPhases
<1>8. CASE /\ ~isTerminal(s.phase)
           /\ e.type \in {"i-submitted", "submit", "submit-conflict", "submit-failed"}
  <2>1. \/ t.phase = s.phase
        \/ t.phase = "submitted" /\ s.phase \in {"drawing", "submitting"}
        \/ t.phase = "submitting" /\ s.phase = "drawing"
        \/ t.phase = "drawing" /\ s.phase = "submitting"
    BY <1>8 DEF reduceDuel, DuelState
  <2> QED
    BY <1>1, <2>1, OnwardPhases DEF DuelPhase
<1>9. CASE ~isTerminal(s.phase) /\ e.type = "submit-ok"
  <2>1. CASE s.phase # "submitting"
    <3>1. t = s
      BY <1>9, <2>1 DEF reduceDuel
    <3> QED
      BY <1>1, <3>1, OnwardPhases
  <2>2. CASE s.phase = "submitting"
    <3> DEFINE next == [s EXCEPT !.status = furthest(@, e.view.status)]
    <3>1. t = IF next.status = "judging" THEN toJudging(next)
              ELSE [next EXCEPT !.phase = "submitted"]
      BY <1>9, <2>2 DEF reduceDuel, applySubmitted
    <3>2. next \in DuelState
      BY <1>1, FurthestType DEF DuelState
    <3> HIDE DEF next
    <3>3. t.phase \in {"judging", "submitted"}
      BY <3>1, <3>2, JudgingPhase DEF DuelState
    <3> QED
      BY <2>2, <3>3, OnwardPhases DEF DuelPhase
  <2> QED
    BY <2>1, <2>2
<1> QED
  BY <1>1, <1>2, <1>3, <1>4, <1>5, <1>6, <1>7, <1>8, <1>9 DEF EventType

-----------------------------------------------------------------------------
(* The handlers of the tab.  What one makes of c that does not begin a     *)
(* round: the page stays true and of the same match, and the loop goes on. *)

Goes(c) == c.timer \/ c.inFlight
Idle(c) == Over(c) \/ c.signingIn \/ c.disposed

Folded(c, d, rs) ==
    /\ TabFits(d, rs)
    /\ d.inFlight = c.inFlight /\ d.disposed = c.disposed
    /\ c.signingIn => d.signingIn
    /\ Over(c) => d.duel = c.duel
    /\ Onward(c.duel, d.duel)
    /\ c.duel.match # NoMatch => d.duel.match = c.duel.match
    /\ d.socket \in {c.socket, "closed"} \/ (c.duel.match = NoMatch /\ d.duel.match # NoMatch)
    /\ Goes(c) => Goes(d) \/ Idle(d)

LEMMA ClientFields ==
    ASSUME NEW c \in Client
    PROVE  /\ c.duel \in DuelState /\ c.timer \in BOOLEAN /\ c.inFlight \in BOOLEAN
           /\ c.pollAgain \in BOOLEAN /\ c.socket \in {"closed", "opening", "open"}
           /\ c.retry \in BOOLEAN /\ c.signingIn \in BOOLEAN /\ c.disposed \in BOOLEAN
BY DEF Client

LEMMA FoldedTwice ==
    ASSUME NEW rs, NEW c, NEW d, NEW e, Folded(c, d, rs), Folded(d, e, rs),
           d.duel \in {c.duel, e.duel}
    PROVE  Folded(c, e, rs)
<1>1. Goes(c) => Goes(e) \/ Idle(e)
  <2>1. Over(d) => Over(e)
    BY DEF Folded, Over
  <2> QED
    BY <2>1 DEF Folded, Idle
<1>2. Over(c) => e.duel = c.duel
  <2>1. Over(c) => Over(d)
    BY DEF Folded, Over
  <2> QED
    BY <2>1 DEF Folded
<1> QED
    BY <1>1, <1>2 DEF Folded

LEMMA SamePhase ==
    ASSUME NEW s \in DuelState
    PROVE  Onward(s, s)
BY OnwardPhases DEF DuelState

LEMMA FoldedNothing ==
    ASSUME NEW rs, NEW c, TabFits(c, rs)
    PROVE  Folded(c, c, rs)
<1>1. Onward(c.duel, c.duel)
    BY ClientFields, SamePhase DEF TabFits
<1> QED
    BY <1>1 DEF Folded

LEMMA pollNowFolds ==
    ASSUME NEW rs, NEW c, TabFits(c, rs)
    PROVE  Folded(c, pollNow(c), rs) /\ pollNow(c).duel = c.duel
<1> DEFINE d == pollNow(c)
<1>1. c \in Client
    BY DEF TabFits
<1>2. /\ d \in Client /\ d.duel = c.duel /\ d.inFlight = c.inFlight /\ d.disposed = c.disposed
      /\ d.signingIn = c.signingIn /\ d.socket = c.socket
      /\ d.timer = c.timer \/ (d.timer /\ ~d.inFlight)
    BY <1>1 DEF pollNow, Client
<1> HIDE DEF d
<1>3. TabFits(d, rs)
    BY <1>2 DEF TabFits
<1>4. Folded(c, d, rs)
    BY <1>1, <1>2, <1>3, ClientFields, SamePhase DEF Folded, Goes
<1> QED
    BY <1>2, <1>4 DEF d

LEMMA recoverAuthFolds ==
    ASSUME NEW rs, NEW c, TabFits(c, rs)
    PROVE  Folded(c, recoverAuth(c), rs) /\ recoverAuth(c).duel = c.duel
<1> DEFINE d == recoverAuth(c)
<1>1. c \in Client
    BY DEF TabFits
<1>2. /\ d \in Client /\ d.duel = c.duel /\ d.inFlight = c.inFlight /\ d.disposed = c.disposed
      /\ d.socket = c.socket /\ (d.timer => c.timer)
      /\ d.signingIn \/ (d.disposed /\ d.timer = c.timer)
    BY <1>1 DEF recoverAuth, stopPolling, Client
<1> HIDE DEF d
<1>3. TabFits(d, rs)
    BY <1>2 DEF TabFits
<1>4. Onward(c.duel, d.duel)
    BY <1>1, <1>2, ClientFields, SamePhase
<1>5. Folded(c, d, rs)
    BY <1>1, <1>2, <1>3, <1>4 DEF Folded, Idle, recoverAuth, d
<1> QED
    BY <1>2, <1>5 DEF d

(* What follows a change of the duel: the socket opens with the match and  *)
(* the loop stops with the round.                                          *)
LEMMA dispatchMoves ==
    ASSUME NEW c \in Client, NEW e, reduceDuel(c.duel, e) \in DuelState
    PROVE  LET d == dispatch(c, e)
           IN  /\ d \in Client /\ d.duel = reduceDuel(c.duel, e)
               /\ d.inFlight = c.inFlight /\ d.disposed = c.disposed
               /\ d.signingIn = c.signingIn
               /\ d.timer \in {c.timer, ~c.inFlight} \/ (Over(d) /\ ~d.timer)
               /\ d.timer # c.timer => (d.timer /\ ~c.inFlight) \/ Over(d)
               /\ \/ d.socket \in {c.socket, "closed"}
                  \/ c.duel.match = NoMatch /\ d.duel.match # NoMatch
<1> DEFINE after == reduceDuel(c.duel, e)
           moved == [c EXCEPT !.duel = after]
           opened == IF c.duel.match = NoMatch /\ after.match # NoMatch
                     THEN openSocket(moved) ELSE moved
           d == dispatch(c, e)
<1>1. /\ moved \in Client /\ moved.duel = after /\ moved.inFlight = c.inFlight
      /\ moved.disposed = c.disposed /\ moved.signingIn = c.signingIn
      /\ moved.timer = c.timer /\ moved.socket = c.socket
    BY DEF Client
<1>2. /\ opened \in Client /\ opened.duel = after /\ opened.inFlight = c.inFlight
      /\ opened.disposed = c.disposed /\ opened.signingIn = c.signingIn
      /\ opened.timer = c.timer
      /\ opened.socket = c.socket \/ (c.duel.match = NoMatch /\ after.match # NoMatch)
  <2> HIDE DEF moved, after
  <2> QED
    BY <1>1 DEF openSocket, Client
<1>3. CASE after = c.duel
  <2>1. d = c
    BY <1>3 DEF dispatch
  <2> QED
    BY <1>3, <2>1
<1>4. CASE after # c.duel /\ isTerminal(after.phase)
  <2>1. d = closeSocket(stopPolling(opened))
    BY <1>4 DEF dispatch
  <2> HIDE DEF opened, after
  <2>2. /\ d \in Client /\ d.duel = after /\ d.inFlight = c.inFlight
        /\ d.disposed = c.disposed /\ d.signingIn = c.signingIn
        /\ d.timer = FALSE /\ d.socket = "closed"
    BY <1>2, <2>1 DEF closeSocket, stopPolling, Client
  <2> HIDE DEF d
  <2>3. Over(d)
    BY <1>4, <2>2 DEF Over
  <2> QED
    BY <2>2, <2>3 DEF d, after
<1>5. CASE after # c.duel /\ ~isTerminal(after.phase)
  <2>1. d \in {opened, pollNow(opened)}
    BY <1>5 DEF dispatch
  <2> HIDE DEF opened, after
  <2>2. /\ d \in Client /\ d.duel = after /\ d.inFlight = c.inFlight
        /\ d.disposed = c.disposed /\ d.signingIn = c.signingIn
        /\ d.timer = c.timer \/ (d.timer /\ ~c.inFlight)
        /\ d.socket = c.socket \/ (c.duel.match = NoMatch /\ after.match # NoMatch)
    BY <1>2, <2>1 DEF pollNow, Client
  <2>3. c.inFlight \in BOOLEAN
    BY DEF Client
  <2> HIDE DEF d
  <2> QED
    BY <2>2, <2>3 DEF d, after
<1> QED
    BY <1>3, <1>4, <1>5

LEMMA dispatchFolds ==
    ASSUME NEW rs, NEW c, TabFits(c, rs), NEW e, NewsFits(e, c.duel, rs),
           c.duel.match # NoMatch => RowFits(rs[c.duel.match])
    PROVE  /\ Folded(c, dispatch(c, e), rs)
           /\ dispatch(c, e).duel = reduceDuel(c.duel, e)
           /\ dispatch(c, e).signingIn = c.signingIn
<1> DEFINE d == dispatch(c, e)
           after == reduceDuel(c.duel, e)
<1>1. c \in Client /\ DuelFits(c.duel, rs) /\ (c.socket # "closed" => c.duel.match # NoMatch)
      /\ ~(c.timer /\ c.inFlight)
    BY DEF TabFits
<1>2. /\ DuelFits(after, rs)
      /\ after.match = (IF e.type = "match" /\ ~isTerminal(c.duel.phase)
                        THEN e.match ELSE c.duel.match)
    BY <1>1, reduceDuelFits
<1>3. after \in DuelState
    BY <1>2 DEF DuelFits
<1>4. c.duel.match # NoMatch => after.match = c.duel.match
    BY <1>2 DEF NewsFits
<1>5. /\ d \in Client /\ d.duel = after
      /\ d.inFlight = c.inFlight /\ d.disposed = c.disposed
      /\ d.signingIn = c.signingIn
      /\ d.timer \in {c.timer, ~c.inFlight} \/ (Over(d) /\ ~d.timer)
      /\ d.timer # c.timer => (d.timer /\ ~c.inFlight) \/ Over(d)
      /\ \/ d.socket \in {c.socket, "closed"}
         \/ c.duel.match = NoMatch /\ d.duel.match # NoMatch
    BY <1>1, <1>3, dispatchMoves
<1>6. Over(c) => after = c.duel
    BY DEF Over, NewsFits, reduceDuel
<1> HIDE DEF d, after
<1>7. ~(d.timer /\ d.inFlight)
    BY <1>1, <1>5, ClientFields
<1>8. TabFits(d, rs)
    BY <1>1, <1>2, <1>4, <1>5, <1>7 DEF TabFits
<1>9. Goes(c) => Goes(d) \/ Idle(d)
    BY <1>1, <1>5, ClientFields DEF Goes, Idle
<1>10. Onward(c.duel, after)
    BY <1>1, ClientFields, reduceDuelOnward DEF after
<1>11. Folded(c, d, rs)
    BY <1>4, <1>5, <1>6, <1>8, <1>9, <1>10 DEF Folded
<1> QED
    BY <1>5, <1>11 DEF d, after

(* The player leaves: any end but the match's own. *)
LEMMA EndFolds ==
    ASSUME NEW rs, NEW c, TabFits(c, rs), NEW end \in {"left", "auth", "budget"},
           c.duel.match # NoMatch => RowFits(rs[c.duel.match])
    PROVE  /\ Folded(c, dispatch(c, End(end)), rs) /\ Over(dispatch(c, End(end)))
           /\ dispatch(c, End(end)).duel.match = c.duel.match
<1> DEFINE e == End(end)
<1>1. e \in Event /\ e.type = "end" /\ e.end = end
    BY DEF End, News, Event, EventType, DuelEnd, View, NoView
<1> HIDE DEF e
<1>2. NewsFits(e, c.duel, rs)
    BY <1>1 DEF NewsFits
<1>3. Folded(c, dispatch(c, e), rs) /\ dispatch(c, e).duel = reduceDuel(c.duel, e)
    BY <1>2, dispatchFolds
<1>4. c.duel \in DuelState
    BY ClientFields DEF TabFits
<1>5. reduceDuel(c.duel, e) =
         IF isTerminal(c.duel.phase) THEN c.duel
         ELSE [c.duel EXCEPT !.phase = "ended", !.end = e.end]
    BY <1>1 DEF reduceDuel
<1>6. isTerminal(reduceDuel(c.duel, e).phase) /\ reduceDuel(c.duel, e).match = c.duel.match
    BY <1>4, <1>5 DEF isTerminal, DuelState
<1> QED
    BY <1>3, <1>6 DEF Over, e

LEMMA leaveQueueFolds ==
    ASSUME NEW rs, NEW c, TabFits(c, rs),
           c.duel.match # NoMatch => RowFits(rs[c.duel.match])
    PROVE  Folded(c, leaveQueue(c), rs)
BY EndFolds, FoldedNothing DEF leaveQueue

(* A poll that failed: whatever it was, the loop goes on or has ended. *)
LEMMA pollFailedFolds ==
    ASSUME NEW rs, NEW c, TabFits(c, rs), ~c.inFlight,
           NEW failure \in Failure,
           c.duel.match # NoMatch => RowFits(rs[c.duel.match])
    PROVE  /\ Folded(c, pollFailed(c, failure), rs)
           /\ Goes(pollFailed(c, failure)) \/ Idle(pollFailed(c, failure))
<1> DEFINE d == pollFailed(c, failure)
<1>1. CASE failure = "auth"
  <2>1. d = recoverAuth(c)
    BY <1>1 DEF pollFailed
  <2>2. recoverAuth(c).signingIn \/ recoverAuth(c).disposed
    BY DEF recoverAuth, stopPolling, TabFits, Client
  <2> QED
    BY <2>1, <2>2, recoverAuthFolds DEF Idle
<1>2. CASE failure \in {"transient", "conflict"}
  <2> DEFINE told == dispatch(c, News("offline"))
  <2>1. NewsFits(News("offline"), c.duel, rs)
    BY DEF NewsFits, News, Event, EventType, DuelEnd, View, NoView
  <2>2. Folded(c, told, rs)
    BY <2>1, dispatchFolds
  <2>3. d = [told EXCEPT !.timer = TRUE]
    BY <1>2 DEF pollFailed
  <2> HIDE DEF told
  <2>4. told \in Client /\ ~told.inFlight
    BY <2>2 DEF Folded, TabFits
  <2>5. /\ d \in Client /\ d.duel = told.duel /\ d.timer /\ d.inFlight = told.inFlight
        /\ d.signingIn = told.signingIn /\ d.disposed = told.disposed
        /\ d.socket = told.socket
    BY <2>3, <2>4 DEF Client
  <2> HIDE DEF d
  <2>6. TabFits(d, rs)
    BY <2>2, <2>4, <2>5 DEF Folded, TabFits
  <2>7. Folded(c, d, rs)
    BY <2>2, <2>5, <2>6 DEF Folded, Goes
  <2> QED
    BY <2>5, <2>7 DEF Goes, d
<1>3. CASE failure = "budget"
  <2>1. d = dispatch(c, End("budget"))
    BY <1>3 DEF pollFailed
  <2> QED
    BY <2>1, EndFolds DEF Idle
<1> QED
    BY <1>1, <1>2, <1>3 DEF Failure

(* A poll that was answered: told of the news, the tab asks again, unless  *)
(* it is over.                                                             *)
LEMMA pollAnsweredFolds ==
    ASSUME NEW rs, NEW c, TabFits(c, rs), NEW e, NewsFits(e, c.duel, rs),
           c.duel.match # NoMatch => RowFits(rs[c.duel.match])
    PROVE  LET d == pollAnswered(c, e)
           IN  /\ TabFits(d, rs) /\ ~d.inFlight /\ d.disposed = c.disposed
               /\ Goes(d) \/ Idle(d)
               /\ c.duel.match # NoMatch => d.duel.match = c.duel.match
               /\ Onward(c.duel, d.duel)
<1> DEFINE told == dispatch(c, e)
           read == [told EXCEPT !.inFlight = FALSE]
           d == pollAnswered(c, e)
<1>1. Folded(c, told, rs) /\ told.duel = reduceDuel(c.duel, e)
    BY dispatchFolds
<1>2. d = IF Over(read) THEN read ELSE [read EXCEPT !.pollAgain = FALSE, !.timer = TRUE]
    BY DEF pollAnswered
<1> HIDE DEF told
<1>3. told \in Client /\ DuelFits(told.duel, rs)
      /\ (told.socket # "closed" => told.duel.match # NoMatch)
    BY <1>1 DEF Folded, TabFits
<1>4. /\ read \in Client /\ read.duel = told.duel /\ read.inFlight = FALSE
      /\ read.disposed = told.disposed /\ read.signingIn = told.signingIn
      /\ read.socket = told.socket
    BY <1>3 DEF Client
<1> HIDE DEF read
<1>5. /\ d \in Client /\ d.duel = told.duel /\ d.inFlight = FALSE
      /\ d.disposed = told.disposed /\ d.socket = told.socket
      /\ Over(read) => Over(d)
      /\ ~Over(read) => d.timer
    BY <1>2, <1>4 DEF Client
<1> HIDE DEF d
<1>6. TabFits(d, rs)
    BY <1>3, <1>5 DEF TabFits
<1>7. Goes(d) \/ Idle(d)
    BY <1>5 DEF Goes, Idle
<1> QED
    BY <1>1, <1>5, <1>6, <1>7 DEF Folded, d

LEMMA submitFailedFolds ==
    ASSUME NEW rs, NEW c, TabFits(c, rs), NEW failure \in Failure,
           c.duel.match # NoMatch, RowFits(rs[c.duel.match]),
           failure = "conflict" => Refusable(rs[c.duel.match])
    PROVE  Folded(c, submitFailed(c, failure), rs)
<1> DEFINE d == submitFailed(c, failure)
<1>1. CASE failure = "conflict"
  <2> DEFINE told == dispatch(c, News("submit-conflict"))
  <2>1. NewsFits(News("submit-conflict"), c.duel, rs)
    BY <1>1 DEF NewsFits, SaysTrue, News, Event, EventType, DuelEnd, View, NoView
  <2>2. Folded(c, told, rs)
    BY <2>1, dispatchFolds
  <2>3. d = pollNow(told)
    BY <1>1 DEF submitFailed
  <2> HIDE DEF told
  <2>4. Folded(told, pollNow(told), rs) /\ pollNow(told).duel = told.duel
    BY <2>2, pollNowFolds DEF Folded
  <2> QED
    BY <2>2, <2>3, <2>4, FoldedTwice
<1>2. ASSUME failure # "conflict" PROVE Folded(c, dispatch(c, News("submit-failed")), rs)
  <2>1. NewsFits(News("submit-failed"), c.duel, rs)
    BY DEF NewsFits, SaysTrue, News, Event, EventType, DuelEnd, View, NoView
  <2> QED
    BY <2>1, dispatchFolds
<1>3. CASE failure = "auth"
  <2> DEFINE told == dispatch(c, News("submit-failed"))
  <2>1. d = recoverAuth(told) /\ Folded(c, told, rs)
    BY <1>2, <1>3 DEF submitFailed
  <2> HIDE DEF told
  <2>2. Folded(told, recoverAuth(told), rs) /\ recoverAuth(told).duel = told.duel
    BY <2>1, recoverAuthFolds DEF Folded
  <2> QED
    BY <2>1, <2>2, FoldedTwice
<1>4. CASE failure \in {"transient", "budget"}
  <2>1. d = dispatch(c, News("submit-failed"))
    BY <1>4 DEF submitFailed
  <2> QED
    BY <1>2, <1>4, <2>1
<1> QED
    BY <1>1, <1>3, <1>4 DEF Failure

(* A round begins: nothing of the last one is under way. *)
LEMMA resetFits ==
    ASSUME NEW rs, NEW c, TabFits(c, rs)
    PROVE  LET d == reset(c)
           IN  /\ TabFits(d, rs) /\ d.duel = c.duel /\ ~d.inFlight /\ ~d.timer
               /\ d.signingIn = c.signingIn /\ d.disposed = c.disposed
               /\ d.socket = "closed"
<1> DEFINE d == reset(c)
<1>1. c \in Client /\ DuelFits(c.duel, rs)
    BY DEF TabFits
<1>2. /\ d \in Client /\ d.duel = c.duel /\ d.inFlight = FALSE /\ d.timer = FALSE
      /\ d.signingIn = c.signingIn /\ d.disposed = c.disposed
      /\ d.socket = "closed"
    BY <1>1 DEF reset, stopPolling, closeSocket, Client
<1> HIDE DEF d
<1>3. TabFits(d, rs)
    BY <1>1, <1>2 DEF TabFits
<1> QED
    BY <1>2, <1>3 DEF d

LEMMA startFits ==
    ASSUME NEW rs, NEW c, TabFits(c, rs), NEW signedIn \in BOOLEAN,
           c.duel.match # NoMatch => RowFits(rs[c.duel.match])
    PROVE  LET d == start(c, signedIn)
           IN  /\ TabFits(d, rs) /\ ~d.inFlight /\ d.socket = "closed"
               /\ Goes(d) \/ Idle(d)
               /\ d.duel = initialDuel \/ Onward(c.duel, d.duel)
<1> DEFINE d == start(c, signedIn)
           z == reset(c)
<1>1. /\ TabFits(z, rs) /\ z.duel = c.duel /\ ~z.inFlight /\ ~z.timer
      /\ z.socket = "closed"
    BY resetFits
<1> HIDE DEF z
<1>2. z \in Client /\ z.duel \in DuelState
    BY <1>1, ClientFields DEF TabFits
<1>3. CASE signedIn
  <2> DEFINE told == dispatch(z, News("start"))
  <2>1. reduceDuel(z.duel, News("start")) = initialDuel
    BY DEF reduceDuel, News
  <2>2. initialDuel \in DuelState /\ ~isTerminal(initialDuel.phase)
        /\ initialDuel.match = NoMatch /\ initialDuel.status = "none"
    BY DEF initialDuel, DuelState, isTerminal, DuelPhase, Seat
  <2>3. told = [z EXCEPT !.duel = initialDuel]
    <3> DEFINE e == News("start")
    <3>1. reduceDuel(z.duel, e) = initialDuel
      BY <2>1
    <3> HIDE DEF e
    <3>2. CASE z.duel = initialDuel
      <4>1. dispatch(z, e) = z
        BY <3>1, <3>2 DEF dispatch
      <4> QED
        BY <1>2, <3>2, <4>1 DEF e, Client
    <3>3. CASE z.duel # initialDuel
      <4>1. dispatch(z, e) = [z EXCEPT !.duel = initialDuel]
        BY <2>2, <3>1, <3>3 DEF dispatch
      <4> QED
        BY <4>1 DEF e
    <3> QED
      BY <3>2, <3>3
  <2>4. d = [told EXCEPT !.timer = TRUE]
    BY <1>3 DEF start, z
  <2>5. d = [z EXCEPT !.duel = initialDuel, !.timer = TRUE]
    BY <1>2, <2>3, <2>4 DEF Client
  <2>6. /\ d \in Client /\ d.duel = initialDuel /\ d.timer /\ d.inFlight = z.inFlight
        /\ d.socket = "closed"
    BY <1>1, <1>2, <2>2, <2>5 DEF Client
  <2> HIDE DEF d, told
  <2>7. DuelFits(initialDuel, rs)
    BY <2>2 DEF DuelFits, initialDuel
  <2>8. TabFits(d, rs)
    BY <1>1, <2>6, <2>7 DEF TabFits
  <2> QED
    BY <1>1, <2>6, <2>8 DEF d, Goes
<1>4. CASE ~signedIn
  <2>1. d = dispatch(z, End("auth"))
    BY <1>4 DEF start, z
  <2>2. Folded(z, d, rs) /\ Over(d) /\ d.duel.match = z.duel.match
    BY <1>1, <2>1, EndFolds
  <2>3. d.socket = "closed"
    BY <1>1, <2>2 DEF Folded
  <2> QED
    BY <1>1, <2>2, <2>3 DEF Folded, Idle, Over
<1> QED
    BY <1>3, <1>4

-----------------------------------------------------------------------------
(* What was true of a match stays true as it goes on.                      *)

LEMMA ViewStaysTrue ==
    ASSUME NEW view, NEW w, NEW v, ViewTrue(view, w), Grows(w, v)
    PROVE  ViewTrue(view, v)
BY DEF ViewTrue, Grows, Settled

LEMMA SayingStaysTrue ==
    ASSUME NEW e, NEW w, NEW v, SaysTrue(e, w), Grows(w, v)
    PROVE  SaysTrue(e, v)
<1>1. e.type = "match" => ViewTrue(e.view, v)
    BY ViewStaysTrue DEF SaysTrue
<1>2. Settled(w) => Settled(v)
    BY DEF Settled, Grows
<1>3. Refusable(w) => Refusable(v)
    BY DEF Refusable, Grows
<1> QED
    BY <1>1, <1>2, <1>3 DEF SaysTrue, Grows

LEMMA DuelStaysTrue ==
    ASSUME NEW s, NEW rs, NEW rt, \A m \in Match : Grows(rs[m], rt[m]), DuelFits(s, rs)
    PROVE  DuelFits(s, rt)
<1>1. CASE s.match = NoMatch
    BY <1>1 DEF DuelFits
<1>2. CASE s.match # NoMatch
  <2>1. s.match \in Match
    BY <1>2 DEF DuelFits, DuelState
  <2>2. Grows(rs[s.match], rt[s.match])
    BY <2>1
  <2> QED
    BY <1>2, <2>2 DEF DuelFits, Grows, Settled, Refusable
<1> QED
    BY <1>1, <1>2

LEMMA TabStaysTrue ==
    ASSUME NEW c, NEW rs, NEW rt, \A m \in Match : Grows(rs[m], rt[m]), TabFits(c, rs)
    PROVE  TabFits(c, rt)
BY DuelStaysTrue DEF TabFits

LEMMA RequestStaysTrue ==
    ASSUME NEW r, NEW rs, NEW rt, \A m \in Match : Grows(rs[m], rt[m]), RequestFits(r, rs)
    PROVE  RequestFits(r, rt)
<1> DEFINE about == IF r.answer.type = "match" THEN r.answer.match ELSE r.match
<1>1. r.kind # "create" => r.match \in Match /\ Grows(rs[r.match], rt[r.match])
    BY DEF RequestFits
<1>2. r.kind # "create" => rt[r.match].status # "none"
    BY <1>1 DEF RequestFits, Grows
<1>3. r.kind = "submit" => rt[r.match].joined
    BY <1>1 DEF RequestFits, Grows
<1>4. ASSUME r.at # "sent", ~IsFailure(r)
      PROVE  SaysTrue(r.answer, rt[about])
  <2>1. /\ r.answer.type \in AnswerTypes(r.kind) /\ SaysTrue(r.answer, rs[about])
        /\ r.answer.type = "match" => r.answer.match \in Match
    BY <1>4 DEF RequestFits
  <2>2. r.answer.type # "match" => r.kind # "create"
    BY <2>1 DEF AnswerTypes
  <2>3. about \in Match
    BY <1>1, <2>1, <2>2
  <2> HIDE DEF about
  <2> QED
    BY <2>1, <2>3, SayingStaysTrue
<1>5. ASSUME r.at # "sent", IsFailure(r), r.answer.failure = "conflict"
      PROVE  Refusable(rt[r.match])
    BY <1>1, <1>5 DEF RequestFits, Refusable, Grows
<1> QED
    BY <1>2, <1>3, <1>4, <1>5 DEF RequestFits

LEMMA FrameStaysTrue ==
    ASSUME NEW f, NEW m \in Match, NEW rs, NEW rt, \A q \in Match : Grows(rs[q], rt[q]),
           FrameFits(f, m, rs)
    PROVE  FrameFits(f, m, rt)
BY SayingStaysTrue DEF FrameFits

LEMMA RowStays ==
    ASSUME NEW w
    PROVE  Grows(w, w)
BY DEF Grows

-----------------------------------------------------------------------------
(* What every step keeps: the invariant and, in a round, the phase.        *)

PhaseKept == client'.duel = initialDuel \/ Onward(client.duel, client'.duel)

TabKept == TabInv' /\ PhaseKept

LEMMA SameDuel ==
    ASSUME TabInv, client'.duel = client.duel
    PROVE  PhaseKept
<1>1. client.duel \in DuelState
    BY ClientFields DEF TabInv, TabFits
<1> QED
    BY <1>1, SamePhase DEF PhaseKept

-----------------------------------------------------------------------------
(* Steps of the world alone: the rows grow, the tab looks on.              *)

LEMMA RowsOnly ==
    ASSUME TabInv, RowsGrow, row' \in [Match -> Row], \A m \in Match : RowFits(row'[m]),
           UNCHANGED << cookie, user, client, requests, frames >>, faults' \in Nat
    PROVE  TabKept
<1> SUFFICES TabInv'
    BY SameDuel DEF TabKept
<1>1. \A m \in Match : Grows(row[m], row'[m])
    BY DEF RowsGrow
<1>2. TabFits(client, row')
    BY <1>1, TabStaysTrue DEF TabInv
<1>3. \A r \in requests : RequestFits(r, row')
    BY <1>1, RequestStaysTrue DEF TabInv
<1>4. \A f \in frames : FrameFits(f, client.duel.match, row')
  <2>1. frames # {} => client.duel.match \in Match
    BY ClientFields DEF TabInv, TabFits, DuelState
  <2> QED
    BY <1>1, <2>1, FrameStaysTrue DEF TabInv
<1> QED
    BY <1>2, <1>3, <1>4 DEF TabInv, LoopFits, Awaited, Polls, IsPoll, Over

(* The server works at one request: it goes on, or it had no reply.        *)
Follows(q, r) == q.kind = r.kind /\ q.stale = r.stale /\ q.match = r.match

LEMMA OneRequest ==
    ASSUME TabInv, RowsGrow, row' \in [Match -> Row], \A m \in Match : RowFits(row'[m]),
           UNCHANGED << cookie, user, client, frames >>, faults' \in Nat,
           NEW r \in requests,
           \/ requests' = requests \ {r} /\ r.kind \in {"cancel", "beacon"}
           \/ \E q : /\ requests' = (requests \ {r}) \cup {q}
                     /\ RequestFits(q, row') /\ Follows(q, r)
    PROVE  TabKept
<1> SUFFICES TabInv'
    BY SameDuel DEF TabKept
<1>1. \A m \in Match : Grows(row[m], row'[m])
    BY DEF RowsGrow
<1>2. TabFits(client, row')
    BY <1>1, TabStaysTrue DEF TabInv
<1>3. \A x \in requests : RequestFits(x, row')
    BY <1>1, RequestStaysTrue DEF TabInv
<1>4. \A f \in frames : FrameFits(f, client.duel.match, row')
  <2>1. frames # {} => client.duel.match \in Match
    BY ClientFields DEF TabInv, TabFits, DuelState
  <2> QED
    BY <1>1, <2>1, FrameStaysTrue DEF TabInv
<1>5. CASE requests' = requests \ {r} /\ r.kind \in {"cancel", "beacon"}
  <2>1. Polls(requests') = Polls(requests)
    BY <1>5 DEF Polls, IsPoll
  <2>2. LoopFits(client, requests')
    BY <1>5, <2>1 DEF TabInv, LoopFits, Polls
  <2>3. Awaited(requests', client.duel.match)
    BY <1>5 DEF TabInv, Awaited
  <2> QED
    BY <1>2, <1>3, <1>4, <1>5, <2>2, <2>3 DEF TabInv
<1>6. ASSUME NEW q, requests' = (requests \ {r}) \cup {q}, RequestFits(q, row'), Follows(q, r)
      PROVE  TabInv'
  <2>1. IsPoll(q) = IsPoll(r)
    BY <1>6 DEF Follows, IsPoll
  <2>2. Awaited(requests', client.duel.match)
    BY <1>6, <2>1 DEF TabInv, Awaited, Follows
  <2>3. LoopFits(client, requests')
    <3>1. CASE IsPoll(r) /\ ~r.stale
      <4>1. client.inFlight /\ Polls(requests) = {r}
        BY <3>1 DEF TabInv, LoopFits, Polls
      <4>2. Polls(requests') = {q}
        BY <1>6, <2>1, <3>1, <4>1 DEF Polls, Follows
      <4> QED
        BY <1>6, <4>1, <4>2 DEF TabInv, LoopFits
    <3>2. CASE ~(IsPoll(r) /\ ~r.stale)
      <4>1. Polls(requests') = Polls(requests)
        BY <1>6, <2>1, <3>2 DEF Polls, Follows
      <4> QED
        BY <4>1 DEF TabInv, LoopFits, Polls
    <3> QED
      BY <3>1, <3>2
  <2> QED
    BY <1>2, <1>3, <1>4, <1>6, <2>2, <2>3 DEF TabInv
<1> QED
    BY <1>5, <1>6

LEMMA SameRows ==
    ASSUME TabInv, UNCHANGED row
    PROVE  RowsGrow /\ row' \in [Match -> Row] /\ \A m \in Match : RowFits(row'[m])
BY RowStays DEF TabInv, RowsGrow

(* One match moves. *)
LEMMA OneRow ==
    ASSUME TabInv, NEW m \in Match, NEW w \in Row, row' = [row EXCEPT ![m] = w],
           RowFits(w), Grows(row[m], w)
    PROVE  RowsGrow /\ row' \in [Match -> Row] /\ \A q \in Match : RowFits(row'[q])
BY RowStays DEF TabInv, RowsGrow

(* The two answers a request can get. *)
LEMMA FailedFits ==
    ASSUME NEW rs, NEW r, RequestFits(r, rs), r.kind # "beacon", NEW failure \in Failure,
           failure = "conflict" => r.kind = "submit" /\ Refusable(rs[r.match])
    PROVE  RequestFits(Answered(r, Failed(failure)), rs)
           /\ Follows(Answered(r, Failed(failure)), r)
<1> DEFINE q == Answered(r, Failed(failure))
<1>1. r \in Request
    BY DEF RequestFits
<1>2. Failed(failure) \in [failure : Failure] /\ Failed(failure).failure = failure
    BY DEF Failed
<1>3. /\ q \in Request /\ q.kind = r.kind /\ q.match = r.match /\ q.stale = r.stale
      /\ q.at = "answered" /\ q.answer = Failed(failure)
    BY <1>1, <1>2 DEF Answered, Request
<1>4. IsFailure(q)
    BY <1>3 DEF IsFailure, Failed
<1> HIDE DEF q
<1>5. RequestFits(q, rs)
    BY <1>2, <1>3, <1>4 DEF RequestFits
<1> QED
    BY <1>3, <1>5 DEF q, Follows

LEMMA NewsIsNoFailure ==
    ASSUME NEW r, r.answer \in Event
    PROVE  ~IsFailure(r)
BY DEF IsFailure, Event

LEMMA AnsweredFits ==
    ASSUME NEW rs, NEW r, RequestFits(r, rs), NEW e \in Event,
           e.type \in AnswerTypes(r.kind), e.type = "match" => e.match \in Match,
           r.kind = "get" => e.match = r.match,
           SaysTrue(e, rs[IF e.type = "match" THEN e.match ELSE r.match]),
           NEW at \in {"reading", "answered"}, at = "reading" => r.kind \in {"create", "get"}
    PROVE  LET q == [r EXCEPT !.at = at, !.answer = e]
           IN  RequestFits(q, rs) /\ Follows(q, r)
<1> DEFINE q == [r EXCEPT !.at = at, !.answer = e]
<1>1. r \in Request
    BY DEF RequestFits
<1>2. /\ q \in Request /\ q.kind = r.kind /\ q.match = r.match /\ q.stale = r.stale
      /\ q.at = at /\ q.answer = e
    BY <1>1 DEF Request
<1>3. ~IsFailure(q)
    BY <1>2, NewsIsNoFailure
<1> HIDE DEF q
<1>4. RequestFits(q, rs)
    BY <1>2, <1>3 DEF RequestFits, AnswerTypes
<1> QED
    BY <1>2, <1>4 DEF q, Follows

-----------------------------------------------------------------------------
(* The server.  The two reads of a match w, wherever they are made.        *)

RowTaken(w) == [NoView EXCEPT !.status = w.status, !.deadline = w.joined]
RosterTaken(view, w) ==
    [view EXCEPT !.joined = w.joined, !.mine = w.mine, !.theirs = w.theirs]

LEMMA RowTakenTrue ==
    ASSUME NEW w \in Row, RowFits(w), w.status # "none"
    PROVE  RowTaken(w) \in View /\ ViewTrue(RowTaken(w), w)
<1> DEFINE view == RowTaken(w)
<1>1. /\ view \in View /\ view.status = w.status /\ view.deadline = w.joined
      /\ ~view.joined /\ ~view.mine /\ ~view.theirs
    BY DEF RowTaken, NoView, View, Row
<1> HIDE DEF view
<1>2. ViewTrue(view, w)
    BY <1>1 DEF ViewTrue, RowFits, Settled
<1> QED
    BY <1>1, <1>2 DEF view

LEMMA RosterTakenTrue ==
    ASSUME NEW w \in Row, NEW view \in View, ViewTrue(view, w)
    PROVE  RosterTaken(view, w) \in View /\ ViewTrue(RosterTaken(view, w), w)
<1> DEFINE both == RosterTaken(view, w)
<1>1. /\ both \in View /\ both.status = view.status /\ both.deadline = view.deadline
      /\ both.joined = w.joined /\ both.mine = w.mine /\ both.theirs = w.theirs
    BY DEF RosterTaken, View, Row
<1> HIDE DEF both
<1>2. ViewTrue(both, w)
    BY <1>1 DEF ViewTrue
<1> QED
    BY <1>1, <1>2 DEF both

LEMMA SnapshotEvent ==
    ASSUME NEW m \in Match \cup {NoMatch}, NEW view \in View
    PROVE  /\ Snapshot(m, view) \in Event /\ Snapshot(m, view).type = "match"
           /\ Snapshot(m, view).match = m /\ Snapshot(m, view).view = view
BY DEF Snapshot, News, Event, EventType, NoView, View

LEMMA NewsEvent ==
    ASSUME NEW type \in EventType
    PROVE  News(type) \in Event /\ News(type).type = type /\ News(type).view = NoView
           /\ News(type).match = NoMatch
BY DEF News, Event, NoView, View

LEMMA StatusEvent ==
    ASSUME NEW type \in EventType, NEW status \in MatchStatus \cup {"none"}
    PROVE  /\ Status(type, status) \in Event /\ Status(type, status).type = type
           /\ Status(type, status).view.status = status
BY DEF Status, News, Event, NoView, View

(* The row has been read: a request for m goes on to the roster. *)
LEMMA ReadingFits ==
    ASSUME NEW rs, NEW r, RequestFits(r, rs), r.kind \in {"create", "get"},
           NEW m \in Match, r.kind = "get" => m = r.match,
           rs[m] \in Row, RowFits(rs[m]), rs[m].status # "none"
    PROVE  LET q == [r EXCEPT !.at = "reading", !.answer = Snapshot(m, RowTaken(rs[m]))]
           IN  RequestFits(q, rs) /\ Follows(q, r)
<1> DEFINE e == Snapshot(m, RowTaken(rs[m]))
<1>1. RowTaken(rs[m]) \in View /\ ViewTrue(RowTaken(rs[m]), rs[m])
    BY RowTakenTrue
<1>2. e \in Event /\ e.type = "match" /\ e.match = m /\ e.view = RowTaken(rs[m])
    BY <1>1, SnapshotEvent
<1> HIDE DEF e
<1>3. SaysTrue(e, rs[m])
    BY <1>1, <1>2 DEF SaysTrue
<1>4. e.type \in AnswerTypes(r.kind)
    BY <1>2 DEF AnswerTypes
<1>5. /\ RequestFits([r EXCEPT !.at = "reading", !.answer = e], rs)
      /\ Follows([r EXCEPT !.at = "reading", !.answer = e], r)
    BY <1>2, <1>3, <1>4, AnsweredFits
<1> QED
    BY <1>5 DEF e

LEMMA UnauthorizedStep ==
    ASSUME TabInv, NEW r \in requests, Unauthorized(r)
    PROVE  TabKept
<1>1. RowsGrow /\ row' \in [Match -> Row] /\ \A m \in Match : RowFits(row'[m])
    BY SameRows DEF Unauthorized, world
<1>2. RequestFits(r, row')
    BY DEF TabInv, Unauthorized, world
<1>3. ASSUME r.kind # "beacon"
      PROVE  /\ RequestFits(Answered(r, Failed("auth")), row')
             /\ Follows(Answered(r, Failed("auth")), r)
    BY <1>2, <1>3, FailedFits DEF Failure
<1>4. UNCHANGED << cookie, user, client, frames >> /\ faults' \in Nat
    BY DEF Unauthorized, world, TabInv
<1>5. CASE r.kind = "beacon"
  <2>1. requests' = requests \ {r}
    BY <1>5 DEF Unauthorized, Served
  <2> QED
    BY <1>1, <1>4, <1>5, <2>1, OneRequest
<1>6. CASE r.kind # "beacon"
  <2>1. requests' = (requests \ {r}) \cup {Answered(r, Failed("auth"))}
    BY <1>6 DEF Unauthorized, Served
  <2> QED
    BY <1>1, <1>3, <1>4, <1>6, <2>1, OneRequest
<1> QED
    BY <1>5, <1>6

LEMMA LostStep ==
    ASSUME TabInv, NEW r \in requests, Lost(r)
    PROVE  TabKept
<1>1. RowsGrow /\ row' \in [Match -> Row] /\ \A m \in Match : RowFits(row'[m])
    BY SameRows DEF Lost
<1>2. RequestFits(r, row')
    BY DEF TabInv, Lost
<1>3. ASSUME r.kind # "beacon"
      PROVE  /\ RequestFits(Answered(r, Failed("transient")), row')
             /\ Follows(Answered(r, Failed("transient")), r)
    BY <1>2, <1>3, FailedFits DEF Failure
<1>4. UNCHANGED << cookie, user, client, frames >> /\ faults' \in Nat
    BY DEF Lost, TabInv, Fault
<1>5. CASE r.kind = "beacon"
  <2>1. requests' = requests \ {r}
    BY <1>5 DEF Lost, Served
  <2> QED
    BY <1>1, <1>4, <1>5, <2>1, OneRequest
<1>6. CASE r.kind # "beacon"
  <2>1. requests' = (requests \ {r}) \cup {Answered(r, Failed("transient"))}
    BY <1>6 DEF Lost, Served
  <2> QED
    BY <1>1, <1>3, <1>4, <1>6, <2>1, OneRequest
<1> QED
    BY <1>5, <1>6

LEMMA ServeGetStep ==
    ASSUME TabInv, NEW r \in requests, ServeGet(r)
    PROVE  TabKept
<1>1. RowsGrow /\ row' \in [Match -> Row] /\ \A m \in Match : RowFits(row'[m])
    BY SameRows DEF ServeGet, world
<1>2. RequestFits(r, row') /\ r.kind = "get" /\ row' = row
    BY DEF TabInv, ServeGet, world
<1>3. r.match \in Match /\ row'[r.match].status # "none"
    BY <1>2 DEF RequestFits
<1> DEFINE q == [r EXCEPT !.at = "reading",
                          !.answer = Snapshot(r.match, RowTaken(row'[r.match]))]
<1>4. RequestFits(q, row') /\ Follows(q, r)
    BY <1>1, <1>2, <1>3, ReadingFits
<1>5. requests' = (requests \ {r}) \cup {q}
    BY <1>2 DEF ServeGet, Reading, RowRead, RowTaken
<1>6. UNCHANGED << cookie, user, client, frames >> /\ faults' \in Nat
    BY DEF ServeGet, world, TabInv
<1> HIDE DEF q
<1> QED
    BY <1>1, <1>4, <1>5, <1>6, OneRequest

LEMMA ReadRosterStep ==
    ASSUME TabInv, NEW r \in requests, ReadRoster(r)
    PROVE  TabKept
<1>1. RowsGrow /\ row' \in [Match -> Row] /\ \A m \in Match : RowFits(row'[m])
    BY SameRows DEF ReadRoster, world
<1>2. RequestFits(r, row') /\ r.at = "reading" /\ row' = row
    BY DEF TabInv, ReadRoster, world
<1> DEFINE m == r.answer.match
           view == RosterTaken(r.answer.view, row'[m])
           e == [r.answer EXCEPT !.view = view]
<1>3. /\ r.kind \in {"create", "get"} /\ ~IsFailure(r) /\ r.answer \in Event
      /\ r.answer.type = "match" /\ m \in Match /\ SaysTrue(r.answer, row'[m])
      /\ r.kind = "get" => m = r.match
    BY <1>2 DEF RequestFits, AnswerTypes
<1>4. view \in View /\ ViewTrue(view, row'[m])
    BY <1>1, <1>3, RosterTakenTrue DEF SaysTrue, Event
<1> HIDE DEF view
<1>5. e \in Event /\ e.type = "match" /\ e.match = m /\ e.view = view
    BY <1>3, <1>4 DEF Event
<1> HIDE DEF e, m
<1>6. SaysTrue(e, row'[m]) /\ e.type \in AnswerTypes(r.kind)
    BY <1>3, <1>4, <1>5 DEF SaysTrue, AnswerTypes
<1>7. /\ RequestFits([r EXCEPT !.at = "answered", !.answer = e], row')
      /\ Follows([r EXCEPT !.at = "answered", !.answer = e], r)
    BY <1>2, <1>3, <1>5, <1>6, AnsweredFits
<1>8. requests' = (requests \ {r}) \cup {[r EXCEPT !.at = "answered", !.answer = e]}
    BY <1>2, <1>3 DEF ReadRoster, Served, Answered, RosterRead, RosterTaken, e, view, m
<1>9. UNCHANGED << cookie, user, client, frames >> /\ faults' \in Nat
    BY DEF ReadRoster, world, TabInv
<1> QED
    BY <1>1, <1>7, <1>8, <1>9, OneRequest

LEMMA ServeResultStep ==
    ASSUME TabInv, NEW r \in requests, ServeResult(r)
    PROVE  TabKept
<1>1. RowsGrow /\ row' \in [Match -> Row] /\ \A m \in Match : RowFits(row'[m])
    BY SameRows DEF ServeResult, world
<1>2. RequestFits(r, row') /\ r.kind = "result" /\ row' = row
    BY DEF TabInv, ServeResult, world
<1>3. r.match \in Match
    BY <1>2 DEF RequestFits
<1> DEFINE e == IF row[r.match].status = "done" THEN News("result")
                ELSE Status("pending", row[r.match].status)
<1>4. /\ e \in Event /\ e.type \in {"result", "pending"}
      /\ e.type = "result" => row[r.match].status = "done"
      /\ e.type = "pending" => e.view.status = row[r.match].status
  <2>1. row[r.match].status \in MatchStatus \cup {"none"}
    BY <1>1, <1>2, <1>3 DEF Row
  <2>2. "result" \in EventType /\ "pending" \in EventType
    BY DEF EventType
  <2> QED
    BY <2>1, <2>2, NewsEvent, StatusEvent
<1>5. requests' = (requests \ {r}) \cup {[r EXCEPT !.at = "answered", !.answer = e]}
    BY <1>2 DEF ServeResult, Served, Answered
<1> HIDE DEF e
<1>6. SaysTrue(e, row'[r.match]) /\ e.type \in AnswerTypes(r.kind) /\ e.type # "match"
    BY <1>1, <1>2, <1>3, <1>4 DEF SaysTrue, AnswerTypes, Settled, RowFits
<1>7. /\ RequestFits([r EXCEPT !.at = "answered", !.answer = e], row')
      /\ Follows([r EXCEPT !.at = "answered", !.answer = e], r)
    BY <1>2, <1>4, <1>6, AnsweredFits
<1>8. UNCHANGED << cookie, user, client, frames >> /\ faults' \in Nat
    BY DEF ServeResult, world, TabInv
<1> QED
    BY <1>1, <1>5, <1>7, <1>8, OneRequest

(* CreateOrJoin: the player is in a match, or out of budget, or gets one.  *)
LEMMA ServeCreateStep ==
    ASSUME TabInv, NEW r \in requests, ServeCreate(r)
    PROVE  TabKept
<1>1. UNCHANGED << cookie, user, client, frames >> /\ faults' \in Nat
      /\ r.kind = "create" /\ RequestFits(r, row) /\ row \in [Match -> Row]
    BY DEF ServeCreate, TabInv
<1>2. ASSUME NEW m \in mineInPlay, UNCHANGED row, Reading(r, m)
      PROVE  TabKept
  <2>1. RowsGrow /\ row' \in [Match -> Row] /\ \A p \in Match : RowFits(row'[p])
    BY <1>2, SameRows
  <2>2. m \in Match /\ row[m].status # "none"
    BY <1>2 DEF mineInPlay
  <2> DEFINE q == [r EXCEPT !.at = "reading", !.answer = Snapshot(m, RowTaken(row'[m]))]
  <2>3. RequestFits(q, row') /\ Follows(q, r)
    BY <1>1, <1>2, <2>1, <2>2, ReadingFits
  <2>4. requests' = (requests \ {r}) \cup {q}
    BY <1>2 DEF Reading, RowRead, RowTaken
  <2> HIDE DEF q
  <2> QED
    BY <1>1, <2>1, <2>3, <2>4, OneRequest
<1>3. ASSUME UNCHANGED row, Served(r, Failed("budget"))
      PROVE  TabKept
  <2>1. RowsGrow /\ row' \in [Match -> Row] /\ \A p \in Match : RowFits(row'[p])
    BY <1>3, SameRows
  <2>2. /\ RequestFits(Answered(r, Failed("budget")), row')
        /\ Follows(Answered(r, Failed("budget")), r)
    BY <1>1, <1>3, FailedFits DEF Failure
  <2>3. requests' = (requests \ {r}) \cup {Answered(r, Failed("budget"))}
    BY <1>1, <1>3 DEF Served
  <2> QED
    BY <1>1, <2>1, <2>2, <2>3, OneRequest
<1>4. ASSUME NEW m \in Match, row[m].status = "none",
             NEW status \in {"open", "drawing"}, NEW joined \in BOOLEAN,
             joined <=> status = "drawing",
             row' = [row EXCEPT ![m] = [NoRow EXCEPT !.status = status, !.joined = joined]],
             Served(r, Snapshot(m, RosterRead(RowRead(m), m)'))
      PROVE  TabKept
  <2> DEFINE w == [NoRow EXCEPT !.status = status, !.joined = joined]
             view == RosterTaken(RowTaken(w), w)
             e == Snapshot(m, view)
  <2>1. /\ w \in Row /\ w.status = status /\ w.joined = joined /\ ~w.mine /\ ~w.theirs
    BY <1>4 DEF NoRow, Row, MatchStatus
  <2>2. row'[m] = w
    BY <1>1, <1>4
  <2>3. requests' = (requests \ {r}) \cup {Answered(r, e)}
    <3>1. Snapshot(m, RosterRead(RowRead(m), m)') = e
      BY <2>2 DEF RosterRead, RowRead, RowTaken, RosterTaken, NoView
    <3> QED
      BY <1>1, <1>4, <3>1 DEF Served
  <2>4. row' = [row EXCEPT ![m] = w]
    BY <1>4
  <2> HIDE DEF w
  <2>5. RowFits(w)
    BY <1>4, <2>1 DEF RowFits
  <2>6. Grows(row[m], w)
    <3>1. RowFits(row[m])
      BY DEF TabInv
    <3> QED
      BY <1>4, <2>1, <3>1 DEF Grows, RowFits
  <2>7. RowsGrow /\ row' \in [Match -> Row] /\ \A q \in Match : RowFits(row'[q])
    BY <2>1, <2>4, <2>5, <2>6, OneRow
  <2>8. view \in View /\ ViewTrue(view, w)
    BY <1>4, <2>1, <2>5, RowTakenTrue, RosterTakenTrue
  <2> HIDE DEF view
  <2>9. e \in Event /\ e.type = "match" /\ e.match = m /\ e.view = view
    BY <2>8, SnapshotEvent
  <2> HIDE DEF e
  <2>10. SaysTrue(e, row'[m]) /\ e.type \in AnswerTypes(r.kind)
    BY <1>1, <2>2, <2>8, <2>9 DEF SaysTrue, AnswerTypes
  <2>11. RequestFits(r, row')
    BY <1>1, <2>7, RequestStaysTrue DEF RowsGrow
  <2>12. /\ RequestFits([r EXCEPT !.at = "answered", !.answer = e], row')
         /\ Follows([r EXCEPT !.at = "answered", !.answer = e], r)
    BY <1>1, <2>9, <2>10, <2>11, AnsweredFits
  <2>13. requests' = (requests \ {r}) \cup {[r EXCEPT !.at = "answered", !.answer = e]}
    BY <2>3 DEF Answered
  <2> QED
    BY <1>1, <2>7, <2>12, <2>13, OneRequest
<1>5. CASE \E m \in mineInPlay : UNCHANGED row /\ Reading(r, m)
    BY <1>2, <1>5
<1>6. CASE UNCHANGED row /\ Served(r, Failed("budget"))
    BY <1>3, <1>6
<1>7. CASE \E m \in Match :
             /\ row[m].status = "none"
             /\ \/ row' = [row EXCEPT ![m] = [NoRow EXCEPT !.status = "open", !.joined = FALSE]]
                \/ row' = [row EXCEPT ![m] = [NoRow EXCEPT !.status = "drawing", !.joined = TRUE]]
             /\ Served(r, Snapshot(m, RosterRead(RowRead(m), m)'))
    BY <1>4, <1>7
<1> QED
    BY <1>5, <1>6, <1>7 DEF ServeCreate

LEMMA DrawnFits ==
    ASSUME NEW w \in Row, RowFits(w), w.status = "drawing", ~w.mine,
           NEW v, v = [w EXCEPT !.mine = TRUE, !.status = IF w.theirs THEN "judging" ELSE @]
    PROVE  /\ v \in Row /\ RowFits(v) /\ Grows(w, v)
           /\ v.mine /\ v.status \in {"drawing", "judging"}
           /\ v.status = "judging" => v.theirs
<1>1. /\ v \in Row /\ v.mine /\ v.theirs = w.theirs /\ v.joined = w.joined
      /\ v.status = IF w.theirs THEN "judging" ELSE "drawing"
    BY DEF Row, MatchStatus
<1>2. RowFits(v)
    BY <1>1 DEF RowFits
<1> QED
    BY <1>1, <1>2 DEF Grows, RowFits

LEMMA ServeSubmitStep ==
    ASSUME TabInv, NEW r \in requests, ServeSubmit(r)
    PROVE  TabKept
<1>1. /\ UNCHANGED << cookie, user, client, frames >> /\ faults' \in Nat
      /\ r.kind = "submit" /\ RequestFits(r, row) /\ row \in [Match -> Row]
    BY DEF ServeSubmit, TabInv
<1> DEFINE m == r.match
<1>2. m \in Match /\ row[m].status # "none" /\ row[m].joined /\ RowFits(row[m])
    BY <1>1 DEF RequestFits, TabInv
<1>3. CASE row[m].status = "drawing" /\ ~row[m].mine
  <2> DEFINE w == Drawn(m)
             e == Status("submit-ok", w.status)
  <2>1. row' = [row EXCEPT ![m] = w] /\ row'[m] = w
    BY <1>1, <1>2, <1>3 DEF ServeSubmit
  <2>2. requests' = (requests \ {r}) \cup {[r EXCEPT !.at = "answered", !.answer = e]}
    BY <1>1, <1>3, <2>1 DEF ServeSubmit, Served, Answered
  <2>3. /\ w \in Row /\ RowFits(w) /\ Grows(row[m], w) /\ w.mine
        /\ w.status \in {"drawing", "judging"} /\ (w.status = "judging" => w.theirs)
    BY <1>1, <1>2, <1>3, DrawnFits DEF Drawn
  <2> HIDE DEF w
  <2>4. RowsGrow /\ row' \in [Match -> Row] /\ \A q \in Match : RowFits(row'[q])
    BY <1>2, <2>1, <2>3, OneRow
  <2>5. e \in Event /\ e.type = "submit-ok" /\ e.view.status = w.status
    BY <2>3, StatusEvent DEF EventType, MatchStatus
  <2> HIDE DEF e
  <2>6. SaysTrue(e, row'[m]) /\ e.type \in AnswerTypes(r.kind)
    BY <1>1, <2>1, <2>3, <2>5 DEF SaysTrue, AnswerTypes, Settled
  <2>7. RequestFits(r, row')
    BY <1>1, <2>4, RequestStaysTrue DEF RowsGrow
  <2>8. /\ RequestFits([r EXCEPT !.at = "answered", !.answer = e], row')
        /\ Follows([r EXCEPT !.at = "answered", !.answer = e], r)
    BY <1>1, <2>5, <2>6, <2>7, AnsweredFits
  <2> QED
    BY <1>1, <2>2, <2>4, <2>8, OneRequest
<1>4. CASE ~(row[m].status = "drawing" /\ ~row[m].mine)
  <2>1. UNCHANGED row /\ Served(r, Failed("conflict"))
    BY <1>4 DEF ServeSubmit
  <2>2. RowsGrow /\ row' \in [Match -> Row] /\ \A p \in Match : RowFits(row'[p])
    BY <2>1, SameRows
  <2>3. Refusable(row'[m])
    BY <1>2, <1>4, <2>1 DEF Refusable, RowFits
  <2>4. /\ RequestFits(Answered(r, Failed("conflict")), row')
        /\ Follows(Answered(r, Failed("conflict")), r)
    BY <1>1, <2>1, <2>3, FailedFits DEF Failure
  <2>5. requests' = (requests \ {r}) \cup {Answered(r, Failed("conflict"))}
    BY <1>1, <2>1 DEF Served
  <2> QED
    BY <1>1, <2>2, <2>4, <2>5, OneRequest
<1> QED
    BY <1>3, <1>4

LEMMA ServeCancelStep ==
    ASSUME TabInv, NEW r \in requests, ServeCancel(r)
    PROVE  TabKept
<1>1. /\ UNCHANGED << cookie, user, client, frames >> /\ faults' \in Nat
      /\ r.kind \in {"cancel", "beacon"} /\ requests' = requests \ {r}
      /\ RequestFits(r, row) /\ row \in [Match -> Row]
    BY DEF ServeCancel, TabInv
<1> DEFINE m == r.match
<1>2. m \in Match /\ RowFits(row[m])
    BY <1>1 DEF RequestFits, TabInv
<1>3. CASE row[m].status = "open"
  <2> DEFINE w == [row[m] EXCEPT !.status = "abandoned"]
  <2>1. row' = [row EXCEPT ![m] = w]
    BY <1>1, <1>3 DEF ServeCancel
  <2>2. /\ w \in Row /\ w.status = "abandoned" /\ w.joined = row[m].joined
        /\ w.mine = row[m].mine /\ w.theirs = row[m].theirs
    BY <1>1, <1>2 DEF Row, MatchStatus
  <2> HIDE DEF w
  <2>3. RowFits(w) /\ Grows(row[m], w)
    BY <1>2, <1>3, <2>2 DEF RowFits, Grows
  <2>4. RowsGrow /\ row' \in [Match -> Row] /\ \A q \in Match : RowFits(row'[q])
    BY <1>2, <2>1, <2>2, <2>3, OneRow
  <2> QED
    BY <1>1, <2>4, OneRequest
<1>4. CASE row[m].status # "open"
  <2>1. UNCHANGED row
    BY <1>4 DEF ServeCancel
  <2>2. RowsGrow /\ row' \in [Match -> Row] /\ \A p \in Match : RowFits(row'[p])
    BY <2>1, SameRows
  <2> QED
    BY <1>1, <2>2, OneRequest
<1> QED
    BY <1>3, <1>4

(* The rest of the world. *)
LEMMA MatchMovesStep ==
    ASSUME TabInv, NEW m \in Match, MatchMoves(m)
    PROVE  TabKept
<1>1. row \in [Match -> Row] /\ row[m] \in Row /\ RowFits(row[m]) /\ faults' \in Nat
      /\ UNCHANGED << cookie, user, client, requests, frames >>
    BY DEF TabInv, MatchMoves
<1>2. PICK w : row' = [row EXCEPT ![m] = w] /\ w \in Row /\ RowFits(w) /\ Grows(row[m], w)
  <2>1. CASE row[m].status = "open"
             /\ row' = [row EXCEPT ![m].status = "drawing", ![m].joined = TRUE]
    <3> DEFINE w == [row[m] EXCEPT !.status = "drawing", !.joined = TRUE]
    <3>1. row' = [row EXCEPT ![m] = w]
      BY <1>1, <2>1
    <3>2. /\ w \in Row /\ w.status = "drawing" /\ w.joined
          /\ w.mine = row[m].mine /\ w.theirs = row[m].theirs
      BY <1>1 DEF Row, MatchStatus
    <3> HIDE DEF w
    <3>3. RowFits(w) /\ Grows(row[m], w)
      BY <1>1, <2>1, <3>2 DEF RowFits, Grows
    <3> QED
      BY <3>1, <3>2, <3>3
  <2>2. CASE row[m].status = "drawing" /\ ~row[m].mine /\ row' = [row EXCEPT ![m] = Drawn(m)]
    <3>1. Drawn(m) \in Row /\ RowFits(Drawn(m)) /\ Grows(row[m], Drawn(m))
      BY <1>1, <2>2, DrawnFits DEF Drawn
    <3> QED
      BY <2>2, <3>1
  <2>3. CASE /\ row[m].status = "drawing" /\ ~row[m].theirs
             /\ row' = [row EXCEPT ![m].theirs = TRUE,
                                   ![m].status = IF row[m].mine THEN "judging" ELSE @]
    <3> DEFINE status == IF row[m].mine THEN "judging" ELSE "drawing"
               w == [row[m] EXCEPT !.theirs = TRUE, !.status = status]
    <3>1. row' = [row EXCEPT ![m] = w]
      BY <1>1, <2>3
    <3>2. /\ w \in Row /\ w.status = status /\ w.theirs
          /\ w.mine = row[m].mine /\ w.joined = row[m].joined
      BY <1>1 DEF Row, MatchStatus
    <3> HIDE DEF w
    <3>3. RowFits(w) /\ Grows(row[m], w)
      BY <1>1, <2>3, <3>2 DEF RowFits, Grows
    <3> QED
      BY <3>1, <3>2, <3>3
  <2>4. ASSUME NEW status \in {"abandoned", "done"}, Moves(m, status),
               status = "abandoned" => ~row[m].mine /\ ~row[m].theirs,
               status = "done" => row[m].joined,
               row[m].status \in {"open", "drawing", "judging"},
               row[m].status = "judging" => status = "done"
        PROVE  \E w : row' = [row EXCEPT ![m] = w] /\ w \in Row /\ RowFits(w) /\ Grows(row[m], w)
    <3> DEFINE w == [row[m] EXCEPT !.status = status]
    <3>1. row' = [row EXCEPT ![m] = w]
      BY <1>1, <2>4 DEF Moves
    <3>2. /\ w \in Row /\ w.status = status /\ w.theirs = row[m].theirs
          /\ w.mine = row[m].mine /\ w.joined = row[m].joined
      BY <1>1, <2>4 DEF Row, MatchStatus
    <3> HIDE DEF w
    <3>3. RowFits(w) /\ Grows(row[m], w)
      BY <1>1, <2>4, <3>2 DEF RowFits, Grows
    <3> QED
      BY <3>1, <3>2, <3>3
  <2>5. CASE row[m].status = "open" /\ Moves(m, "abandoned")
    BY <1>1, <2>4, <2>5 DEF RowFits
  <2>6. CASE row[m].status = "drawing"
             /\ Moves(m, IF row[m].mine \/ row[m].theirs THEN "done" ELSE "abandoned")
    BY <1>1, <2>4, <2>6 DEF RowFits
  <2>7. CASE row[m].status = "judging" /\ Moves(m, "done")
    BY <1>1, <2>4, <2>7 DEF RowFits
  <2> QED
    BY <2>1, <2>2, <2>3, <2>5, <2>6, <2>7 DEF MatchMoves
<1>3. RowsGrow /\ row' \in [Match -> Row] /\ \A q \in Match : RowFits(row'[q])
    BY <1>2, OneRow
<1> QED
    BY <1>1, <1>3, RowsOnly

LEMMA SessionDiesStep ==
    ASSUME TabInv, SessionDies
    PROVE  TabKept
<1> SUFFICES TabInv'
    BY SameDuel DEF TabKept, SessionDies
<1>1. /\ client' = client /\ requests' = requests /\ frames' = frames /\ row' = row
      /\ user' = user /\ cookie' = FALSE /\ faults' \in Nat
    BY DEF SessionDies, Fault, TabInv
<1> QED
    BY <1>1 DEF TabInv, LoopFits, Awaited, Polls, IsPoll, Over

-----------------------------------------------------------------------------
(* The tab moves on in its round.                                          *)

World == row' = row /\ cookie' \in BOOLEAN /\ user' \in BOOLEAN /\ faults' \in Nat

LEMMA FoldedStep ==
    ASSUME TabInv, World, Folded(client, client', row), client'.duel.match = client.duel.match,
           frames' \subseteq frames, frames' # {} => client'.socket # "closed",
           Polls(requests') = Polls(requests),
           \A r \in requests' : RequestFits(r, row),
           Awaited(requests', client.duel.match)
    PROVE  TabKept
<1>1. LoopFits(client', requests')
  <2>1. Goes(client) \/ Idle(client)
    BY DEF TabInv, LoopFits, Goes, Idle
  <2>2. Idle(client) => Idle(client')
    BY DEF Folded, Idle, Over
  <2>3. Goes(client') \/ Idle(client')
    BY <2>1, <2>2 DEF Folded
  <2>4. client'.inFlight = client.inFlight
    BY DEF Folded
  <2>5. client.inFlight => \E r \in requests' : Polls(requests') = {r}
    BY DEF TabInv, LoopFits, Polls
  <2>6. ~client.inFlight => Polls(requests') = {}
    BY DEF TabInv, LoopFits
  <2> QED
    BY <2>3, <2>4, <2>5, <2>6 DEF LoopFits, Goes, Idle
<1>2. TabFits(client', row)
    BY DEF Folded
<1>3. TabInv'
    BY <1>1, <1>2 DEF TabInv, World

(* The requests and the page as they are, or with one more request. *)
<1> QED
    BY <1>3 DEF TabKept, PhaseKept, Folded

LEMMA LiveMatch ==
    ASSUME TabInv
    PROVE  /\ client \in Client /\ TabFits(client, row) /\ DuelFits(client.duel, row)
           /\ client.duel \in DuelState
           /\ client.duel.match # NoMatch =>
                client.duel.match \in Match /\ RowFits(row[client.duel.match])
                /\ row[client.duel.match].status # "none"
BY ClientFields DEF TabInv, TabFits, DuelFits, DuelState

LEMMA SameRequests ==
    ASSUME TabInv
    PROVE  /\ Polls(requests) = Polls(requests)
           /\ \A r \in requests : RequestFits(r, row)
           /\ Awaited(requests, client.duel.match)
BY DEF TabInv

LEMMA AskFits ==
    ASSUME NEW rs, NEW m \in Match \cup {NoMatch}, NEW kind \in Kind,
           kind # "create" => m \in Match /\ rs[m].status # "none",
           kind = "create" => m = NoMatch,
           kind = "submit" => rs[m].joined
    PROVE  /\ RequestFits(Ask(kind, m), rs)
           /\ Ask(kind, m).kind = kind /\ Ask(kind, m).match = m /\ ~Ask(kind, m).stale
<1> DEFINE r == Ask(kind, m)
<1>1. News("offline") \in Event
    BY NewsEvent DEF EventType
<1>2. /\ r \in Request /\ r.kind = kind /\ r.match = m /\ r.at = "sent"
      /\ r.answer = News("offline") /\ r.stale = FALSE
    BY <1>1 DEF Ask, Request
<1> HIDE DEF r
<1>3. RequestFits(r, rs)
    BY <1>1, <1>2 DEF RequestFits
<1> QED
    BY <1>2, <1>3 DEF r

LEMMA OnlineStep ==
    ASSUME TabInv, Online
    PROVE  TabKept
<1>1. World /\ client' = pollNow(client) /\ requests' = requests /\ frames' = frames
    BY DEF Online, world, World, TabInv
<1>2. Folded(client, client', row) /\ client'.duel = client.duel
    BY <1>1, LiveMatch, pollNowFolds
<1>3. client'.socket = client.socket
    BY LiveMatch, <1>1 DEF pollNow, Client
<1> QED
    BY <1>1, <1>2, <1>3, SameRequests, FoldedStep DEF TabInv

LEMMA BeginStep ==
    ASSUME TabInv, Begin
    PROVE  TabKept
<1>1. /\ World /\ requests' = requests /\ frames' = frames
      /\ client' = [client EXCEPT !.signingIn = TRUE] /\ client \in Client
    BY LiveMatch DEF Begin, world, World, TabInv
<1>2. /\ client' \in Client /\ client'.duel = client.duel /\ client'.timer = client.timer
      /\ client'.inFlight = client.inFlight /\ client'.socket = client.socket
      /\ client'.disposed = client.disposed /\ client'.signingIn = TRUE
    BY <1>1 DEF Client
<1>3. TabFits(client', row)
    BY <1>2, LiveMatch DEF TabFits
<1>4. Folded(client, client', row)
    BY <1>2, <1>3, LiveMatch, SamePhase DEF Folded, Goes
<1> QED
    BY <1>1, <1>2, <1>4, SameRequests, FoldedStep DEF TabInv

LEMMA SocketOpensStep ==
    ASSUME TabInv, SocketOpens
    PROVE  TabKept
<1>1. /\ World /\ requests' = requests /\ frames' = frames /\ client.socket = "opening"
      /\ client' = [client EXCEPT !.socket = "open"] /\ client \in Client
    BY LiveMatch DEF SocketOpens, world, World, TabInv
<1>2. /\ client' \in Client /\ client'.duel = client.duel /\ client'.timer = client.timer
      /\ client'.inFlight = client.inFlight /\ client'.socket = "open"
      /\ client'.disposed = client.disposed /\ client'.signingIn = client.signingIn
    BY <1>1 DEF Client
<1>3. TabFits(client', row)
    BY <1>1, <1>2, LiveMatch DEF TabFits
<1>4. LoopFits(client', requests)
    BY <1>2 DEF TabInv, LoopFits, Over
<1>5. TabInv'
    BY <1>1, <1>2, <1>3, <1>4 DEF TabInv, World
<1> QED
    BY <1>5, <1>2, SameDuel DEF TabKept

LEMMA ReconnectStep ==
    ASSUME TabInv, Reconnect
    PROVE  TabKept
<1>1. /\ World /\ requests' = requests /\ frames' = frames /\ client \in Client
      /\ client' = IF shouldReconnect(client) THEN openSocket(client)
                   ELSE [client EXCEPT !.retry = FALSE]
    BY LiveMatch DEF Reconnect, world, World, TabInv
<1>2. /\ client' \in Client /\ client'.duel = client.duel /\ client'.timer = client.timer
      /\ client'.inFlight = client.inFlight
      /\ client'.disposed = client.disposed /\ client'.signingIn = client.signingIn
      /\ \/ client'.socket = client.socket
         \/ client'.socket = "opening" /\ client.duel.match # NoMatch
    BY <1>1 DEF Client, openSocket, shouldReconnect
<1>3. TabFits(client', row)
    BY <1>2, LiveMatch DEF TabFits
<1>4. LoopFits(client', requests)
    BY <1>2 DEF TabInv, LoopFits, Over
<1>5. TabInv'
    BY <1>1, <1>2, <1>3, <1>4 DEF TabInv, World
<1> QED
    BY <1>5, <1>2, SameDuel DEF TabKept

LEMMA SocketClosesStep ==
    ASSUME TabInv, SocketCloses
    PROVE  TabKept
<1> DEFINE c == [client EXCEPT !.socket = "closed"]
<1>1. World /\ requests' = requests
    BY DEF SocketCloses, World, Fault, TabInv
<1>2. /\ c \in Client /\ c.duel = client.duel /\ c.timer = client.timer
      /\ c.inFlight = client.inFlight /\ c.socket = "closed"
      /\ c.disposed = client.disposed /\ c.signingIn = client.signingIn
    BY LiveMatch DEF Client
<1>3. Become(recoverAuth(c)) \/ Become([pollNow(c) EXCEPT !.retry = shouldReconnect(c)])
    BY DEF SocketCloses
<1>4. shouldReconnect(c) \in BOOLEAN
    BY DEF shouldReconnect
<1> HIDE DEF c
<1>5. TabFits(c, row)
    BY <1>2, LiveMatch DEF TabFits
<1>6. Folded(client, c, row)
    BY <1>2, <1>5, LiveMatch, SamePhase DEF Folded, Goes
<1>7. CASE Become(recoverAuth(c))
  <2>1. Folded(c, recoverAuth(c), row)
    BY <1>5, recoverAuthFolds
  <2>2. recoverAuth(c).duel = c.duel /\ recoverAuth(c).socket = "closed"
    BY <1>2 DEF recoverAuth, stopPolling, Client
  <2>3. client' = recoverAuth(c) /\ frames' = {}
    BY <1>7, <2>2 DEF Become
  <2>4. Folded(client, client', row)
    BY <1>2, <1>6, <2>1, <2>3, FoldedTwice
  <2> QED
    BY <1>1, <1>2, <2>2, <2>3, <2>4, SameRequests, FoldedStep
<1>8. CASE Become([pollNow(c) EXCEPT !.retry = shouldReconnect(c)])
  <2> DEFINE p == pollNow(c)
             d == [p EXCEPT !.retry = shouldReconnect(c)]
  <2>1. Folded(c, p, row) /\ p.duel = c.duel
    BY <1>5, pollNowFolds
  <2>2. p \in Client /\ p.socket = "closed"
    BY <1>2 DEF pollNow, Client
  <2> HIDE DEF p
  <2>3. /\ d \in Client /\ d.duel = p.duel /\ d.timer = p.timer /\ d.inFlight = p.inFlight
        /\ d.socket = "closed" /\ d.disposed = p.disposed /\ d.signingIn = p.signingIn
    BY <1>4, <2>2 DEF Client
  <2>4. client' = d /\ frames' = {}
    BY <1>8, <2>3 DEF Become, p
  <2> HIDE DEF d
  <2>5. TabFits(d, row)
    BY <2>1, <2>2, <2>3 DEF Folded, TabFits
  <2>6. Folded(p, d, row)
    BY <1>2, <2>1, <2>3, <2>5, LiveMatch, SamePhase DEF Folded, Goes
  <2>7. Folded(client, p, row)
    BY <1>2, <1>6, <2>1, FoldedTwice
  <2>8. Folded(client, client', row)
    BY <2>3, <2>4, <2>6, <2>7, FoldedTwice
  <2> QED
    BY <1>1, <1>2, <2>1, <2>3, <2>4, <2>8, SameRequests, FoldedStep
<1> QED
    BY <1>3, <1>7, <1>8

-----------------------------------------------------------------------------
(* The frames.                                                             *)

LEMMA PushStep ==
    ASSUME TabInv, Push
    PROVE  TabKept
<1> SUFFICES TabInv'
    BY SameDuel DEF TabKept, Push
<1> DEFINE m == client.duel.match
           w == row[m]
<1>1. /\ World /\ client' = client /\ requests' = requests /\ client.socket = "open"
    BY DEF Push, world, World, TabInv
<1>2. PICK f \in Pushable(m) : frames' = frames \cup {f}
    BY DEF Push
<1>3. m \in Match /\ w \in Row /\ RowFits(w) /\ w.status # "none"
    BY <1>1, LiveMatch DEF TabInv, TabFits
<1>4. FrameFits(f, m, row)
  <2>1. CASE f = [event |-> Snapshot(m, RowRead(m)), at |-> "reading"]
    <3>1. RowRead(m) = RowTaken(w)
      BY DEF RowRead, RowTaken
    <3>2. RowTaken(w) \in View /\ ViewTrue(RowTaken(w), w)
      BY <1>3, RowTakenTrue
    <3> DEFINE e == Snapshot(m, RowTaken(w))
    <3>3. e \in Event /\ e.type = "match" /\ e.match = m /\ e.view = RowTaken(w)
      BY <1>3, <3>2, SnapshotEvent
    <3>4. f = [event |-> e, at |-> "reading"]
      BY <2>1, <3>1
    <3> HIDE DEF e, m
    <3>5. SaysTrue(e, row[m])
      BY <3>2, <3>3 DEF SaysTrue
    <3> QED
      BY <3>3, <3>4, <3>5 DEF FrameFits, Frame, FrameTypes
  <2>2. ASSUME NEW type \in FrameTypes \ {"match"},
               f = [event |-> News(type), at |-> "answered"],
               type = "i-submitted" => w.mine, type = "player-submitted" => w.theirs,
               type = "judging" => w.mine /\ w.theirs,
               type = "result" => w.status = "done",
               type = "abandoned" => w.status = "abandoned"
        PROVE  FrameFits(f, m, row)
    <3> DEFINE e == News(type)
    <3>1. e \in Event /\ e.type = type
      BY NewsEvent DEF FrameTypes, EventType
    <3>2. f = [event |-> e, at |-> "answered"]
      BY <2>2
    <3> HIDE DEF e
    <3>3. w.mine /\ w.theirs => Settled(w)
      BY <1>3 DEF Settled, RowFits, Row, MatchStatus
    <3>4. SaysTrue(e, w)
      BY <2>2, <3>1, <3>3 DEF SaysTrue, FrameTypes
    <3> QED
      BY <2>2, <3>1, <3>2, <3>4 DEF FrameFits, Frame, FrameTypes
  <2>3. \/ f = [event |-> Snapshot(m, RowRead(m)), at |-> "reading"]
        \/ w.mine /\ f = [event |-> News("i-submitted"), at |-> "answered"]
        \/ w.theirs /\ f = [event |-> News("player-submitted"), at |-> "answered"]
        \/ w.mine /\ w.theirs /\ f = [event |-> News("judging"), at |-> "answered"]
        \/ w.status = "done" /\ f = [event |-> News("result"), at |-> "answered"]
        \/ w.status = "abandoned" /\ f = [event |-> News("abandoned"), at |-> "answered"]
    BY <1>2 DEF Pushable
  <2> HIDE DEF w, m
  <2> QED
    BY <2>1, <2>2, <2>3 DEF FrameTypes
<1> QED
    BY <1>1, <1>2, <1>4 DEF TabInv, World, LoopFits, Over

LEMMA ReadFrameRosterStep ==
    ASSUME TabInv, NEW f \in frames, ReadFrameRoster(f)
    PROVE  TabKept
<1> SUFFICES TabInv'
    BY SameDuel DEF TabKept, ReadFrameRoster
<1> DEFINE m == client.duel.match
           view == RosterTaken(f.event.view, row[f.event.match])
           e == [f.event EXCEPT !.view = view]
           g == [f EXCEPT !.at = "answered", !.event = e]
<1>1. /\ World /\ client' = client /\ requests' = requests /\ client.socket # "closed"
    BY DEF ReadFrameRoster, world, World, TabInv
<1>2. m \in Match /\ row[m] \in Row
    BY <1>1, LiveMatch DEF TabInv, TabFits
<1>3. /\ f \in Frame /\ f.event \in Event /\ f.event.type = "match" /\ f.event.match = m
      /\ SaysTrue(f.event, row[m])
    BY DEF TabInv, FrameFits, Frame, ReadFrameRoster
<1>4. view \in View /\ ViewTrue(view, row[m])
    BY <1>2, <1>3, RosterTakenTrue DEF SaysTrue, Event
<1>5. frames' = (frames \ {f}) \cup {g}
    BY <1>3 DEF ReadFrameRoster, RosterRead, RosterTaken, Frame, Event
<1> HIDE DEF view
<1>6. e \in Event /\ e.type = "match" /\ e.match = m /\ e.view = view
    BY <1>3, <1>4 DEF Event
<1> HIDE DEF e, m
<1>7. g \in Frame /\ g.event = e /\ g.at = "answered"
    BY <1>3, <1>6 DEF Frame
<1>8. SaysTrue(e, row[m])
    BY <1>4, <1>6 DEF SaysTrue
<1> HIDE DEF g
<1>9. FrameFits(g, m, row)
    BY <1>6, <1>7, <1>8 DEF FrameFits, FrameTypes
<1> QED
    BY <1>1, <1>5, <1>9 DEF TabInv, World, LoopFits, Over, m

LEMMA DeliverStep ==
    ASSUME TabInv, NEW f \in frames, Deliver(f)
    PROVE  TabKept
<1> DEFINE m == client.duel.match
<1>1. /\ World /\ client' = dispatch(client, f.event) /\ requests' = requests
      /\ frames' \subseteq frames /\ (frames' # {} => client'.socket # "closed")
      /\ client.socket # "closed"
    BY DEF Deliver, world, World, TabInv
<1>2. m \in Match /\ m # NoMatch /\ RowFits(row[m])
    BY <1>1, LiveMatch DEF TabInv, TabFits
<1>3. FrameFits(f, m, row) /\ f.event \in Event
    BY DEF TabInv, FrameFits, Frame
<1>4. NewsFits(f.event, client.duel, row)
    BY <1>2, <1>3 DEF FrameFits, NewsFits, FrameTypes, SaysTrue
<1>5. Folded(client, client', row)
    BY <1>1, <1>2, <1>4, LiveMatch, dispatchFolds
<1>6. client'.duel.match = m
    BY <1>2, <1>5 DEF Folded
<1> QED
    BY <1>1, <1>5, <1>6, SameRequests, FoldedStep

-----------------------------------------------------------------------------
(* The player, and the timer.                                              *)

LEMMA OneMoreRequest ==
    ASSUME TabInv, NEW kind \in {"submit", "cancel", "beacon"}, client.duel.match # NoMatch,
           kind = "submit" => row[client.duel.match].joined,
           requests' = requests \cup {Ask(kind, client.duel.match)}
    PROVE  /\ Polls(requests') = Polls(requests)
           /\ \A r \in requests' : RequestFits(r, row)
           /\ Awaited(requests', client.duel.match)
<1> DEFINE q == Ask(kind, client.duel.match)
<1>1. RequestFits(q, row) /\ q.kind = kind /\ q.match = client.duel.match /\ ~q.stale
    BY LiveMatch, AskFits DEF Kind
<1> HIDE DEF q
<1>2. requests' = requests \cup {q}
    BY DEF q
<1> QED
    BY <1>1, <1>2 DEF TabInv, Polls, IsPoll, Awaited

LEMMA BecomeFrames ==
    ASSUME TabInv, NEW c, Become(c)
    PROVE  client' = c /\ frames' \subseteq frames /\ (frames' # {} => c.socket # "closed")
           /\ (frames' # {} => client.socket # "closed")
BY DEF Become, TabInv

LEMMA SubmitStep ==
    ASSUME TabInv, Submit
    PROVE  TabKept
<1> DEFINE e == News("submit")
<1>1. /\ World /\ Become(dispatch(client, e)) /\ client.duel.phase = "drawing"
      /\ requests' = requests \cup {Ask("submit", client.duel.match)}
    BY DEF Submit, world, World, TabInv
<1>2. client.duel.match # NoMatch /\ RowFits(row[client.duel.match])
      /\ row[client.duel.match].joined
    BY <1>1, LiveMatch DEF DuelFits
<1>3. e \in Event /\ e.type = "submit"
    BY NewsEvent DEF EventType
<1> HIDE DEF e
<1>4. NewsFits(e, client.duel, row)
    BY <1>2, <1>3 DEF NewsFits, SaysTrue
<1>5. Folded(client, dispatch(client, e), row)
    BY <1>2, <1>4, LiveMatch, dispatchFolds
<1>6. dispatch(client, e).duel.match = client.duel.match
    BY <1>2, <1>5 DEF Folded
<1> QED
    BY <1>1, <1>2, <1>5, <1>6, BecomeFrames, OneMoreRequest, FoldedStep

LEMMA LeavesOwnMatch ==
    ASSUME TabInv
    PROVE  /\ Folded(client, leaveQueue(client), row)
           /\ leaveQueue(client).duel.match = client.duel.match
<1>1. CASE inQueue(client)
  <2>1. leaveQueue(client) = dispatch(client, End("left"))
    BY <1>1 DEF leaveQueue
  <2> QED
    BY <2>1, LiveMatch, EndFolds
<1>2. CASE ~inQueue(client)
  <2>1. leaveQueue(client) = client
    BY <1>2 DEF leaveQueue
  <2> QED
    BY <2>1, LiveMatch, FoldedNothing
<1> QED
    BY <1>1, <1>2

LEMMA LeaveQueueStep ==
    ASSUME TabInv, LeaveQueue
    PROVE  TabKept
<1>1. /\ World /\ Become(leaveQueue(client)) /\ client.duel.match # NoMatch
      /\ requests' = requests \cup {Ask("cancel", client.duel.match)}
    BY DEF LeaveQueue, Canceling, inQueue, world, World, TabInv
<1> QED
    BY <1>1, LeavesOwnMatch, BecomeFrames, OneMoreRequest, FoldedStep

LEMMA PageHideStep ==
    ASSUME TabInv, PageHide
    PROVE  TabKept
<1>1. /\ World /\ client' = client /\ frames' = frames /\ client.duel.match # NoMatch
      /\ requests' = requests \cup {Ask("beacon", client.duel.match)}
    BY DEF PageHide, Canceling, inQueue, world, World, TabInv
<1>2. Folded(client, client', row)
    BY <1>1, LiveMatch, FoldedNothing
<1>3. frames' # {} => client'.socket # "closed"
    BY <1>1 DEF TabInv
<1> QED
    BY <1>1, <1>2, <1>3, OneMoreRequest, FoldedStep

(* The replies of the last round are out of date. *)
LEMMA AgedFits ==
    ASSUME TabInv
    PROVE  /\ Polls(Aged) = {} /\ (\A r \in Aged : RequestFits(r, row) /\ r.stale)
<1>1. ASSUME NEW r \in requests
      PROVE  RequestFits([r EXCEPT !.stale = TRUE], row) /\ [r EXCEPT !.stale = TRUE].stale
  <2> DEFINE q == [r EXCEPT !.stale = TRUE]
  <2>1. RequestFits(r, row) /\ r \in Request
    BY DEF TabInv, RequestFits
  <2>2. /\ q \in Request /\ q.kind = r.kind /\ q.match = r.match /\ q.at = r.at
        /\ q.answer = r.answer /\ q.stale = TRUE
    BY <2>1 DEF Request
  <2> HIDE DEF q
  <2>3. IsFailure(q) = IsFailure(r)
    BY <2>2 DEF IsFailure
  <2>4. RequestFits(q, row)
    BY <2>1, <2>2, <2>3 DEF RequestFits
  <2> QED
    BY <2>2, <2>4 DEF q
<1>2. \A r \in Aged : RequestFits(r, row) /\ r.stale
    BY <1>1 DEF Aged
<1> QED
    BY <1>2 DEF Polls

LEMMA NewRound ==
    ASSUME TabInv, World, PhaseKept, TabFits(client', row), ~client'.inFlight, frames' = {},
           Goes(client') \/ Idle(client'),
           Polls(requests') = {}, \A r \in requests' : RequestFits(r, row),
           \A r \in requests' : r.stale \/ r.kind \in {"cancel", "beacon"}
    PROVE  TabKept
<1>1. LoopFits(client', requests')
    BY DEF LoopFits, Goes, Idle
<1>2. Awaited(requests', client'.duel.match)
    BY DEF Awaited, IsPoll
<1>3. TabInv'
    BY <1>1, <1>2 DEF TabInv, World
<1> QED
    BY <1>3 DEF TabKept

LEMMA SignedInFits ==
    ASSUME TabInv
    PROVE  LET c == [client EXCEPT !.signingIn = FALSE]
           IN  TabFits(c, row) /\ c.duel = client.duel
<1> DEFINE c == [client EXCEPT !.signingIn = FALSE]
<1>1. /\ c \in Client /\ c.duel = client.duel /\ c.timer = client.timer
      /\ c.inFlight = client.inFlight /\ c.socket = client.socket
    BY LiveMatch DEF Client
<1> HIDE DEF c
<1>2. TabFits(c, row)
    BY <1>1, LiveMatch DEF TabFits
<1> QED
    BY <1>1, <1>2 DEF c

LEMMA StartStep ==
    ASSUME TabInv, World, NEW c, TabFits(c, row), c.duel = client.duel,
           NEW signedIn \in BOOLEAN, BecomeNew(start(c, signedIn))
    PROVE  TabKept
<1> DEFINE d == start(c, signedIn)
<1>1. /\ TabFits(d, row) /\ ~d.inFlight /\ d.socket = "closed" /\ (Goes(d) \/ Idle(d))
      /\ d.duel = initialDuel \/ Onward(c.duel, d.duel)
    BY LiveMatch, startFits
<1> HIDE DEF d
<1>2. client' = d /\ frames' = {} /\ requests' = Aged
    BY <1>1 DEF BecomeNew, Become, d
<1>3. PhaseKept
    BY <1>1, <1>2 DEF PhaseKept
<1> QED
    BY <1>1, <1>2, <1>3, AgedFits, NewRound

LEMMA EntersSignedInStep ==
    ASSUME TabInv, EntersSignedIn
    PROVE  TabKept
<1>1. World /\ BecomeNew(start([client EXCEPT !.signingIn = FALSE], TRUE))
    BY DEF EntersSignedIn, World, TabInv
<1> QED
    BY <1>1, SignedInFits, StartStep

LEMMA DeclinesStep ==
    ASSUME TabInv, Declines
    PROVE  TabKept
<1>1. World /\ BecomeNew(start([client EXCEPT !.signingIn = FALSE], FALSE))
    BY DEF Declines, start, World, world, TabInv
<1> QED
    BY <1>1, SignedInFits, StartStep

LEMMA PlayAgainStep ==
    ASSUME TabInv, PlayAgain
    PROVE  TabKept
<1>1. World /\ BecomeNew(start(client, user)) /\ user \in BOOLEAN
    BY DEF PlayAgain, World, world, TabInv
<1> QED
    BY <1>1, LiveMatch, StartStep

LEMMA UnmountStep ==
    ASSUME TabInv, Unmount
    PROVE  TabKept
<1> DEFINE left == leaveQueue(client)
           c == [left EXCEPT !.disposed = TRUE]
           d == reset(c)
<1>1. World /\ Become(d) /\ requests' = Aged \cup Canceling(client, "cancel")
    BY DEF Unmount, World, world, TabInv
<1>2. Folded(client, left, row)
    BY LeavesOwnMatch
<1> HIDE DEF left
<1>3. left \in Client
    BY <1>2 DEF Folded, TabFits
<1>4. /\ c \in Client /\ c.duel = left.duel /\ c.timer = left.timer
      /\ c.inFlight = left.inFlight /\ c.socket = left.socket /\ c.disposed = TRUE
    BY <1>3 DEF Client
<1> HIDE DEF c
<1>5. TabFits(c, row)
    BY <1>2, <1>4 DEF Folded, TabFits
<1>6. TabFits(d, row) /\ ~d.inFlight /\ d.disposed /\ d.socket = "closed" /\ d.duel = left.duel
    BY <1>4, <1>5, resetFits
<1> HIDE DEF d
<1>7. client' = d /\ frames' = {}
    BY <1>1, <1>6 DEF Become
<1>8. \A r \in Canceling(client, "cancel") : RequestFits(r, row) /\ r.kind = "cancel"
  <2>1. inQueue(client) =>
           LET r == Ask("cancel", client.duel.match) IN RequestFits(r, row) /\ r.kind = "cancel"
    BY LiveMatch, AskFits DEF inQueue, Kind
  <2> QED
    BY <2>1 DEF Canceling
<1>9. Polls(requests') = {}
    BY <1>1, <1>8, AgedFits DEF Polls, IsPoll
<1>10. PhaseKept
    BY <1>2, <1>6, <1>7 DEF PhaseKept, Folded
<1> QED
    BY <1>1, <1>6, <1>7, <1>8, <1>9, <1>10, AgedFits, NewRound DEF Idle

LEMMA TickStep ==
    ASSUME TabInv, Tick
    PROVE  TabKept
<1> DEFINE c == [client EXCEPT !.timer = FALSE]
           kind == PollKind(client.duel)
           q == Ask(kind, client.duel.match)
<1>1. /\ World /\ frames' = frames /\ client.timer /\ ~client.inFlight
    BY DEF Tick, World, world, TabInv, TabFits
<1>2. /\ c \in Client /\ c.duel = client.duel /\ c.timer = FALSE /\ c.inFlight = FALSE
      /\ c.socket = client.socket /\ c.disposed = client.disposed
      /\ c.signingIn = client.signingIn
    BY <1>1, LiveMatch DEF Client
<1> SUFFICES TabInv'
  <2>1. client'.duel = client.duel
    BY <1>2, LiveMatch DEF Tick, Client
  <2> QED
    BY <2>1, SameDuel DEF TabKept
<1>3. CASE c.disposed \/ Over(c)
  <2>1. client' = c /\ requests' = requests
    BY <1>3 DEF Tick
  <2> HIDE DEF c
  <2>2. TabFits(c, row)
    BY <1>2, LiveMatch DEF TabFits
  <2>3. LoopFits(c, requests)
    BY <1>1, <1>2, <1>3 DEF TabInv, LoopFits
  <2> QED
    BY <1>1, <1>2, <2>1, <2>2, <2>3 DEF TabInv, World
<1>4. CASE ~(c.disposed \/ Over(c))
  <2> DEFINE d == [c EXCEPT !.inFlight = TRUE]
  <2>1. client' = d /\ requests' = requests \cup {q}
    BY <1>2, <1>4 DEF Tick
  <2> HIDE DEF c
  <2>2. /\ d \in Client /\ d.duel = client.duel /\ d.timer = FALSE /\ d.inFlight = TRUE
        /\ d.socket = client.socket
    BY <1>2 DEF Client
  <2> HIDE DEF d
  <2>3. TabFits(d, row)
    BY <2>2, LiveMatch DEF TabFits
  <2>4. /\ kind \in {"create", "get", "result"}
        /\ (kind = "create" <=> client.duel.match = NoMatch)
    BY DEF PollKind
  <2> HIDE DEF kind
  <2>5. RequestFits(q, row) /\ q.kind = kind /\ q.match = client.duel.match /\ ~q.stale
    BY <2>4, LiveMatch, AskFits DEF Kind, DuelState
  <2> HIDE DEF q
  <2>6. Polls(requests) = {}
    BY <1>1 DEF TabInv, LoopFits
  <2>7. Polls(requests') = {q}
    BY <2>1, <2>4, <2>5, <2>6 DEF Polls, IsPoll
  <2>8. LoopFits(d, requests')
    BY <2>1, <2>2, <2>7 DEF LoopFits
  <2>9. Awaited(requests', client.duel.match)
    BY <2>1, <2>5 DEF TabInv, Awaited
  <2>10. \A r \in requests' : RequestFits(r, row)
    BY <2>1, <2>5 DEF TabInv
  <2> QED
    BY <1>1, <2>1, <2>2, <2>3, <2>8, <2>9, <2>10 DEF TabInv, World
<1> QED
    BY <1>3, <1>4

-----------------------------------------------------------------------------
(* A reply is read.                                                        *)

LEMMA OneLess ==
    ASSUME TabInv, NEW r \in requests, requests' = requests \ {r}
    PROVE  /\ \A x \in requests' : RequestFits(x, row)
           /\ Awaited(requests', client.duel.match)
           /\ IF r \in Polls(requests) THEN client.inFlight /\ Polls(requests') = {}
              ELSE Polls(requests') = Polls(requests)
BY DEF TabInv, LoopFits, Awaited, Polls

LEMMA PollReplyStep ==
    ASSUME TabInv, World, NEW r \in Polls(requests), requests' = requests \ {r},
           NEW d, Become(d), TabFits(d, row), ~d.inFlight, Goes(d) \/ Idle(d),
           Onward(client.duel, d.duel),
           client.duel.match # NoMatch => d.duel.match = client.duel.match
    PROVE  TabKept
<1>1. client' = d /\ frames' \subseteq frames /\ (frames' # {} => d.socket # "closed")
      /\ (frames' # {} => client.socket # "closed")
    BY BecomeFrames
<1>2. (\A x \in requests' : RequestFits(x, row)) /\ Polls(requests') = {}
    BY OneLess DEF Polls
<1>3. frames' # {} => d.duel.match = client.duel.match
    BY <1>1, LiveMatch DEF TabFits
<1>4. LoopFits(d, requests')
    BY <1>2 DEF LoopFits, Goes, Idle
<1>5. Awaited(requests', d.duel.match)
  <2>1. Awaited(requests', client.duel.match)
    BY OneLess DEF Polls
  <2>2. \A x \in requests' : ~x.stale => ~IsPoll(x)
    BY <1>2 DEF Polls
  <2>3. \A x \in requests' : x.kind = "submit" => x.match # NoMatch
    BY <1>2, MatchAssumption DEF RequestFits
  <2> QED
    BY <2>1, <2>2, <2>3 DEF Awaited
<1>6. TabInv'
    BY <1>1, <1>2, <1>3, <1>4, <1>5 DEF TabInv, World
<1> QED
    BY <1>6, <1>1 DEF TabKept, PhaseKept

LEMMA ReplyStep ==
    ASSUME TabInv, NEW r \in requests, Reply(r)
    PROVE  TabKept
<1> DEFINE m == client.duel.match
<1>1. /\ Become(replyRead(r)) /\ requests' = requests \ {r} /\ r.at = "answered"
      /\ RequestFits(r, row) /\ r \in Request
    BY DEF Reply, TabInv, RequestFits
<1>2. World
    BY DEF Reply, world, World, TabInv
<1>3. CASE r.stale \/ r.kind = "cancel"
  <2>1. replyRead(r) = client
    BY <1>1, <1>3 DEF replyRead, IsPoll, Request
  <2>2. Folded(client, client, row)
    BY LiveMatch, FoldedNothing
  <2>3. r \notin Polls(requests)
    BY <1>3 DEF Polls, IsPoll
  <2>4. Become(client)
    BY <1>1, <2>1
  <2> QED
    BY <1>1, <1>2, <2>2, <2>3, <2>4, BecomeFrames, OneLess, FoldedStep
<1>4. CASE ~r.stale /\ IsPoll(r)
  <2>1. r \in Polls(requests) /\ r.match = m /\ client.inFlight /\ r.kind # "submit"
    BY <1>4 DEF Polls, TabInv, LoopFits, Awaited, IsPoll
  <2>2. m # NoMatch => RowFits(row[m])
    BY LiveMatch
  <2>3. CASE IsFailure(r)
    <3> DEFINE c == [client EXCEPT !.inFlight = FALSE]
               d == pollFailed(c, r.answer.failure)
    <3>1. Become(d)
      BY <1>1, <1>4, <2>1, <2>3 DEF replyRead, IsPoll
    <3>2. r.answer.failure \in Failure
      BY <1>1, <2>3 DEF RequestFits
    <3>3. /\ c \in Client /\ c.duel = client.duel /\ c.inFlight = FALSE
          /\ c.socket = client.socket /\ c.disposed = client.disposed
      BY LiveMatch DEF Client
    <3> HIDE DEF c
    <3>4. TabFits(c, row)
      BY <3>3, LiveMatch DEF TabFits
    <3>5. Folded(c, d, row) /\ (Goes(d) \/ Idle(d))
      BY <2>2, <3>2, <3>3, <3>4, pollFailedFolds
    <3> HIDE DEF d
    <3>6. TabFits(d, row) /\ ~d.inFlight /\ (m # NoMatch => d.duel.match = m)
         /\ Onward(client.duel, d.duel)
      BY <3>3, <3>5 DEF Folded
    <3> QED
      BY <1>1, <1>2, <2>1, <3>1, <3>5, <3>6, PollReplyStep
  <2>4. CASE ~IsFailure(r)
    <3> DEFINE d == pollAnswered(client, r.answer)
    <3>1. Become(d)
      BY <1>1, <1>4, <2>1, <2>4 DEF replyRead, IsPoll
    <3>2. /\ r.answer \in Event /\ r.answer.type \in AnswerTypes(r.kind)
          /\ r.answer.type = "match" => r.answer.match \in Match
          /\ r.kind = "get" => r.answer.match = r.match
          /\ SaysTrue(r.answer, row[IF r.answer.type = "match" THEN r.answer.match ELSE r.match])
          /\ r.kind # "create" => r.match \in Match
          /\ r.kind = "create" => r.match = NoMatch
      BY <1>1, <2>4 DEF RequestFits
    <3>3. r.kind \in {"create", "get", "result"}
      BY <1>4 DEF IsPoll
    <3>4. NewsFits(r.answer, client.duel, row)
      <4>1. CASE r.answer.type = "match"
        BY <2>1, <3>2, <3>3, <4>1 DEF NewsFits, AnswerTypes, SaysTrue
      <4>2. CASE r.answer.type # "match"
        <5>1. r.kind = "result" /\ r.answer.type \in {"result", "pending"}
          BY <3>2, <3>3, <4>2 DEF AnswerTypes
        <5>2. m # NoMatch /\ SaysTrue(r.answer, row[m])
          BY <2>1, <3>2, <4>2, <5>1, MatchAssumption
        <5> QED
          BY <3>2, <5>1, <5>2 DEF NewsFits
      <4> QED
        BY <4>1, <4>2
    <3>5. /\ TabFits(d, row) /\ ~d.inFlight /\ (Goes(d) \/ Idle(d))
          /\ m # NoMatch => d.duel.match = m
          /\ Onward(client.duel, d.duel)
      BY <2>2, <3>4, LiveMatch, pollAnsweredFolds
    <3> HIDE DEF d
    <3> QED
      BY <1>1, <1>2, <2>1, <3>1, <3>5, PollReplyStep
  <2> QED
    BY <2>3, <2>4
<1>5. CASE ~r.stale /\ r.kind = "submit"
  <2>1. /\ r \notin Polls(requests) /\ r.match = m /\ ~IsPoll(r)
        /\ m \in Match /\ m # NoMatch /\ RowFits(row[m])
    BY <1>1, <1>5, LiveMatch, MatchAssumption
       DEF Polls, TabInv, Awaited, IsPoll, RequestFits
  <2>2. Folded(client, replyRead(r), row)
    <3>1. CASE IsFailure(r)
      <4>1. replyRead(r) = submitFailed(client, r.answer.failure)
        BY <1>5, <2>1, <3>1 DEF replyRead
      <4>2. /\ r.answer.failure \in Failure
            /\ r.answer.failure = "conflict" => Refusable(row[m])
        BY <1>1, <2>1, <3>1 DEF RequestFits
      <4> QED
        BY <2>1, <4>1, <4>2, LiveMatch, submitFailedFolds
    <3>2. CASE ~IsFailure(r)
      <4>1. replyRead(r) = dispatch(client, r.answer)
        BY <1>5, <2>1, <3>2 DEF replyRead
      <4>2. r.answer \in Event /\ r.answer.type = "submit-ok" /\ SaysTrue(r.answer, row[m])
        BY <1>1, <1>5, <2>1, <3>2 DEF RequestFits, AnswerTypes
      <4>3. NewsFits(r.answer, client.duel, row)
        BY <2>1, <4>2 DEF NewsFits
      <4> QED
        BY <2>1, <4>1, <4>3, LiveMatch, dispatchFolds
    <3> QED
      BY <3>1, <3>2
  <2>3. replyRead(r).duel.match = m
    BY <2>1, <2>2 DEF Folded
  <2> QED
    BY <1>1, <1>2, <2>1, <2>2, <2>3, BecomeFrames, OneLess, FoldedStep
<1> QED
  <2>1. r.kind # "beacon"
    BY <1>1 DEF RequestFits
  <2> QED
    BY <1>1, <1>3, <1>4, <1>5, <2>1 DEF Request, Kind, IsPoll

-----------------------------------------------------------------------------
(* The invariant holds at first, and every step keeps it.                  *)

LEMMA TabStarts ==
    ASSUME Init
    PROVE  TabInv
<1>1. row \in [Match -> Row] /\ \A m \in Match : RowFits(row[m])
    BY DEF Init, NoRow, Row, RowFits
<1>2. initialDuel \in DuelState
    BY DEF initialDuel, DuelState, DuelPhase, Seat
<1>3. /\ client = Mounted /\ client \in Client /\ client.duel = initialDuel
      /\ client.socket = "closed" /\ ~client.timer /\ ~client.inFlight /\ client.signingIn
    BY <1>2 DEF Init, Mounted, Client
<1>4. DuelFits(initialDuel, row)
    BY <1>2 DEF DuelFits, initialDuel
<1>5. TabFits(client, row)
    BY <1>3, <1>4 DEF TabFits
<1>6. requests = {} /\ frames = {} /\ cookie \in BOOLEAN /\ user \in BOOLEAN /\ faults \in Nat
    BY DEF Init
<1> QED
    BY <1>1, <1>3, <1>5, <1>6 DEF TabInv, LoopFits, Polls, Awaited

LEMMA TabStep ==
    ASSUME TabInv, [Next]_vars
    PROVE  TabKept
<1>1. CASE UNCHANGED vars
  <2>1. TabInv' /\ client'.duel = client.duel
    BY <1>1 DEF vars, TabInv, LoopFits, Awaited, Polls, IsPoll, Over
  <2> QED
    BY <2>1, SameDuel DEF TabKept
<1>2. CASE Player
    BY <1>2, EntersSignedInStep, DeclinesStep, BeginStep, PlayAgainStep, SubmitStep,
       LeaveQueueStep, PageHideStep, UnmountStep DEF Player
<1>3. CASE Tick \/ Online \/ SocketOpens \/ SocketCloses \/ Reconnect \/ Push
    BY <1>3, TickStep, OnlineStep, SocketOpensStep, SocketClosesStep, ReconnectStep, PushStep
<1>4. ASSUME NEW r \in requests, Serve(r) \/ ReadRoster(r) \/ Lost(r) \/ Reply(r)
      PROVE  TabKept
    BY <1>4, UnauthorizedStep, ServeCreateStep, ServeGetStep, ServeResultStep,
       ServeSubmitStep, ServeCancelStep, ReadRosterStep, LostStep, ReplyStep DEF Serve
<1>5. ASSUME NEW f \in frames, ReadFrameRoster(f) \/ Deliver(f)
      PROVE  TabKept
    BY <1>5, ReadFrameRosterStep, DeliverStep
<1>6. CASE SessionDies
    BY <1>6, SessionDiesStep
<1>7. ASSUME NEW m \in Match, MatchMoves(m)
      PROVE  TabKept
    BY <1>7, MatchMovesStep
<1> QED
    BY <1>1, <1>2, <1>3, <1>4, <1>5, <1>6, <1>7 DEF Next

(* Every state of the tab, whatever the network did, has the invariant.    *)
THEOREM TabAlways == Spec => []TabInv
<1>1. Init => TabInv
    BY TabStarts
<1>2. TabInv /\ [Next]_vars => TabInv'
    BY TabStep DEF TabKept
<1> QED
    BY <1>1, <1>2, PTL DEF Spec

-----------------------------------------------------------------------------
(* What the tab guarantees, on any network.                                *)

(* The state has its types and an ended round an end the page can word     *)
(* (DuelClient TypeOK; duel.ts DuelEnd).                                   *)
THEOREM TabHasItsTypes == Spec => []TypeOK
<1>1. TabInv => TypeOK
  <2> SUFFICES ASSUME TabInv PROVE TypeOK
    OBVIOUS
  <2>1. client.duel.phase = "ended" => client.duel.end \in DuelEnd
    BY DEF TabInv, TabFits, DuelFits
  <2>2. requests \in SUBSET Request /\ frames \in SUBSET Frame
    BY DEF TabInv, RequestFits, FrameFits
  <2> QED
    BY <2>1, <2>2 DEF TypeOK, TabInv, TabFits
<1> QED
    BY <1>1, TabAlways, PTL

(* However replies, frames, sign-ins and unmounts interleave there is one  *)
(* timer, or one live poll under way, or neither (useDuel.ts:42).          *)
THEOREM ThereIsOneLoop == Spec => []OneLoop
<1>1. TabInv => OneLoop
  <2> SUFFICES ASSUME TabInv PROVE OneLoop
    OBVIOUS
  <2>1. ~(client.timer /\ client.inFlight)
    BY DEF TabInv, TabFits
  <2>2. CASE client.inFlight
    <3>1. PICK r : Polls(requests) = {r}
      BY <2>2 DEF TabInv, LoopFits
    <3>2. Cardinality({r}) = 1
      BY FS_Singleton
    <3> QED
      BY <2>1, <2>2, <3>1, <3>2 DEF OneLoop, Polls
  <2>3. CASE ~client.inFlight
    <3>1. Polls(requests) = {}
      BY <2>3 DEF TabInv, LoopFits
    <3>2. Cardinality({}) = 0
      BY FS_EmptySet
    <3> QED
      BY <2>1, <2>3, <3>1, <3>2 DEF OneLoop, Polls
  <2> QED
    BY <2>2, <2>3
<1> QED
    BY <1>1, TabAlways, PTL

(* No failure of a poll, of the socket or of a submit leaves a round       *)
(* without its next poll (useDuel.ts tick, pollNow, recoverAuth).          *)
THEOREM TheLoopNeverDies == Spec => []LoopNeverDies
<1>1. TabInv => LoopNeverDies
    BY DEF TabInv, LoopFits, LoopNeverDies
<1> QED
    BY <1>1, TabAlways, PTL

(* Whatever is lost, late, reordered or torn, what the page says of its    *)
(* match has happened to it (duel.ts, useDuel.ts generation).              *)
THEOREM ThePageShowsTheTruth == Spec => []ShowsTheTruth
<1>1. TabInv => ShowsTheTruth
    BY DEF TabInv, TabFits, DuelFits, ShowsTheTruth, Refusable
<1> QED
    BY <1>1, TabAlways, PTL

(* In a round the page only moves on, whichever reply or frame is late,    *)
(* except for a submit that did not arrive (duel.ts applyMatch).           *)
THEOREM ThePhaseMovesOn == Spec => PhaseNeverGoesBack
<1>1. TabInv /\ [Next]_vars =>
        [SameRound =>
            \/ PhaseOrder[client'.duel.phase] >= PhaseOrder[client.duel.phase]
            \/ client.duel.phase = "submitting" /\ client'.duel.phase = "drawing"]_vars
    BY TabStep DEF TabKept, PhaseKept, Onward, SameRound
<1> QED
    BY <1>1, TabAlways, PTL DEF Spec, PhaseNeverGoesBack
=============================================================================
