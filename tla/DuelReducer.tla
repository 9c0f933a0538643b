---------------------------- MODULE DuelReducer ----------------------------
(***************************************************************************)
(* apps/web/src/features/play/duel.ts: the duel as the browser tab sees    *)
(* it, a pure reducer over what the tab learns.  The prompt, names, the    *)
(* countdown, presence and the two warnings (offline, submitFailed) only   *)
(* feed the page and are left out.                                         *)
(***************************************************************************)
EXTENDS Naturals

CONSTANTS Match, NoMatch

ASSUME MatchAssumption == NoMatch \notin Match

MatchStatus == {"open", "drawing", "judging", "done", "abandoned"}
DuelPhase == {"connecting", "waiting", "drawing", "submitting", "submitted",
              "judging", "done", "ended"}
DuelEnd == {"queue-ended", "nobody-submitted", "left", "auth", "budget"}
Seat == {"empty", "drawing", "submitted"}

(* opponent is the other seat; started, a deadline was seen. *)
DuelState == [phase : DuelPhase, end : DuelEnd \cup {"none"}, match : Match \cup {NoMatch},
              status : MatchStatus \cup {"none"}, started : BOOLEAN, opponent : Seat]

initialDuel == [phase |-> "connecting", end |-> "none", match |-> NoMatch,
                status |-> "none", started |-> FALSE, opponent |-> "empty"]

(* The match as a reply or a frame shows it: deadline, it has one; joined, *)
(* mine and theirs, what its roster says of the two seats.                 *)
View == [status : MatchStatus \cup {"none"}, deadline : BOOLEAN,
         joined : BOOLEAN, mine : BOOLEAN, theirs : BOOLEAN]

NoView == [status |-> "none", deadline |-> FALSE, joined |-> FALSE, mine |-> FALSE,
           theirs |-> FALSE]

EventType == {"start", "match", "result", "pending", "i-submitted", "player-submitted",
              "judging", "abandoned", "submit", "submit-ok", "submit-conflict",
              "submit-failed", "offline", "end"}

(* An event, and what it carries if it carries anything. *)
Event == [type : EventType, match : Match \cup {NoMatch}, view : View,
          end : DuelEnd \cup {"none"}]

News(type) == [type |-> type, match |-> NoMatch, view |-> NoView, end |-> "none"]
Status(type, status) == [News(type) EXCEPT !.view.status = status]
Snapshot(m, view) == [News("match") EXCEPT !.match = m, !.view = view]
End(end) == [News("end") EXCEPT !.end = end]

isTerminal(phase) == phase \in {"done", "ended"}
BeforeRound == {"connecting", "waiting"}

StatusOrder == [s \in MatchStatus \cup {"none"} |->
                  CASE s \in {"none", "open"} -> 0 [] s = "drawing" -> 1 [] s = "judging" -> 2
                    [] OTHER -> 3]

(* A late reply must not walk the status back. *)
furthest(prev, next) == IF StatusOrder[prev] > StatusOrder[next] THEN prev ELSE next

abandon(s) ==
    [s EXCEPT !.phase = "ended", !.status = "abandoned",
              !.end = IF s.started THEN "nobody-submitted" ELSE "queue-ended"]

withOpponentSubmitted(s) ==
    [s EXCEPT !.opponent = IF @ = "empty" THEN @ ELSE "submitted"]

toJudging(s) == withOpponentSubmitted([s EXCEPT !.phase = "judging"])

(* Whoever submitted, the seat across is shown as submitted. *)
SeatSeen_Either(seat, view) ==
    IF ~view.joined THEN seat
    ELSE IF view.theirs \/ view.mine \/ seat = "submitted" THEN "submitted" ELSE "drawing"

(* The seat across: once seen submitted, it stays so. *)
SeatSeen(seat, view) ==
    IF ~view.joined THEN seat
    ELSE IF view.theirs \/ seat = "submitted" THEN "submitted" ELSE "drawing"

(* Any snapshot moves the phase, a late one too. *)
applyMatch_AnyPhase(s, m, view) ==
    LET next == [s EXCEPT !.match = m, !.status = furthest(@, view.status),
                          !.started = @ \/ view.deadline, !.opponent = SeatSeen(@, view)]
    IN  IF s.match # NoMatch /\ s.match # m THEN s ELSE
        CASE view.status = "open" -> [next EXCEPT !.phase = "waiting"]
          [] view.status = "drawing" ->
                [next EXCEPT !.phase = IF view.mine THEN "submitted" ELSE "drawing"]
          [] view.status = "judging" -> toJudging(next)
          [] view.status = "done" -> next
          [] view.status = "abandoned" -> abandon(next)

applyMatch(s, m, view) ==
    LET next == [s EXCEPT !.match = m, !.status = furthest(@, view.status),
                          !.started = @ \/ view.deadline, !.opponent = SeatSeen(@, view)]
        Enter(phase) == [next EXCEPT !.phase = IF @ \in BeforeRound THEN phase ELSE @]
    IN  IF s.match # NoMatch /\ s.match # m THEN s ELSE
        CASE view.status = "open" -> Enter("waiting")
          [] view.status = "drawing" /\ ~view.mine -> Enter("drawing")
          [] view.status = "drawing" /\ view.mine ->
                [next EXCEPT !.phase = IF @ = "judging" THEN @ ELSE "submitted"]
          [] view.status = "judging" -> toJudging(next)
          [] view.status = "done" -> next
          [] view.status = "abandoned" -> abandon(next)

(* A result poll that is not ready, at whatever the match is. *)
applyPending(s, status) ==
    CASE status = "abandoned" -> abandon(s)
      [] status = "judging" -> [toJudging(s) EXCEPT !.status = "judging"]
      [] OTHER -> [s EXCEPT !.status = furthest(@, status)]

(* The reply to my submit, while it is still the news. *)
applySubmitted(s, status) ==
    LET next == [s EXCEPT !.status = furthest(@, status)]
    IN  IF next.status = "judging" THEN toJudging(next) ELSE [next EXCEPT !.phase = "submitted"]

reduceDuel(s, e) ==
    LET In(phases, t) == IF s.phase \in phases THEN t ELSE s
    IN  CASE e.type = "start" -> initialDuel
          [] e.type # "start" /\ isTerminal(s.phase) -> s
          [] OTHER ->
             CASE e.type = "match" -> applyMatch(s, e.match, e.view)
               [] e.type = "result" ->
                    [s EXCEPT !.phase = "done", !.status = "done", !.started = TRUE]
               [] e.type = "pending" -> applyPending(s, e.view.status)
               [] e.type = "player-submitted" -> withOpponentSubmitted(s)
               [] e.type = "i-submitted" ->
                    In({"drawing", "submitting"}, [s EXCEPT !.phase = "submitted"])
               [] e.type = "judging" -> [toJudging(s) EXCEPT !.status = "judging"]
               [] e.type = "abandoned" -> abandon(s)
               [] e.type = "submit" -> In({"drawing"}, [s EXCEPT !.phase = "submitting"])
               [] e.type = "submit-ok" -> In({"submitting"}, applySubmitted(s, e.view.status))
               [] e.type = "submit-conflict" ->
                    In({"submitting"}, [s EXCEPT !.phase = "submitted"])
               [] e.type = "submit-failed" ->
                    In({"submitting"}, [s EXCEPT !.phase = "drawing"])
               [] e.type = "offline" -> s
               [] e.type = "end" -> [s EXCEPT !.phase = "ended", !.end = e.end]
=============================================================================
