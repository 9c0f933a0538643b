----------------------------- MODULE DuelClient -----------------------------
(***************************************************************************)
(* One browser tab on /play (useDuel.ts, useMatchSocket.ts, PlayView.vue)  *)
(* against the matches of its player: a poll loop over HTTP, a socket that *)
(* pushes frames, a submit, and a session that may die under all of them.  *)
(*                                                                         *)
(* A handler of the tab runs to its next await in one step.  A request is  *)
(* answered from the match as it is when the server serves it, and the     *)
(* reply is read later; a frame likewise, in any order.  The generation    *)
(* counters are kept as their use: a reply is stale, and a frame is gone,  *)
(* once the counter has moved on from it.                                  *)
(***************************************************************************)
EXTENDS DuelReducer, FiniteSets

CONSTANTS
    MaxFaults,    \* bound on lost requests, dropped sockets and dead sessions
    MaxFrames,    \* bound on frames under way
    MaxRequests   \* bound on requests under way when the player acts

ASSUME BoundAssumption == MaxFaults \in Nat /\ MaxFrames \in Nat /\ MaxRequests \in Nat

VARIABLES
    row,       \* each match of the player, as Postgres has it
    cookie,    \* the server would accept the tab's session
    user,      \* the tab has a session (session.user)
    client,    \* useDuel and useMatchSocket
    requests,  \* under way, or answered and not read yet
    frames,    \* pushed and not read yet
    faults     \* so far

vars == << row, cookie, user, client, requests, frames, faults >>
world == << row, cookie, faults >>

Row == [status : MatchStatus \cup {"none"}, joined : BOOLEAN, mine : BOOLEAN, theirs : BOOLEAN]
NoRow == [status |-> "none", joined |-> FALSE, mine |-> FALSE, theirs |-> FALSE]

(* Service.Get and buildMatchDTO: the row first, then the roster. *)
RowRead(m) == [NoView EXCEPT !.status = row[m].status, !.deadline = row[m].joined]
RosterRead(view, m) ==
    [view EXCEPT !.joined = row[m].joined, !.mine = row[m].mine, !.theirs = row[m].theirs]

Room == Cardinality(requests) < MaxRequests
Fault == faults < MaxFaults /\ faults' = faults + 1

-----------------------------------------------------------------------------
(* The tab's state, and what its functions make of it.                     *)

Client == [duel : DuelState, timer : BOOLEAN, inFlight : BOOLEAN, pollAgain : BOOLEAN,
           socket : {"closed", "opening", "open"}, retry : BOOLEAN,
           signingIn : BOOLEAN, disposed : BOOLEAN]

(* Mounted, and begin() awaits the session. *)
Mounted == [duel |-> initialDuel, timer |-> FALSE, inFlight |-> FALSE, pollAgain |-> FALSE,
            socket |-> "closed", retry |-> FALSE, signingIn |-> TRUE, disposed |-> FALSE]

Over(c) == isTerminal(c.duel.phase)

stopPolling(c) == [c EXCEPT !.timer = FALSE, !.pollAgain = FALSE]
closeSocket(c) == [c EXCEPT !.socket = "closed", !.retry = FALSE]
openSocket(c) == [c EXCEPT !.socket = "opening", !.retry = FALSE]
shouldReconnect(c) == ~c.disposed /\ ~Over(c) /\ c.duel.match # NoMatch

(* A timer beside the request in flight. *)
pollNow_Double(c) ==
    IF c.disposed \/ Over(c) \/ c.signingIn THEN c ELSE [c EXCEPT !.timer = TRUE]

(* At once, or right after the request in flight. *)
pollNow(c) ==
    IF c.disposed \/ Over(c) \/ c.signingIn THEN c
    ELSE IF c.inFlight THEN [c EXCEPT !.pollAgain = TRUE] ELSE [c EXCEPT !.timer = TRUE]

(* What a change of state implies; rescheduling only changes the cadence. *)
dispatch(c, e) ==
    LET before == c.duel
        after == reduceDuel(before, e)
        moved == [c EXCEPT !.duel = after]
        opened == IF before.match = NoMatch /\ after.match # NoMatch
                  THEN openSocket(moved) ELSE moved
    IN  CASE after = before -> c
          [] after # before /\ isTerminal(after.phase) -> closeSocket(stopPolling(opened))
          [] OTHER -> IF after.status = "done" /\ before.status # "done"
                      THEN pollNow(opened) ELSE opened

reset(c) == closeSocket([stopPolling(c) EXCEPT !.inFlight = FALSE])

start(c, signedIn) ==
    IF signedIn THEN [dispatch(reset(c), News("start")) EXCEPT !.timer = TRUE]
    ELSE dispatch(reset(c), End("auth"))

(* One recovery however many notice: begin() asks for a session. *)
recoverAuth(c) ==
    IF c.signingIn \/ c.disposed THEN c ELSE [stopPolling(c) EXCEPT !.signingIn = TRUE]

(* Leaving the queue cancels the open match. *)
inQueue(c) == c.duel.phase = "waiting" /\ c.duel.match # NoMatch
leaveQueue(c) == IF inQueue(c) THEN dispatch(c, End("left")) ELSE c

-----------------------------------------------------------------------------
(* Requests.  answer is the event the reply makes, or the failure.         *)

Kind == {"create", "get", "result", "submit", "cancel", "beacon"}
Failure == {"auth", "transient", "conflict", "budget"}
Request == [kind : Kind, match : Match \cup {NoMatch}, stale : BOOLEAN,
            at : {"sent", "reading", "answered"},
            answer : Event \cup [failure : Failure]]

Ask(kind, m) == [kind |-> kind, match |-> m, stale |-> FALSE, at |-> "sent",
                 answer |-> News("offline")]
Answered(r, answer) == [r EXCEPT !.at = "answered", !.answer = answer]
Failed(failure) == [failure |-> failure]
IsPoll(r) == r.kind \in {"create", "get", "result"}
Canceling(c, how) == IF inQueue(c) THEN {Ask(how, c.duel.match)} ELSE {}

Aged == {[r EXCEPT !.stale = TRUE] : r \in requests}

(* The tab moves on.  Closing the socket bumps its generation: what it     *)
(* still brings is ignored.                                                *)
Become(c) ==
    /\ client' = c
    /\ frames' = IF c.socket = "closed" THEN {} ELSE frames

(* The same, starting over: the generation of the replies is bumped too.   *)
BecomeNew(c) ==
    /\ Become(c)
    /\ requests' = Aged

-----------------------------------------------------------------------------
(* The tab.                                                                *)

(* begin(): the gate answers at once to a player with a session, or once   *)
(* they have signed in, or they decline.                                   *)
EntersSignedIn ==
    /\ Room
    /\ client.signingIn /\ ~client.disposed
    /\ \/ user /\ UNCHANGED << user, cookie >>
       \/ ~user /\ user' = TRUE /\ cookie' = TRUE
    /\ BecomeNew(start([client EXCEPT !.signingIn = FALSE], TRUE))
    /\ UNCHANGED << row, faults >>

Declines ==
    /\ client.signingIn /\ ~client.disposed /\ ~user
    /\ BecomeNew(dispatch(reset([client EXCEPT !.signingIn = FALSE]), End("auth")))
    /\ UNCHANGED << world, user >>

(* The buttons of a finished round: "Sign in", and "Play again" or the     *)
(* like, which starts with the session as it is.                           *)
Begin ==
    /\ Over(client) /\ client.duel.end = "auth" /\ ~client.signingIn /\ ~client.disposed
    /\ client' = [client EXCEPT !.signingIn = TRUE]
    /\ UNCHANGED << world, user, requests, frames >>

PlayAgain ==
    /\ Room
    /\ Over(client) /\ client.duel.end \notin {"auth", "budget"}
    /\ ~client.signingIn /\ ~client.disposed
    /\ BecomeNew(start(client, user))
    /\ UNCHANGED << world, user >>

(* The verdict is asked for only while the judge is at work. *)
PollKind_WhileJudging(s) ==
    CASE s.match = NoMatch -> "create"
      [] s.match # NoMatch /\ s.status = "judging" -> "result"
      [] OTHER -> "get"

(* What the next poll asks. *)
PollKind(s) ==
    CASE s.match = NoMatch -> "create"
      [] s.match # NoMatch /\ s.status \in {"judging", "done"} -> "result"
      [] OTHER -> "get"

(* The timer fires. *)
Tick ==
    /\ client.timer
    /\ LET c == [client EXCEPT !.timer = FALSE]
       IN  IF c.disposed \/ Over(c) THEN client' = c /\ UNCHANGED requests
           ELSE IF c.inFlight THEN client' = [c EXCEPT !.pollAgain = TRUE] /\ UNCHANGED requests
           ELSE /\ client' = [c EXCEPT !.inFlight = TRUE]
                /\ requests' = requests \cup {Ask(PollKind(c.duel), c.duel.match)}
    /\ UNCHANGED << world, user, frames >>

Submit ==
    /\ Room
    /\ client.duel.phase = "drawing" /\ ~client.signingIn /\ ~client.disposed
    /\ Become(dispatch(client, News("submit")))
    /\ requests' = requests \cup {Ask("submit", client.duel.match)}
    /\ UNCHANGED << world, user >>

LeaveQueue ==
    /\ Room
    /\ inQueue(client) /\ ~client.disposed
    /\ Become(leaveQueue(client))
    /\ requests' = requests \cup Canceling(client, "cancel")
    /\ UNCHANGED << world, user >>

(* pagehide: a beacon has no reply, and the page may come back. *)
PageHide ==
    /\ Room
    /\ inQueue(client) /\ ~client.disposed
    /\ requests' = requests \cup Canceling(client, "beacon")
    /\ UNCHANGED << world, user, client, frames >>

Unmount ==
    /\ ~client.disposed
    /\ Become(reset([leaveQueue(client) EXCEPT !.disposed = TRUE]))
    /\ requests' = Aged \cup Canceling(client, "cancel")
    /\ UNCHANGED << world, user >>

(* The browser is back online. *)
Online ==
    /\ client' = pollNow(client)
    /\ UNCHANGED << world, user, requests, frames >>

(* A lost poll is the last one. *)
pollFailed_NoRetry(c, failure) ==
    CASE failure = "auth" -> recoverAuth(c)
      [] failure \in {"transient", "conflict"} -> dispatch(c, News("offline"))
      [] OTHER -> dispatch(c, End(failure))

(* A failed poll. *)
pollFailed(c, failure) ==
    CASE failure = "auth" -> recoverAuth(c)
      [] failure \in {"transient", "conflict"} -> [dispatch(c, News("offline")) EXCEPT !.timer = TRUE]
      [] OTHER -> dispatch(c, End(failure))

(* A poll's reply: fold it in, then the next poll. *)
pollAnswered(c, e) ==
    LET told == [dispatch(c, e) EXCEPT !.inFlight = FALSE]
    IN  IF Over(told) THEN told ELSE [told EXCEPT !.pollAgain = FALSE, !.timer = TRUE]

(* A 409 taken for a refusal. *)
submitFailed_ConflictEnds(c, failure) ==
    CASE failure = "conflict" -> dispatch(c, End(failure))
      [] failure = "auth" -> recoverAuth(dispatch(c, News("submit-failed")))
      [] OTHER -> dispatch(c, News("submit-failed"))

(* A failed submit: a 409 is asked about, a 401 signs in again. *)
submitFailed(c, failure) ==
    CASE failure = "conflict" -> pollNow(dispatch(c, News("submit-conflict")))
      [] failure = "auth" -> recoverAuth(dispatch(c, News("submit-failed")))
      [] OTHER -> dispatch(c, News("submit-failed"))

IsFailure(r) == "failure" \in DOMAIN r.answer

(* A reply of the previous round is dropped. *)
replyRead(r) ==
    CASE r.stale \/ r.kind = "cancel" -> client
      [] ~r.stale /\ IsPoll(r) /\ IsFailure(r) ->
            pollFailed([client EXCEPT !.inFlight = FALSE], r.answer.failure)
      [] ~r.stale /\ IsPoll(r) /\ ~IsFailure(r) -> pollAnswered(client, r.answer)
      [] ~r.stale /\ r.kind = "submit" /\ IsFailure(r) -> submitFailed(client, r.answer.failure)
      [] ~r.stale /\ r.kind = "submit" /\ ~IsFailure(r) -> dispatch(client, r.answer)

(* Every 401 forgets the session, whoever asked and whenever (http.ts). *)
Reply(r) ==
    /\ r.at = "answered"
    /\ Become(replyRead(r))
    /\ requests' = requests \ {r}
    /\ user' = (user /\ r.answer # Failed("auth"))
    /\ UNCHANGED world

-----------------------------------------------------------------------------
(* The socket.                                                             *)

SocketOpens ==
    /\ client.socket = "opening" /\ cookie
    /\ client' = [client EXCEPT !.socket = "open"]
    /\ UNCHANGED << world, user, requests, frames >>

(* It drops, or could not be opened; the server closes it at the session's *)
(* end with a code of its own.                                             *)
SocketCloses ==
    /\ client.socket # "closed"
    /\ IF cookie THEN Fault ELSE UNCHANGED faults
    /\ LET c == [client EXCEPT !.socket = "closed"]
       IN  \/ /\ client.socket = "open" /\ ~cookie
              /\ Become(recoverAuth(c))
           \/ Become([pollNow(c) EXCEPT !.retry = shouldReconnect(c)])
    /\ UNCHANGED << row, cookie, user, requests >>

Reconnect ==
    /\ client.retry
    /\ client' = IF shouldReconnect(client) THEN openSocket(client)
                 ELSE [client EXCEPT !.retry = FALSE]
    /\ UNCHANGED << world, user, requests, frames >>

Frame == [event : Event, at : {"reading", "answered"}]

(* What the hub may be pushing about m: each transition is published after *)
(* its commit and without a lock, so any that has happened (hub.go).       *)
Pushable(m) ==
    {[event |-> Snapshot(m, RowRead(m)), at |-> "reading"]}
    \cup {[event |-> News(type), at |-> "answered"] : type \in
            (IF row[m].mine THEN {"i-submitted"} ELSE {})
            \cup (IF row[m].theirs THEN {"player-submitted"} ELSE {})
            \cup (IF row[m].mine /\ row[m].theirs THEN {"judging"} ELSE {})
            \cup (IF row[m].status = "done" THEN {"result"} ELSE {})
            \cup (IF row[m].status = "abandoned" THEN {"abandoned"} ELSE {})}

Push ==
    /\ client.socket = "open" /\ Cardinality(frames) < MaxFrames
    /\ \E f \in Pushable(client.duel.match) : frames' = frames \cup {f}
    /\ UNCHANGED << world, user, client, requests >>

Deliver(f) ==
    /\ f.at = "answered"
    /\ client' = dispatch(client, f.event)
    /\ frames' = IF client'.socket = "closed" THEN {} ELSE frames \ {f}
    /\ UNCHANGED << world, user, requests >>

-----------------------------------------------------------------------------
(* The server, for this player.                                            *)

Served(r, answer) ==
    requests' = (requests \ {r}) \cup (IF r.kind = "beacon" THEN {} ELSE {Answered(r, answer)})

(* The two reads of a match: its row now, its roster later. *)
Reading(r, m) ==
    requests' = (requests \ {r}) \cup
        {[r EXCEPT !.at = "reading", !.answer = Snapshot(m, RowRead(m))]}

(* No valid session: refused before anything else. *)
Unauthorized(r) ==
    /\ r.at = "sent" /\ ~cookie
    /\ Served(r, Failed("auth"))
    /\ UNCHANGED << world, user, client, frames >>

(* The network, a 5xx or a rate limit: the request or its reply is lost.   *)
Lost(r) ==
    /\ Fault
    /\ r.answer # Failed("transient")
    /\ Served(r, Failed("transient"))
    /\ UNCHANGED << row, cookie, user, client, frames >>

mineInPlay == {m \in Match : row[m].status \in {"open", "drawing", "judging"}}

(* CreateOrJoin: resume, or join, or create; or the day's budget is spent. *)
ServeCreate(r) ==
    /\ r.kind = "create" /\ r.at = "sent" /\ cookie
    /\ LET fresh(m, status, joined) ==
               row' = [row EXCEPT ![m] = [NoRow EXCEPT !.status = status, !.joined = joined]]
       IN  \/ \E m \in mineInPlay : UNCHANGED row /\ Reading(r, m)
           \/ /\ mineInPlay = {}
              /\ \/ UNCHANGED row /\ Served(r, Failed("budget"))
                 \/ \E m \in Match : /\ row[m].status = "none"
                                     /\ fresh(m, "open", FALSE) \/ fresh(m, "drawing", TRUE)
                                     /\ Served(r, Snapshot(m, RosterRead(RowRead(m), m)'))
    /\ UNCHANGED << cookie, user, client, frames, faults >>

ServeGet(r) ==
    /\ r.kind = "get" /\ r.at = "sent" /\ cookie
    /\ Reading(r, r.match)
    /\ UNCHANGED << world, user, client, frames >>

(* The second read, for a poll and for the hub. *)
ReadRoster(r) ==
    /\ r.at = "reading"
    /\ Served(r, [r.answer EXCEPT !.view = RosterRead(@, r.answer.match)])
    /\ UNCHANGED << world, user, client, frames >>

ReadFrameRoster(f) ==
    /\ f.at = "reading"
    /\ frames' = (frames \ {f}) \cup
           {[f EXCEPT !.at = "answered", !.event.view = RosterRead(@, f.event.match)]}
    /\ UNCHANGED << world, user, client, requests >>

ServeResult(r) ==
    /\ r.kind = "result" /\ r.at = "sent" /\ cookie
    /\ Served(r, IF row[r.match].status = "done" THEN News("result")
                 ELSE Status("pending", row[r.match].status))
    /\ UNCHANGED << world, user, client, frames >>

(* My drawing is in: the last one sends the match to judging. *)
Drawn(m) ==
    [row[m] EXCEPT !.mine = TRUE, !.status = IF row[m].theirs THEN "judging" ELSE @]

ServeSubmit(r) ==
    /\ r.kind = "submit" /\ r.at = "sent" /\ cookie
    /\ IF row[r.match].status = "drawing" /\ ~row[r.match].mine
       THEN /\ row' = [row EXCEPT ![r.match] = Drawn(r.match)]
            /\ Served(r, Status("submit-ok", row'[r.match].status))
       ELSE UNCHANGED row /\ Served(r, Failed("conflict"))
    /\ UNCHANGED << cookie, user, client, frames, faults >>

ServeCancel(r) ==
    /\ r.kind \in {"cancel", "beacon"} /\ r.at = "sent" /\ cookie
    /\ row' = IF row[r.match].status = "open" THEN [row EXCEPT ![r.match].status = "abandoned"]
              ELSE row
    /\ requests' = requests \ {r}
    /\ UNCHANGED << cookie, user, client, frames, faults >>

(* The opponent, the sweeper, the judge, and another tab of the player.    *)
Moves(m, status) == row' = [row EXCEPT ![m].status = status]

MatchMoves(m) ==
    /\ \/ /\ row[m].status = "open"
          /\ \/ row' = [row EXCEPT ![m].status = "drawing", ![m].joined = TRUE]
             \/ Moves(m, "abandoned")
       \/ /\ row[m].status = "drawing"
          /\ \/ ~row[m].mine /\ row' = [row EXCEPT ![m] = Drawn(m)]
             \/ /\ ~row[m].theirs
                /\ row' = [row EXCEPT ![m].theirs = TRUE,
                                      ![m].status = IF row[m].mine THEN "judging" ELSE @]
             \/ Moves(m, IF row[m].mine \/ row[m].theirs THEN "done" ELSE "abandoned")
       \/ row[m].status = "judging" /\ Moves(m, "done")
    /\ UNCHANGED << cookie, user, client, requests, frames, faults >>

(* Expired, or signed out in another tab. *)
SessionDies ==
    /\ cookie /\ Fault
    /\ cookie' = FALSE
    /\ UNCHANGED << row, user, client, requests, frames >>

-----------------------------------------------------------------------------
Init ==
    /\ row = [m \in Match |-> NoRow]
    /\ cookie \in BOOLEAN
    /\ user \in BOOLEAN /\ (user => cookie)
    /\ client = Mounted
    /\ requests = {}
    /\ frames = {}
    /\ faults = 0

Player == EntersSignedIn \/ Declines \/ Begin \/ PlayAgain \/ Submit \/ LeaveQueue
          \/ PageHide \/ Unmount

Serve(r) ==
    Unauthorized(r) \/ ServeCreate(r) \/ ServeGet(r) \/ ServeResult(r) \/ ServeSubmit(r)
    \/ ServeCancel(r)

Next ==
    \/ Player
    \/ Tick \/ Online \/ SocketOpens \/ SocketCloses \/ Reconnect \/ Push
    \/ \E r \in requests : Serve(r) \/ ReadRoster(r) \/ Lost(r) \/ Reply(r)
    \/ \E f \in frames : ReadFrameRoster(f) \/ Deliver(f)
    \/ SessionDies
    \/ \E m \in Match : MatchMoves(m)

Spec == Init /\ [][Next]_vars

(* Timers fire, and the poll of this round is served and its reply read.   *)
(* Nothing is asked of the player, the socket, the match or other requests.*)
Poll(Step(_)) == \E r \in requests : IsPoll(r) /\ ~r.stale /\ Step(r)

FairSpec ==
    /\ Spec
    /\ WF_vars(Tick)
    /\ WF_vars(Poll(Serve))
    /\ WF_vars(Poll(ReadRoster))
    /\ WF_vars(Poll(Reply))
=============================================================================
