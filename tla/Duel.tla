-------------------------------- MODULE Duel --------------------------------
(***************************************************************************)
(* The duel of server/internal/game: matchmaking, the drawing round, the   *)
(* judging passes and the sweeper, over the rows Postgres keeps.           *)
(*                                                                         *)
(* A transaction takes its row lock (or the matchmaking lock) before it    *)
(* decides, so its body is one step.  What it carries from before the lock *)
(* is its clock: now() is the time of BEGIN.  An action therefore takes    *)
(* the delay between BEGIN and that step, d in TxDelays.                   *)
(*                                                                         *)
(* A timestamp of a row is kept as its age, the seconds since, and only    *)
(* while the row's status makes the code compare it; it stops growing      *)
(* once it is past every limit it is compared with.                        *)
(***************************************************************************)
EXTENDS Elo

CONSTANTS
    Player,       \* users
    Match,        \* ids a match row can be inserted under
    Instance,     \* server processes sharing the database
    Slot,         \* judging slots, JUDGE_CONCURRENCY of them on each instance
    NoPlayer,     \* a null user id
    NoMatch,      \* a slot that runs no pass
    Home,         \* the instance a slot belongs to
    InitRating,   \* the ladder before the first match
    RoundSecs,    \* roundSeconds
    OpenTTL,      \* openTTLSecs
    OpenPulse,    \* openPulseSecs
    PassSecs,     \* judgePassSecs
    StaleSecs,    \* judgeStaleSecs
    MaxAttempts,  \* maxJudgeAttempts
    MaxDelay,     \* longest BEGIN-to-lock delay
    MaxCrashes    \* bound on crashes and shutdowns

ASSUME IdAssumption ==
    /\ NoPlayer \notin Player
    /\ NoMatch \notin Match
    /\ Home \in [Slot -> Instance]
    /\ InitRating \in [Player -> Int]

ASSUME FiniteAssumption ==
    IsFiniteSet(Player) /\ IsFiniteSet(Match)

ASSUME TimeAssumption ==
    /\ RoundSecs \in Nat \ {0} /\ OpenTTL \in Nat \ {0} /\ OpenPulse \in Nat \ {0}
    /\ PassSecs \in Nat \ {0} /\ StaleSecs \in Nat \ {0} /\ MaxAttempts \in Nat \ {0}
    /\ MaxDelay \in Nat /\ MaxCrashes \in Nat

(* judgeStaleSecs = judgePassSecs + 15: the margin has to cover the delay  *)
(* between the BEGIN that stamps a pass and the start of the pass.  Only   *)
(* the properties that say so rest on it.                                  *)
StaleMargin == PassSecs + MaxDelay < StaleSecs

VARIABLES
    match,     \* rows of matches, with their match_players rows
    rating,    \* users.rating
    ledger,    \* rows of ai_calls: per player, and to the provider
    pass,      \* what each judging slot runs
    sweep,     \* where each instance's sweeper is, and its list of candidates
    draining,  \* instances whose shutdown has begun
    crashes    \* crashes and shutdowns so far

vars == << match, rating, ledger, pass, sweep, draining, crashes >>
memory == << pass, sweep, draining, crashes >>

TxDelays == 0..MaxDelay
Status == {"none", "open", "drawing", "judging", "done", "abandoned"}
Terminal == {"done", "abandoned"}
Resolution == {"none", "judged", "forfeit", "aborted"}

-----------------------------------------------------------------------------
(* The row.  age is counted from created_at while open, from the start of  *)
(* the round (drawing_deadline - roundSeconds) while drawing, and from     *)
(* judging_started_at while judging; queued is a null judging_started_at.  *)
(* seen is the age of the creator's seen_at.  before and after are the     *)
(* rating_before and rating_after of the seats, 0 for null.                *)

Row == [status : Status, roster : SUBSET Player, age : Nat, seen : Nat,
        submitted : SUBSET Player, queued : BOOLEAN, attempts : Nat,
        resolution : Resolution, winner : Player \cup {NoPlayer},
        before : [Player -> Int], after : [Player -> Int]]

NoRatings == [p \in Player |-> 0]

(* No row under this id yet. *)
NoRow == [status |-> "none", roster |-> {}, age |-> 0, seen |-> 0, submitted |-> {},
          queued |-> FALSE, attempts |-> 0, resolution |-> "none", winner |-> NoPlayer,
          before |-> NoRatings, after |-> NoRatings]

(* CreateMatch, then AddMatchPlayer for the creator. *)
Created(p, d) ==
    [NoRow EXCEPT !.status = "open", !.roster = {p}, !.age = d, !.seen = d]

(* AddMatchPlayer for the joiner, then SetMatchDrawing. *)
Joined(row, p, d) ==
    [row EXCEPT !.status = "drawing", !.roster = @ \cup {p}, !.age = d, !.seen = 0]

(* TouchMatchPlayer. *)
Touched(row, d) == [row EXCEPT !.seen = d]

(* StampSubmission. *)
Stamped(row, p) == [row EXCEPT !.submitted = @ \cup {p}]

(* SetMatchAbandoned. *)
Abandoned(row) == [row EXCEPT !.status = "abandoned", !.age = 0, !.seen = 0]

(* SetMatchJudgingQueued. *)
Queued(row) == [row EXCEPT !.status = "judging", !.queued = TRUE, !.age = 0]

(* SetMatchJudging. *)
Started(row, d) ==
    [row EXCEPT !.status = "judging", !.queued = FALSE, !.age = d, !.attempts = @ + 1]

(* SetMatchResult, with the SetPlayerScore snapshots of the seats. *)
Finished(row, resolution, winner, before, after) ==
    [row EXCEPT !.status = "done", !.age = 0, !.queued = FALSE,
                !.resolution = resolution, !.winner = winner,
                !.before = before, !.after = after]

-----------------------------------------------------------------------------
(* What the queries select, to a transaction that began d seconds ago.     *)

(* FindMyLiveMatch. *)
InPlay(m, p, d) ==
    /\ p \in match[m].roster
    /\ \/ match[m].status \in {"drawing", "judging"}
       \/ match[m].status = "open" /\ match[m].age - d < OpenTTL

(* FindOpenMatchToJoin. *)
Joinable(m, p, d) ==
    /\ match[m].status = "open"
    /\ p \notin match[m].roster
    /\ match[m].age - d < OpenTTL
    /\ match[m].seen - d < OpenPulse

isExpiredDrawing(m, d) ==
    match[m].status = "drawing" /\ match[m].age - d >= RoundSecs

(* ListStuckJudgingMatches and ListExhaustedJudgingMatches. *)
Stale(m) == match[m].age >= StaleSecs

(* The last retry left out of both lists. *)
Stuck_OffByOne(m) ==
    /\ match[m].status = "judging"
    /\ match[m].queued \/ Stale(m)
    /\ match[m].attempts + 1 < MaxAttempts

(* A null start is older than nothing. *)
Stuck_NullStart(m) ==
    /\ match[m].status = "judging"
    /\ ~match[m].queued /\ Stale(m)
    /\ match[m].attempts < MaxAttempts

Stuck(m) ==
    /\ match[m].status = "judging"
    /\ match[m].queued \/ Stale(m)
    /\ match[m].attempts < MaxAttempts

Exhausted_AnyAge(m) ==
    /\ match[m].status = "judging" /\ ~match[m].queued
    /\ match[m].attempts >= MaxAttempts

Exhausted(m) ==
    /\ match[m].status = "judging" /\ ~match[m].queued
    /\ Stale(m)
    /\ match[m].attempts >= MaxAttempts

(* ListStaleOpenMatches. *)
StaleOpen(m) ==
    /\ match[m].status = "open"
    /\ match[m].age >= OpenTTL \/ match[m].seen >= OpenPulse

-----------------------------------------------------------------------------
(* The judging slots of an instance (judgeLimiter).  drain() takes the     *)
(* free ones at shutdown and keeps those the running passes return.        *)

Idle == [match |-> NoMatch, phase |-> "idle", age |-> 0, ratings |-> NoRatings]

Free(i) == {k \in Slot : Home[k] = i /\ pass[k] = Idle /\ i \notin draining}

Running(k) == pass[k].match # NoMatch

(* goHeld(judgeMatch): the pass of m in slot k, not yet begun. *)
Fired(m) == [Idle EXCEPT !.match = m, !.phase = "fired"]

(* Billed before the slot is known: a queued match is charged too. *)
enterJudging_BillQueued(m, row, i, d) ==
    /\ ledger' = [ledger EXCEPT !.provider = @ + 1]
    /\ IF Free(i) = {}
       THEN /\ match' = [match EXCEPT ![m] = Queued(row)]
            /\ UNCHANGED pass
       ELSE \E k \in Free(i) :
            /\ match' = [match EXCEPT ![m] = Started(row, d)]
            /\ pass' = [pass EXCEPT ![k] = Fired(m)]

(* tryAcquire, then enterJudging: with a slot the pass starts, is counted  *)
(* and billed to the provider in the transaction that stamps it; without   *)
(* one the match is queued and nothing is counted.                         *)
enterJudging(m, row, i, d) ==
    IF Free(i) = {}
    THEN /\ match' = [match EXCEPT ![m] = Queued(row)]
         /\ UNCHANGED << ledger, pass >>
    ELSE \E k \in Free(i) :
         /\ match' = [match EXCEPT ![m] = Started(row, d)]
         /\ ledger' = [ledger EXCEPT !.provider = @ + 1]
         /\ pass' = [pass EXCEPT ![k] = Fired(m)]

-----------------------------------------------------------------------------
(* The end of a match.                                                     *)

Opponent(roster, p) == CHOOSE q \in roster : q # p

ScoreOf(p, winner) ==
    IF winner = NoPlayer THEN "tie" ELSE IF p = winner THEN "win" ELSE "loss"

(* What each seat gains, from the ratings r computeElo is given. *)
Delta(roster, r, winner) ==
    [p \in Player |-> IF p \in roster
                      THEN EloGain(r[p] - r[Opponent(roster, p)], ScoreOf(p, winner))
                      ELSE 0]

Seated(roster, r) == [p \in Player |-> IF p \in roster THEN r[p] ELSE 0]

(* The ladder set to what the pass computed from the ratings it read. *)
writeFinalResult_Set(m, r, winner, resolution) ==
    LET roster == match[m].roster
        delta == Delta(roster, r, winner)
        after == [p \in Player |-> IF p \in roster THEN r[p] + delta[p] ELSE rating[p]]
    IN  /\ rating' = after
        /\ match' = [match EXCEPT ![m] = Finished(@, resolution, winner,
                                             Seated(roster, r), Seated(roster, after))]

(* The match is settled and both ratings move, by a delta sized from the   *)
(* ratings r that were read when the result was computed.                  *)
writeFinalResult(m, r, winner, resolution) ==
    LET roster == match[m].roster
        delta == Delta(roster, r, winner)
        after == [p \in Player |-> rating[p] + delta[p]]
    IN  /\ rating' = after
        /\ match' = [match EXCEPT ![m] = Finished(@, resolution, winner,
                                             Seated(roster, rating), Seated(roster, after))]

(* An expired round: nobody drew, one did, or (never, and so only queued)  *)
(* both did.                                                               *)
resolveExpiry(m) ==
    LET submitted == match[m].submitted
    IN  CASE submitted = {} ->
                match' = [match EXCEPT ![m] = Abandoned(@)] /\ UNCHANGED rating
          [] Cardinality(submitted) = 1 /\ Cardinality(match[m].roster) = 2 ->
                writeFinalResult(m, rating, CHOOSE p \in submitted : TRUE, "forfeit")
          [] OTHER ->
                match' = [match EXCEPT ![m] = Queued(@)] /\ UNCHANGED rating

-----------------------------------------------------------------------------
(* The handlers.                                                           *)

(* Both seats are billed in the transaction that starts the round. *)
billPlayers(players) ==
    ledger' = [ledger EXCEPT !.player =
                  [p \in Player |-> IF p \in players THEN @[p] + 1 ELSE @[p]]]

Join(p, m, d) ==
    /\ match' = [match EXCEPT ![m] = Joined(@, p, d)]
    /\ billPlayers(match[m].roster \cup {p})

Create(p, d) ==
    /\ \E m \in Match :
          /\ match[m].status = "none"
          /\ match' = [match EXCEPT ![m] = Created(p, d)]
    /\ UNCHANGED ledger

(* A press that does not look again under the lock for a match in play.    *)
CreateOrJoin_NoRecheck(p, d) ==
    /\ UNCHANGED << rating, memory >>
    /\ \E busy \in SUBSET {m \in Match : match[m].status = "open"} :
          LET candidates == {m \in Match : Joinable(m, p, d)} \ busy
          IN  IF candidates = {}
              THEN Create(p, d)
              ELSE \E m \in candidates :
                   /\ \A n \in candidates : match[n].age <= match[m].age
                   /\ Join(p, m, d)

(* Play.  A match in play is resumed, and only an open one is touched; the *)
(* look before the lock does the same with d = 0.  Otherwise the oldest    *)
(* joinable match is joined, passing over the rows another transaction     *)
(* holds (busy), or one is created.  A refused budget or an empty prompt   *)
(* pool changes nothing and is no step.                                    *)
CreateOrJoin(p, d) ==
    /\ UNCHANGED << rating, memory >>
    /\ LET mine == {m \in Match : InPlay(m, p, d)}
       IN  \/ \E m \in mine :
                /\ match[m].status = "open"
                /\ match' = [match EXCEPT ![m] = Touched(@, d)]
                /\ UNCHANGED ledger
           \/ /\ mine = {}
              /\ \E busy \in SUBSET {m \in Match : match[m].status = "open"} :
                   LET candidates == {m \in Match : Joinable(m, p, d)} \ busy
                   IN  IF candidates = {}
                       THEN Create(p, d)
                       ELSE \E m \in candidates :
                            /\ \A n \in candidates : match[n].age <= match[m].age
                            /\ Join(p, m, d)

(* The poll of an open match is its pulse. *)
Get(p, m) ==
    /\ p \in match[m].roster
    /\ match[m].status = "open"
    /\ match' = [match EXCEPT ![m] = Touched(@, 0)]
    /\ UNCHANGED << rating, ledger, memory >>

(* The creator leaves while someone joins. *)
Cancel_AnyStatus(p, m) ==
    /\ p \in match[m].roster
    /\ match[m].status \notin Terminal
    /\ match' = [match EXCEPT ![m] = Abandoned(@)]
    /\ UNCHANGED << rating, ledger, memory >>

Cancel(p, m) ==
    /\ p \in match[m].roster
    /\ match[m].status = "open"
    /\ match' = [match EXCEPT ![m] = Abandoned(@)]
    /\ UNCHANGED << rating, ledger, memory >>

(* Submit past the deadline, before the sweeper came by: the round is      *)
(* resolved and the drawing refused.                                       *)
SubmitLate(p, m, d) ==
    /\ p \in match[m].roster
    /\ isExpiredDrawing(m, d)
    /\ resolveExpiry(m)
    /\ UNCHANGED << ledger, memory >>

(* Two last submits that each miss the other: nobody flips the match. *)
Submit_NoFlip(p, m, i, d) ==
    /\ p \in match[m].roster \ match[m].submitted
    /\ match[m].status = "drawing" /\ ~isExpiredDrawing(m, d)
    /\ match' = [match EXCEPT ![m] = Stamped(@, p)]
    /\ UNCHANGED << rating, ledger, memory >>

(* Submit on time, through instance i: the slot is stamped, and the last   *)
(* of the roster sends the match to judging.                               *)
Submit(p, m, i, d) ==
    /\ p \in match[m].roster \ match[m].submitted
    /\ match[m].status = "drawing" /\ ~isExpiredDrawing(m, d)
    /\ LET row == Stamped(match[m], p)
       IN  IF row.submitted = row.roster
           THEN enterJudging(m, row, i, d)
           ELSE /\ match' = [match EXCEPT ![m] = row]
                /\ UNCHANGED << ledger, pass >>
    /\ UNCHANGED << rating, sweep, draining, crashes >>

-----------------------------------------------------------------------------
(* A judging pass (judgeMatch): read, judge, persist.  An error of any     *)
(* stage, or the end of JudgePassBudget, leaves the match to the sweeper.  *)
(* Whatever the end, goHeld returns the slot.                              *)

Return(k) == pass' = [pass EXCEPT ![k] = Idle]

(* The status and the ratings, read without a lock. *)
runJudging(k) ==
    LET m == pass[k].match
    IN  /\ pass[k].phase = "fired"
        /\ IF match[m].status = "judging"
           THEN pass' = [pass EXCEPT ![k].phase = "scoring",
                                     ![k].ratings = Seated(match[m].roster, rating)]
           ELSE Return(k)
        /\ UNCHANGED << match, rating, ledger, sweep, draining, crashes >>

(* The verdict written on the word of the unlocked status check. *)
persistResult_Unchecked(k, winner) ==
    LET m == pass[k].match
    IN  /\ pass[k].phase = "scoring"
        /\ winner \in match[m].roster \cup {NoPlayer}
        /\ writeFinalResult(m, pass[k].ratings, winner, "judged")
        /\ Return(k)
        /\ UNCHANGED << ledger, sweep, draining, crashes >>

(* The judge has answered: a winner, or NoPlayer for a tie.  The status is *)
(* checked again under the row lock.                                       *)
persistResult(k, winner) ==
    LET m == pass[k].match
    IN  /\ pass[k].phase = "scoring"
        /\ winner \in match[m].roster \cup {NoPlayer}
        /\ IF match[m].status = "judging"
           THEN writeFinalResult(m, pass[k].ratings, winner, "judged")
           ELSE UNCHANGED << match, rating >>
        /\ Return(k)
        /\ UNCHANGED << ledger, sweep, draining, crashes >>

judgeFails(k) ==
    /\ Running(k)
    /\ Return(k)
    /\ UNCHANGED << match, rating, ledger, sweep, draining, crashes >>

-----------------------------------------------------------------------------
(* The sweeper of an instance: four phases, each a list of candidates read *)
(* outside any transaction and then one transaction per candidate.         *)

Phase == {"expired", "stuck", "exhausted", "open"}

After(phase) == CASE phase = "expired" -> "stuck"
                  [] phase = "stuck" -> "exhausted"
                  [] phase = "exhausted" -> "open"
                  [] phase = "open" -> "expired"

Booted == [phase |-> "expired", todo |-> {}]

Listed(phase) ==
    CASE phase = "expired" -> {m \in Match : isExpiredDrawing(m, 0)}
      [] phase = "stuck" -> {m \in Match : Stuck(m)}
      [] phase = "exhausted" -> {m \in Match : Exhausted(m)}
      [] phase = "open" -> {m \in Match : StaleOpen(m)}

(* What is left of the phase: the next one when nothing is. *)
Advance(i, todo) ==
    sweep' = [sweep EXCEPT ![i] = IF todo = {} THEN [phase |-> After(@.phase), todo |-> {}]
                                  ELSE [@ EXCEPT !.todo = todo]]

Handles(i, phase, m) ==
    /\ i \notin draining
    /\ sweep[i].phase = phase
    /\ m \in sweep[i].todo
    /\ Advance(i, sweep[i].todo \ {m})

List(i) ==
    /\ i \notin draining
    /\ sweep[i].todo = {}
    /\ Advance(i, Listed(sweep[i].phase))
    /\ UNCHANGED << match, rating, ledger, pass, draining, crashes >>

resolveExpiredMatch(i, m, d) ==
    /\ Handles(i, "expired", m)
    /\ IF isExpiredDrawing(m, d) THEN resolveExpiry(m) ELSE UNCHANGED << match, rating >>
    /\ UNCHANGED << ledger, pass, draining, crashes >>

(* The status and the cap are checked again, the staleness is not.         *)
refirable_AnyAge(m, d) ==
    /\ match[m].status = "judging"
    /\ match[m].attempts < MaxAttempts

(* What refireJudging checks again under the row lock. *)
refirable(m, d) ==
    /\ match[m].status = "judging"
    /\ match[m].attempts < MaxAttempts
    /\ match[m].queued \/ match[m].age - d >= StaleSecs

(* One candidate of sweepStuckJudging: the slot is taken first, and given  *)
(* back when there is nothing to run.                                      *)
refireJudging(i, m, d) ==
    /\ Free(i) # {}
    /\ Handles(i, "stuck", m)
    /\ IF refirable(m, d)
       THEN enterJudging(m, match[m], i, d)
       ELSE UNCHANGED << match, ledger, pass >>
    /\ UNCHANGED << rating, draining, crashes >>

(* With every slot busy the rest of the list waits for the next tick. *)
deferStuck(i) ==
    /\ i \notin draining
    /\ Free(i) = {}
    /\ sweep[i].phase = "stuck" /\ sweep[i].todo # {}
    /\ Advance(i, {})
    /\ UNCHANGED << match, rating, ledger, pass, draining, crashes >>

(* No verdict: done without a winner, a score or a rating. *)
abortJudging(i, m) ==
    /\ Handles(i, "exhausted", m)
    /\ IF match[m].status = "judging" /\ match[m].attempts >= MaxAttempts
       THEN match' = [match EXCEPT ![m] =
                          Finished(@, "aborted", NoPlayer, NoRatings, NoRatings)]
       ELSE UNCHANGED match
    /\ UNCHANGED << rating, ledger, pass, draining, crashes >>

(* The list is trusted: a match joined since is abandoned all the same. *)
reapOpenMatch_Unchecked(i, m) ==
    /\ Handles(i, "open", m)
    /\ match' = [match EXCEPT ![m] = Abandoned(@)]
    /\ UNCHANGED << rating, ledger, pass, draining, crashes >>

(* Someone may have joined since the list; a pulse since then is not seen. *)
reapOpenMatch(i, m) ==
    /\ Handles(i, "open", m)
    /\ match' = IF match[m].status = "open" THEN [match EXCEPT ![m] = Abandoned(@)] ELSE match
    /\ UNCHANGED << rating, ledger, pass, draining, crashes >>

-----------------------------------------------------------------------------
(* Processes and time.                                                     *)

(* A crash takes the passes and the sweeper's place with it. *)
Crash(i) ==
    /\ i \notin draining
    /\ crashes < MaxCrashes /\ crashes' = crashes + 1
    /\ pass' = [k \in Slot |-> IF Home[k] = i THEN Idle ELSE pass[k]]
    /\ sweep' = [sweep EXCEPT ![i] = Booted]
    /\ UNCHANGED << match, rating, ledger, draining >>

(* SIGTERM: the sweeper stops and drains the judging slots; requests and   *)
(* passes in flight go on.                                                 *)
Shutdown(i) ==
    /\ i \notin draining
    /\ crashes < MaxCrashes /\ crashes' = crashes + 1
    /\ draining' = draining \cup {i}
    /\ UNCHANGED << match, rating, ledger, pass, sweep >>

(* The process exits, drained or not (main bounds the wait), and is        *)
(* started again.                                                          *)
Restart(i) ==
    /\ i \in draining
    /\ draining' = draining \ {i}
    /\ pass' = [k \in Slot |-> IF Home[k] = i THEN Idle ELSE pass[k]]
    /\ sweep' = [sweep EXCEPT ![i] = Booted]
    /\ UNCHANGED << match, rating, ledger, crashes >>

AgeCap(status) == CASE status = "open" -> OpenTTL + MaxDelay
                    [] status = "drawing" -> RoundSecs + MaxDelay
                    [] status = "judging" -> StaleSecs + MaxDelay
                    [] OTHER -> 0

Upto(n, cap) == IF n < cap THEN n + 1 ELSE n

Older(row) ==
    [row EXCEPT !.age = IF row.queued THEN 0 ELSE Upto(@, AgeCap(row.status)),
                !.seen = IF row.status = "open" THEN Upto(@, OpenPulse + MaxDelay) ELSE 0]

(* A second passes.  No pass outlives JudgePassBudget: its context ends it. *)
Tick ==
    /\ \A k \in Slot : pass[k].age < PassSecs
    /\ match' = [m \in Match |-> Older(match[m])]
    /\ pass' = [k \in Slot |-> IF Running(k) THEN [pass[k] EXCEPT !.age = @ + 1] ELSE pass[k]]
    /\ UNCHANGED << rating, ledger, sweep, draining, crashes >>

-----------------------------------------------------------------------------
Init ==
    /\ match = [m \in Match |-> NoRow]
    /\ rating = InitRating
    /\ ledger = [player |-> [p \in Player |-> 0], provider |-> 0]
    /\ pass = [k \in Slot |-> Idle]
    /\ sweep = [i \in Instance |-> Booted]
    /\ draining = {}
    /\ crashes = 0

Play == \E p \in Player :
    \/ \E d \in TxDelays : CreateOrJoin(p, d)
    \/ \E m \in Match : Get(p, m) \/ Cancel(p, m)
    \/ \E m \in Match, d \in TxDelays : SubmitLate(p, m, d)
    \/ \E m \in Match, i \in Instance, d \in TxDelays : Submit(p, m, i, d)

Judging(k) ==
    \/ runJudging(k)
    \/ \E winner \in Player \cup {NoPlayer} : persistResult(k, winner)
    \/ judgeFails(k)

Sweep(i) ==
    \/ List(i)
    \/ \E m \in Match, d \in TxDelays : resolveExpiredMatch(i, m, d) \/ refireJudging(i, m, d)
    \/ deferStuck(i)
    \/ \E m \in Match : abortJudging(i, m) \/ reapOpenMatch(i, m)

Next ==
    \/ Play
    \/ \E k \in Slot : Judging(k)
    \/ \E i \in Instance : Sweep(i) \/ Crash(i) \/ Shutdown(i) \/ Restart(i)
    \/ Tick

Spec == Init /\ [][Next]_vars

(* Time passes, a process that shuts down exits and is started again, a    *)
(* pass ends (its context bounds it), and each sweeper's ticker goes on.   *)
(* Nothing is asked of the players.                                        *)
FairSpec ==
    /\ Spec
    /\ WF_vars(Tick)
    /\ \A k \in Slot : WF_vars(Judging(k))
    /\ \A i \in Instance : WF_vars(Sweep(i)) /\ WF_vars(Restart(i))
=============================================================================
