------------------------------- MODULE AICall -------------------------------
(***************************************************************************)
(* Every request that may spend an AI provider's quota, from its check to  *)
(* its answer: a scored practice run, a guess, a drawing by the assistant, *)
(* and a press of play, whose duel bills its players when it is joined and *)
(* its provider at each judging pass.                                      *)
(*                                                                         *)
(* A request is a handler on a goroutine of its own: between any two of    *)
(* its statements other requests run, the sweeper runs, the caller hangs   *)
(* up or the process dies.  The count and the insert of one conditional    *)
(* insert are two steps: under READ COMMITTED two such statements overlap. *)
(***************************************************************************)
EXTENDS AIBudget

CONSTANTS
    Asks,         \* bound: the kinds each call may be of
    MaxParallel,  \* bound: requests of one player and kind at once
    MaxOpen       \* bound: requests at once

ASSUME ParallelAssumption ==
    /\ Asks \in [Call -> SUBSET AllKinds]
    /\ MaxParallel \in Nat \ {0} /\ MaxOpen \in Nat

VARIABLES
    req,          \* the requests: who asks, which kind, how far, the answer
    runs,         \* the rows of practice_runs: attempted, or scored
    made          \* history: the provider rows whose request was really made

vars == <<ledger, now, req, runs, made>>

\* How far a request got.  "waiting" and "round" are a duel that was created
\* and one that was joined: rows of matches, and no request any more.
Stage == {"new", "look", "mine", "checked", "attempted", "rendered", "spending",
          "billed", "asked", "answered", "waiting", "round", "ended"}

Solo == AllKinds \ {"duel"}

NewRequest == [user |-> Nobody, with |-> Nobody, kind |-> "none", stage |-> "new",
               at |-> 0, passes |-> 0]

At(c, s) == req[c].stage = s
Kind(c)  == req[c].kind
User(c)  == req[c].user
Open(c)  == req[c].stage \notin {"new", "waiting", "round", "ended"}
OpenOf(u, k) == {c \in Call : Open(c) /\ User(c) = u /\ Kind(c) = k}

Goes(c, s) == req' = [req EXCEPT ![c].stage = s]
Ended      == [NewRequest EXCEPT !.stage = "ended"]
Ends(c)    == req' = [req EXCEPT ![c] = Ended]
Records(rows) == ledger' = ledger \union rows
Rows(c) == recordAICallUnderCap(c, User(c), Kind(c), req[c].at)

\* A match the player is in: one they created and wait in, or a round.
InPlay(u) == \E d \in Call : \/ At(d, "waiting") /\ User(d) = u
                             \/ At(d, "round") /\ u \in {User(d), req[d].with}

Arrive(c, u, k) ==
    /\ At(c, "new") /\ k \in Asks[c]
    /\ Cardinality({d \in Call : Open(d)}) < MaxOpen
    /\ Cardinality(OpenOf(u, k)) < MaxParallel
    /\ req' = [req EXCEPT ![c].user = u, ![c].kind = k, ![c].stage = "look"]
    /\ UNCHANGED <<ledger, now, runs, made>>

(***************************************************************************)
(* What a handler refuses before any check: the assistant's rate limit, a  *)
(* body that does not parse or validate, an id that is none, a feature     *)
(* that has no impl.                                                       *)
(***************************************************************************)
Refuse(c) ==
    /\ At(c, "look") /\ Kind(c) \in Solo
    /\ Ends(c)
    /\ UNCHANGED <<ledger, now, runs, made>>

(***************************************************************************)
(* Budget.check: two queries.  Play looks first for a match in play and    *)
(* resumes it, which spends nothing.                                       *)
(***************************************************************************)
CheckUser(c) ==
    /\ At(c, "look")
    /\ Kind(c) \in Configured(Env)
    /\ IF ~(Kind(c) = "duel" /\ InPlay(User(c))) /\ UserHasRoom(User(c), Kind(c))
       THEN Goes(c, "mine") ELSE Ends(c)
    /\ UNCHANGED <<ledger, now, runs, made>>

CheckProvider(c) ==
    /\ At(c, "mine")
    /\ IF ProviderHasRoom(Kind(c)) THEN Goes(c, "checked") ELSE Ends(c)
    /\ UNCHANGED <<ledger, now, runs, made>>

\* A practice run looks its prompt up and commits its attempt.
Attempt(c) ==
    /\ At(c, "checked") /\ Kind(c) = "practice"
    /\ \/ Ends(c) /\ UNCHANGED runs
       \/ Goes(c, "attempted") /\ runs' = [runs EXCEPT ![c] = "attempted"]
    /\ UNCHANGED <<ledger, now, made>>

Render(c) ==
    /\ At(c, IF Kind(c) = "practice" THEN "attempted" ELSE "checked")
    /\ Kind(c) \in Solo
    /\ Goes(c, "rendered")
    /\ UNCHANGED <<ledger, now, runs, made>>

(***************************************************************************)
(* Budget.spend: the insert counts when it starts and is seen when it has  *)
(* committed.  It may commit and its answer be lost: the handler then ends *)
(* with an error, and a call that was billed is never made.                *)
(***************************************************************************)
SpendReads(c) ==
    /\ At(c, "rendered")
    /\ IF UserHasRoom(User(c), Kind(c))
       THEN req' = [req EXCEPT ![c].stage = "spending", ![c].at = now]
       ELSE Ends(c)
    /\ UNCHANGED <<ledger, now, runs, made>>

SpendWrites(c) ==
    /\ At(c, "spending")
    /\ \/ Records(Rows(c)) /\ Goes(c, "billed")
       \/ Records(Rows(c)) /\ Ends(c)
       \/ UNCHANGED ledger /\ Ends(c)
    /\ UNCHANGED <<now, runs, made>>

\* The provider is asked, at least once (the retries are not counted).
Ask(c) ==
    /\ At(c, "billed")
    /\ Goes(c, "asked")
    /\ made' = made \union {r \in Rows(c) : r.user = Nobody}
    /\ UNCHANGED <<ledger, now, runs>>

(***************************************************************************)
(* The answer.  The provider's own quota reads like the ceiling; an        *)
(* invalid answer, a time-out or a caller that hung up is a failure.  All  *)
(* of them were billed.                                                    *)
(***************************************************************************)
Answer(c) ==
    /\ At(c, "asked")
    /\ \/ IF Kind(c) = "practice" THEN Goes(c, "answered") ELSE Ends(c)
       \/ Ends(c)
    /\ UNCHANGED <<ledger, now, runs, made>>

StoreVerdict(c) ==
    /\ At(c, "answered")
    /\ runs' = [runs EXCEPT ![c] = "scored"]
    /\ Ends(c)
    /\ UNCHANGED <<ledger, now, made>>

\* A query or the render fails, the budget of the run is over or
\* the caller hangs up: the handler ends there, and what is written stays.
Fail(c) ==
    /\ Open(c) /\ req[c].stage \notin {"spending", "asked"}
    /\ Ends(c)
    /\ UNCHANGED <<ledger, now, runs, made>>

(***************************************************************************)
(* The duel, as far as the ledger sees it (module Duel has the rest).      *)
(***************************************************************************)
Play(c) ==
    /\ At(c, "checked") /\ Kind(c) = "duel"
    /\ \/ InPlay(User(c)) /\ Ends(c) /\ UNCHANGED ledger
       \/ ~InPlay(User(c)) /\ Goes(c, "waiting") /\ UNCHANGED ledger
       \/ /\ ~InPlay(User(c))
          /\ \E d \in Call :
                /\ At(d, "waiting")
                /\ req' = [req EXCEPT ![d].stage = "round", ![d].with = User(c),
                                      ![c] = Ended]
                /\ Records(billPlayers(d, {User(d), User(c)}))
    /\ UNCHANGED <<now, runs, made>>

\* enterJudging: the attempt is counted and billed in one transaction.
StartPass(d) ==
    /\ At(d, "round") /\ req[d].passes < MaxPasses
    /\ req' = [req EXCEPT ![d].passes = @ + 1]
    /\ Records(billProvider(d, req[d].passes + 1))
    /\ made' = made \union billProvider(d, req[d].passes + 1)
    /\ UNCHANGED <<now, runs>>

\* Cancelled, reaped, expired, judged, or given up.
MatchEnds(d) ==
    /\ At(d, "waiting") \/ At(d, "round")
    /\ Ends(d)
    /\ UNCHANGED <<ledger, now, runs, made>>

(***************************************************************************)
(* The process and its sweeper.                                            *)
(***************************************************************************)
Sweep == \E skew \in -MaxSkew .. MaxSkew :
    /\ ledger' = Kept(skew)
    /\ UNCHANGED <<now, req, runs, made>>

\* Every request under way is lost; an insert under way may still commit.
Crash ==
    /\ \E committed \in SUBSET {c \in Call : At(c, "spending")} :
          Records(UNION {Rows(c) : c \in committed})
    /\ req' = [c \in Call |-> IF Open(c) THEN Ended ELSE req[c]]
    /\ UNCHANGED <<now, runs, made>>

Tick ==
    /\ now < MaxTime
    /\ now' = now + 1
    /\ UNCHANGED <<ledger, req, runs, made>>

Init ==
    /\ ledger = {} /\ now = 0
    /\ req = [c \in Call |-> NewRequest]
    /\ runs = [c \in Call |-> "none"]
    /\ made = {}

Handle(c) ==
    \/ \E u \in Player, k \in AllKinds : Arrive(c, u, k)
    \/ Refuse(c) \/ CheckUser(c) \/ CheckProvider(c) \/ Attempt(c) \/ Render(c)
    \/ SpendReads(c) \/ SpendWrites(c) \/ Ask(c) \/ Answer(c) \/ StoreVerdict(c)
    \/ Fail(c) \/ Play(c) \/ StartPass(c) \/ MatchEnds(c)

Next == (\E c \in Call : Handle(c)) \/ Sweep \/ Crash \/ Tick

Spec == Init /\ [][Next]_vars
=============================================================================
