------------------------------- MODULE Config -------------------------------
(***************************************************************************)
(* What the environment of the server means, and which environments it     *)
(* refuses to boot with: config.Load, the AI seams that newAI builds, and  *)
(* the ceilings that aibudget.Policies resolves for them.                  *)
(*                                                                         *)
(* An environment is a record.  A variable that is not set has the value   *)
(* Unset; a list "kind=value" is a function on the names it gives.  Text   *)
(* is abstracted to what is asked of it: whether it is there and valid.    *)
(***************************************************************************)
EXTENDS Integers

CONSTANTS Unset,        \* a variable the operator did not set
          NoProvider    \* the impl built for a kind calls nobody

(***************************************************************************)
(* The kinds of AI call, and what one player may spend by default.         *)
(***************************************************************************)
AllKinds == {"duel", "practice", "guess", "assist"}

DefaultPerUser == [duel |-> 3, practice |-> 3, guess |-> 2, assist |-> 5]

Or(v, fallback) == IF v = Unset THEN fallback ELSE v

\* PRACTICE_MODE and GUESS_MODE follow JUDGE_MODE, but the http judge has
\* neither a critic nor a guesser.
seamMode(e, v) == Or(v, IF e.judgeMode = "http" THEN "off" ELSE e.judgeMode)

Modes(e) == [duel     |-> e.judgeMode,
             practice |-> seamMode(e, e.practiceMode),
             guess    |-> seamMode(e, e.guessMode),
             assist   |-> e.assistMode]

ModesLoad(e) ==
    /\ e.judgeMode \in {"fake", "http", "gemini"}
    /\ e.judgeMode = "http" => e.judgeURL
    /\ \A k \in {"practice", "guess"} : Modes(e)[k] \in {"fake", "gemini", "off"}
    /\ e.assistMode \in {"fake", "gemini"}
    /\ (\E k \in AllKinds : Modes(e)[k] = "gemini") => e.geminiKey

loadAIBudget(e) ==
    /\ e.aiDailyGlobal >= 1
    /\ \A k \in DOMAIN e.aiDailyPerUser : e.aiDailyPerUser[k] >= 1

loadWSLimits(e) ==
    /\ 0 < e.wsHeartbeat /\ e.wsHeartbeat < e.wsReadIdle
    /\ 1 <= e.wsMaxConnsPerIP /\ e.wsMaxConnsPerIP <= e.wsMaxConns

\* Every error return of Load that is about more than the shape of a text.
Load(e) ==
    /\ e.required                       \* ENV, JWT_SECRET and DATABASE_URL
    /\ e.dbMaxConns >= 1
    /\ e.judgeConcurrency >= 1
    /\ loadAIBudget(e)
    /\ loadWSLimits(e)
    /\ e.renderMode = "stub" \/ (e.renderMode = "node" /\ e.renderCLI)
    /\ e.judgeTimeout > 0
    /\ ModesLoad(e)
    /\ e.assistTimeout > 0

(***************************************************************************)
(* Which model each kind asks, and whose quota a call spends.              *)
(***************************************************************************)
Models(e) ==
    [k \in AllKinds |-> IF k \in DOMAIN e.aiModelPerKind THEN e.aiModelPerKind[k]
                        ELSE e.geminiModel]

WithModel(p, model) == <<p, model>>

\* newJudge, newCritic, newGuesser, newAssist: each names the provider of the
\* impl it builds.  The judge service is one pool whatever model is behind it.
Providers(e) ==
    [k \in AllKinds |->
        CASE Modes(e)[k] = "gemini"             -> WithModel("google", Models(e)[k])
          [] k = "duel" /\ Modes(e)[k] = "http" -> <<"collaborator">>
          [] OTHER                              -> NoProvider]

\* The kinds that have an impl at all: "off" leaves the critic or guesser nil.
Configured(e) == {k \in AllKinds : Modes(e)[k] # "off"}

PerUser(e) ==
    [k \in AllKinds |-> IF k \in DOMAIN e.aiDailyPerUser THEN e.aiDailyPerUser[k]
                        ELSE DefaultPerUser[k]]

\* The boot errors of Models and Policies.
Policies(e) ==
    /\ DOMAIN e.aiModelPerKind \subseteq AllKinds
    /\ DOMAIN e.aiDailyPerUser \subseteq AllKinds
    /\ \A k \in AllKinds :
          Providers(e)[k] # NoProvider =>
              1 <= PerUser(e)[k] /\ PerUser(e)[k] < e.aiDailyGlobal

Boots(e) == Load(e) /\ Policies(e)
=============================================================================
