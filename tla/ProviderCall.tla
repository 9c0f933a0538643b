---------------------------- MODULE ProviderCall ----------------------------
(***************************************************************************)
(* What happens inside one AI call: a judging pass, a practice run, a guess*)
(* or a drawing by the assistant waits for a worker to render, is billed,  *)
(* and asks its provider with retries, all under one context that ends.    *)
(* The calls share the worker slots; passes share the judging slots too.   *)
(*                                                                         *)
(* Time is counted down: a deadline or a timer is the number of ticks it   *)
(* still has, and a tick waits for whoever has none left.                  *)
(***************************************************************************)
EXTENDS Integers, FiniteSets

CONSTANTS
    Job, KindOf,
    Concurrency,    \* JUDGE_CONCURRENCY: passes at once, and workers at once
    Budget,         \* by kind: JudgePassBudget, RunBudget, AssistRunBudget
    Timeout,        \* by kind: one attempt
    Backoff,        \* the longest wait before a retry
    WriteBy,        \* by kind: when the response can no longer be written
    MaxStall        \* bound: how long a request's own queries take, in all

Kinds == {"duel", "practice", "guess", "assist"}
Solo  == Kinds \ {"duel"}

MaxAttempts == 3    \* one try and two retries
Images(k) == IF k = "duel" THEN 2 ELSE 1
MaxAsks(k) == IF k = "assist" THEN 2 ELSE 1

\* An attempt at full length each time, and the waits between them.
Envelope(k) == MaxAttempts * Timeout[k] + (MaxAttempts - 1) * Backoff

ASSUME ProviderCallAssumption ==
    /\ IsFiniteSet(Job) /\ KindOf \in [Job -> Kinds] /\ Concurrency \in Nat \ {0}
    /\ Budget \in [Kinds -> Nat \ {0}] /\ Timeout \in [Kinds -> Nat \ {0}]
    /\ Backoff \in Nat /\ MaxStall \in Nat
    /\ Budget["assist"] = MaxAsks("assist") * Timeout["assist"]
    /\ Envelope("duel") < Budget["duel"]
    /\ WriteBy \in [Solo -> Nat] /\ \A k \in Solo : Budget[k] + MaxStall < WriteBy[k]

VARIABLES
    job,        \* the calls: how far, and what their clocks still have
    workers,    \* the renderer's slots taken
    judging,    \* the judging slots taken
    requests,   \* history: the requests a call has sent to its provider so far
    atCall      \* history: what its context had left when it first asked

vars == <<job, workers, judging, requests, atCall>>

Stage == {"new", "checking", "waiting", "rendering", "spending", "asking", "backoff", "ended"}

NewJob == [stage |-> "new", left |-> 0, timer |-> 0, stall |-> MaxStall, age |-> 0,
           images |-> 0, try |-> 0, ask |-> 0]

Kind(j)  == KindOf[j]
At(j, s) == job[j].stage = s
Pass(j)  == Kind(j) = "duel"
Live(j)  == job[j].stage \notin {"new", "ended"}

\* The stages that end when the context does.
Bounded(j) == job[j].stage \in {"waiting", "rendering", "asking", "backoff"}

Ended == [NewJob EXCEPT !.stage = "ended"]

\* A render that is over, however, gives its worker back.
workers_Leaked(j) == IF At(j, "rendering") /\ job[j].left > 0 THEN workers - 1 ELSE workers

WorkersAfter(j) == IF At(j, "rendering") THEN workers - 1 ELSE workers

\* The handler returns, or goHeld's function does: every slot is given back.
Ends(j) ==
    /\ job' = [job EXCEPT ![j] = Ended]
    /\ workers' = WorkersAfter(j)
    /\ judging' = IF Pass(j) THEN judging - 1 ELSE judging
    /\ requests' = [requests EXCEPT ![j] = 0]
    /\ atCall' = [atCall EXCEPT ![j] = 0]

(***************************************************************************)
(* The beginning.                                                          *)
(***************************************************************************)
\* A pass starts with a judging slot held, on a context of its own ...
StartPass(j) ==
    /\ At(j, "new") /\ Pass(j) /\ judging < Concurrency
    /\ judging' = judging + 1
    /\ job' = [job EXCEPT ![j].stage = "waiting", ![j].left = Budget["duel"], ![j].images = 2]
    /\ UNCHANGED <<workers, requests, atCall>>

Arrive(j) ==
    /\ At(j, "new") /\ ~Pass(j)
    /\ job' = [job EXCEPT ![j].stage = "checking"]
    /\ UNCHANGED <<workers, judging, requests, atCall>>

\* ... and a request makes its own after its checks.
StartWork(j) ==
    /\ At(j, "checking")
    /\ job' = [job EXCEPT ![j].stage = "waiting", ![j].left = Budget[Kind(j)],
                          ![j].images = Images(Kind(j))]
    /\ UNCHANGED <<workers, judging, requests, atCall>>

(***************************************************************************)
(* The render: any waiter takes a free slot.                               *)
(***************************************************************************)
TakeSlot(j) ==
    /\ At(j, "waiting") /\ workers < Concurrency
    /\ workers' = workers + 1
    /\ job' = [job EXCEPT ![j].stage = "rendering"]
    /\ UNCHANGED <<judging, requests, atCall>>

\* The first request, or the next: none is sent on a context that is over.
Asks(j, ask) ==
    /\ job' = [job EXCEPT ![j].stage = "asking", ![j].ask = ask, ![j].try = 1,
                          ![j].timer = Timeout[Kind(j)]]
    /\ requests' = [requests EXCEPT ![j] = IF job[j].left > 0 THEN @ + 1 ELSE @]
    /\ atCall' = [atCall EXCEPT ![j] = IF ask = 1 THEN job[j].left ELSE @]

Rendered(j) ==
    /\ At(j, "rendering")
    /\ workers' = WorkersAfter(j)
    /\ UNCHANGED judging
    /\ \/ /\ job[j].images > 1
          /\ job' = [job EXCEPT ![j].stage = "waiting", ![j].images = @ - 1]
          /\ UNCHANGED <<requests, atCall>>
       \/ job[j].images = 1 /\ Pass(j) /\ Asks(j, 1)
       \/ /\ job[j].images = 1 /\ ~Pass(j)
          /\ job' = [job EXCEPT ![j].stage = "spending"]
          /\ UNCHANGED <<requests, atCall>>

\* Mutant: the provider is asked on a context of its own.
Spent_FreshContext(j) ==
    /\ At(j, "spending")
    /\ job' = [job EXCEPT ![j].stage = "asking", ![j].ask = 1, ![j].try = 1,
                          ![j].timer = Timeout[Kind(j)], ![j].left = Budget[Kind(j)]]
    /\ requests' = [requests EXCEPT ![j] = @ + 1]
    /\ atCall' = [atCall EXCEPT ![j] = Budget[Kind(j)]]
    /\ UNCHANGED <<workers, judging>>

\* The bill is paid on the request's context, which the budget does not bound: by
\* then the work's own may be over, and nothing is asked of what was paid for.
Spent(j) ==
    /\ At(j, "spending")
    /\ Asks(j, 1)
    /\ UNCHANGED <<workers, judging>>

(***************************************************************************)
(* The provider.                                                           *)
(***************************************************************************)
\* Mutant: one retry more.
CanRetry_Off(j) == job[j].try <= MaxAttempts

CanRetry(j) == job[j].try < MaxAttempts

\* A reset, a 5xx, or the end of the attempt's time.
Transient(j) ==
    /\ At(j, "asking") /\ job[j].left > 0
    /\ IF CanRetry(j)
       THEN /\ job' = [job EXCEPT ![j].stage = "backoff", ![j].timer = Backoff]
            /\ UNCHANGED <<workers, judging, requests, atCall>>
       ELSE Ends(j)

Retry(j) ==
    /\ At(j, "backoff") /\ job[j].left > 0
    /\ job' = [job EXCEPT ![j].stage = "asking", ![j].try = @ + 1,
                          ![j].timer = Timeout[Kind(j)]]
    /\ requests' = [requests EXCEPT ![j] = @ + 1]
    /\ UNCHANGED <<workers, judging, atCall>>

\* The answer is there and holds.
Answered(j) ==
    /\ At(j, "asking") /\ job[j].left > 0
    /\ Ends(j)

\* The answer does not validate: only the assistant asks again, and says why.
Invalid(j) ==
    /\ At(j, "asking") /\ job[j].left > 0
    /\ IF job[j].ask < MaxAsks(Kind(j))
       THEN Asks(j, job[j].ask + 1) /\ UNCHANGED <<workers, judging>>
       ELSE Ends(j)

\* A 4xx, the quota, an answer blocked or empty; a query or a render that failed;
\* a caller that hung up (a pass has none).
Fails(j) ==
    /\ Live(j)
    /\ Ends(j)

\* Mutant: a render waits for its worker without looking at the context.
CtxDone_NotWaiting(j) ==
    /\ Bounded(j) /\ ~At(j, "waiting") /\ job[j].left = 0
    /\ Ends(j)

\* The context is over: the wait, the worker, the attempt or the backoff ends.
CtxDone(j) ==
    /\ Bounded(j) /\ job[j].left = 0
    /\ Ends(j)

(***************************************************************************)
(* Time.                                                                   *)
(***************************************************************************)
MayTick(j) ==
    /\ Bounded(j) => job[j].left > 0
    /\ job[j].stage \in {"asking", "backoff"} => job[j].timer > 0
    /\ job[j].stage \in {"checking", "spending"} => job[j].stall > 0

Less(n) == IF n > 0 THEN n - 1 ELSE 0

Older(j) ==
    [job[j] EXCEPT !.left  = Less(@),
                   !.timer = Less(@),
                   !.stall = IF job[j].stage \in {"checking", "spending"} THEN @ - 1 ELSE @,
                   !.age   = IF Pass(j) THEN 0 ELSE @ + 1]

Tick ==
    /\ \A j \in Job : Live(j) => MayTick(j)
    /\ job' = [j \in Job |-> IF Live(j) THEN Older(j) ELSE job[j]]
    /\ UNCHANGED <<workers, judging, requests, atCall>>

Init ==
    /\ job = [j \in Job |-> NewJob]
    /\ workers = 0 /\ judging = 0
    /\ requests = [j \in Job |-> 0] /\ atCall = [j \in Job |-> 0]

\* What the program does by itself, whatever providers and workers do.
Own(j) ==
    \/ StartWork(j) \/ Spent(j) \/ Retry(j) \/ CtxDone(j)
    \/ Transient(j) /\ job[j].timer = 0

Next ==
    \/ \E j \in Job : \/ StartPass(j) \/ Arrive(j) \/ TakeSlot(j) \/ Rendered(j)
                      \/ Transient(j) \/ Answered(j) \/ Invalid(j) \/ Fails(j)
                      \/ Own(j)
    \/ Tick

(***************************************************************************)
(* Nobody promises a render or an answer: timers and contexts run out, and *)
(* the program goes on by itself.                                          *)
(***************************************************************************)
Spec == Init /\ [][Next]_vars /\ WF_vars(Tick) /\ \A j \in Job : WF_vars(Own(j))
=============================================================================
