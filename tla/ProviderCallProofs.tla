------------------------- MODULE ProviderCallProofs -------------------------
(***************************************************************************)
(* Proofs about ProviderCall, for any number of calls and slots and any    *)
(* budgets that fit the assumption: slots balance, requests are bounded,   *)
(* a pass has time for its retries and a request for its answer.           *)
(***************************************************************************)
EXTENDS ProviderCallProperties, FiniteSetTheorems, TLAPS

(***************************************************************************)
(* The inductive invariant, one call at a time.                            *)
(***************************************************************************)
InCall(j) == job[j].stage \in {"asking", "backoff"}

\* How many requests a call has sent at most, by its ask and its try.
Counted(j) ==
    /\ InCall(j) => /\ job[j].try >= 1 /\ job[j].ask >= 1 /\ job[j].ask <= MaxAsks(Kind(j))
                    /\ requests[j] <= MaxAttempts * (job[j].ask - 1) + job[j].try
    /\ ~InCall(j) => requests[j] = 0

\* What the tries before this one have taken at most, and a pass at most since it
\* first asked.
Tried(n) == IF n = 1 THEN 0 ELSE IF n = 2 THEN Timeout["duel"] + Backoff
            ELSE Timeout["duel"] + Backoff + Timeout["duel"] + Backoff

Paced(j) ==
    /\ At(j, "asking")  => job[j].timer <= Timeout[Kind(j)]
    /\ At(j, "backoff") => job[j].timer <= Backoff /\ job[j].try < MaxAttempts
    /\ Pass(j) /\ At(j, "asking")  =>
          atCall[j] <= job[j].left + Tried(job[j].try) + (Timeout["duel"] - job[j].timer)
    /\ Pass(j) /\ At(j, "backoff") =>
          atCall[j] <= job[j].left + Tried(job[j].try) + Timeout["duel"]
                           + (Backoff - job[j].timer)

\* A request has lived as long as its queries stalled and its work took.
Aging(j) ==
    ~Pass(j) => \/ job[j].stage \in {"new", "ended"} /\ job[j].age = 0
                            /\ job[j].stall = MaxStall
                \/ At(j, "checking") /\ job[j].age <= MaxStall - job[j].stall
                \/ /\ Live(j) /\ ~At(j, "checking") /\ job[j].left <= Budget[Kind(j)]
                   /\ job[j].age <= (MaxStall - job[j].stall) + (Budget[Kind(j)] - job[j].left)

JobInv(j) == Counted(j) /\ Paced(j) /\ Aging(j)

\* A pass is live from its slot on, a request never holds one.
Staged(j) == Pass(j) => ~At(j, "checking") /\ ~At(j, "spending")

Rendering == {j \in Job : At(j, "rendering")}
Passes    == {j \in Job : Pass(j) /\ Live(j)}

IInv == TypeOK /\ SlotsBalance /\ \A j \in Job : JobInv(j) /\ Staged(j)

Act(j) == \/ StartPass(j) \/ Arrive(j) \/ TakeSlot(j) \/ Rendered(j)
          \/ Transient(j) \/ Answered(j) \/ Invalid(j) \/ Fails(j) \/ Own(j)

(***************************************************************************)
(* Facts about the constants.                                              *)
(***************************************************************************)
LEMMA Constants ==
    /\ IsFiniteSet(Job) /\ Concurrency \in Nat \ {0} /\ Backoff \in Nat /\ MaxStall \in Nat
    /\ Timeout["duel"] \in Nat
    /\ \A j \in Job : /\ Kind(j) \in Kinds /\ Timeout[Kind(j)] \in Nat
                      /\ Budget[Kind(j)] \in Nat
                      /\ ~Pass(j) => /\ Kind(j) \in Solo /\ WriteBy[Kind(j)] \in Nat
                                     /\ Budget[Kind(j)] + MaxStall < WriteBy[Kind(j)]
BY ProviderCallAssumption DEF Kind, Pass, Kinds, Solo

(***************************************************************************)
(* A step of a call.                                                       *)
(***************************************************************************)
\* A call changes nobody's record but its own.
LEMMA ActIsItsOwn ==
    ASSUME TypeOK, NEW j \in Job, JobInv(j), Act(j)
    PROVE  /\ job' \in [Job -> JobType]
           /\ requests' \in [Job -> Nat] /\ atCall' \in [Job -> Nat]
           /\ \A i \in Job \ {j} : /\ job'[i] = job[i] /\ requests'[i] = requests[i]
                                   /\ atCall'[i] = atCall[i]
<1>1. /\ job \in [Job -> JobType] /\ requests \in [Job -> Nat] /\ atCall \in [Job -> Nat]
    BY DEF TypeOK
<1>2. job[j] \in JobType
    BY <1>1
<1>3. NewJob \in JobType /\ Ended \in JobType
    BY Constants DEF NewJob, Ended, JobType, Stage, MaxAttempts
<1>4. ASSUME Ends(j)
      PROVE  /\ job' \in [Job -> JobType]
             /\ requests' \in [Job -> Nat] /\ atCall' \in [Job -> Nat]
             /\ \A i \in Job \ {j} : /\ job'[i] = job[i] /\ requests'[i] = requests[i]
                                     /\ atCall'[i] = atCall[i]
    BY <1>1, <1>3, <1>4 DEF Ends
<1>5. ASSUME NEW ask \in 1 .. 2, Asks(j, ask)
      PROVE  /\ job' \in [Job -> JobType]
             /\ requests' \in [Job -> Nat] /\ atCall' \in [Job -> Nat]
             /\ \A i \in Job \ {j} : /\ job'[i] = job[i] /\ requests'[i] = requests[i]
                                     /\ atCall'[i] = atCall[i]
  <2>0. "asking" \in Stage /\ ask \in 0 .. 2 /\ 1 \in 0 .. MaxAttempts /\ Timeout[Kind(j)] \in Nat
    BY Constants DEF Stage, MaxAttempts
  <2>1. [job[j] EXCEPT !.stage = "asking", !.ask = ask, !.try = 1,
                       !.timer = Timeout[Kind(j)]] \in JobType
    BY <1>2, <2>0 DEF JobType
  <2>2. job' = [job EXCEPT ![j] = [job[j] EXCEPT !.stage = "asking", !.ask = ask, !.try = 1,
                                                 !.timer = Timeout[Kind(j)]]]
    BY <1>1, <1>5 DEF Asks
  <2>3. job[j].left \in Nat
    BY <1>2 DEF JobType
  <2> HIDE DEF Asks
  <2>4. requests' \in [Job -> Nat] /\ atCall' \in [Job -> Nat]
    BY <1>1, <1>5, <2>3 DEF Asks
  <2>5. \A i \in Job \ {j} : requests'[i] = requests[i] /\ atCall'[i] = atCall[i]
    BY <1>1, <1>5 DEF Asks
  <2> QED
    BY <1>1, <2>1, <2>2, <2>4, <2>5
<1>6. ASSUME NEW r \in JobType, job' = [job EXCEPT ![j] = r], atCall' = atCall,
             requests' = requests \/ requests' = [requests EXCEPT ![j] = @ + 1]
      PROVE  /\ job' \in [Job -> JobType]
             /\ requests' \in [Job -> Nat] /\ atCall' \in [Job -> Nat]
             /\ \A i \in Job \ {j} : /\ job'[i] = job[i] /\ requests'[i] = requests[i]
                                     /\ atCall'[i] = atCall[i]
    BY <1>1, <1>6
<1>7. CASE StartPass(j)
  <2>0. "waiting" \in Stage /\ Budget["duel"] \in Nat /\ 2 \in 0 .. 2
    BY ProviderCallAssumption DEF Stage, Kinds
  <2>1. [job[j] EXCEPT !.stage = "waiting", !.left = Budget["duel"], !.images = 2] \in JobType
    BY <1>2, <2>0 DEF JobType
  <2> QED
    BY <1>6, <1>7, <2>1 DEF StartPass
<1>8. CASE Arrive(j)
  <2>1. [job[j] EXCEPT !.stage = "checking"] \in JobType
    BY <1>2 DEF JobType, Stage
  <2> QED
    BY <1>6, <1>8, <2>1 DEF Arrive
<1>9. CASE TakeSlot(j)
  <2>1. [job[j] EXCEPT !.stage = "rendering"] \in JobType
    BY <1>2 DEF JobType, Stage
  <2> QED
    BY <1>6, <1>9, <2>1 DEF TakeSlot
<1>10. CASE Rendered(j)
  <2>1. CASE Asks(j, 1)
    BY <1>5, <2>1
  <2>2. CASE job[j].images > 1 /\ job' = [job EXCEPT ![j].stage = "waiting", ![j].images = @ - 1]
             /\ UNCHANGED <<requests, atCall>>
    <3>0. "waiting" \in Stage /\ job[j].images - 1 \in 0 .. 2
      BY <1>2, <2>2 DEF JobType, Stage
    <3>1. [job[j] EXCEPT !.stage = "waiting", !.images = @ - 1] \in JobType
      BY <1>2, <3>0 DEF JobType
    <3> QED
      BY <1>6, <2>2, <3>1
  <2>3. CASE job' = [job EXCEPT ![j].stage = "spending"] /\ UNCHANGED <<requests, atCall>>
    <3>1. [job[j] EXCEPT !.stage = "spending"] \in JobType
      BY <1>2 DEF JobType, Stage
    <3> QED
      BY <1>6, <2>3, <3>1
  <2> QED
    BY <1>10, <2>1, <2>2, <2>3 DEF Rendered
<1>11. CASE Transient(j)
  <2>1. CASE CanRetry(j)
    <3>1. [job[j] EXCEPT !.stage = "backoff", !.timer = Backoff] \in JobType
      BY <1>2, Constants DEF JobType, Stage
    <3> QED
      BY <1>6, <1>11, <2>1, <3>1 DEF Transient
  <2> QED
    BY <1>4, <1>11, <2>1 DEF Transient
<1>12. CASE Answered(j) \/ Fails(j) \/ CtxDone(j)
    BY <1>4, <1>12 DEF Answered, Fails, CtxDone
<1>13. CASE Invalid(j)
  <2>1. CASE job[j].ask < MaxAsks(Kind(j))
    <3>1. job[j].ask + 1 \in 1 .. 2
      BY <1>2, <2>1 DEF JobType, MaxAsks
    <3> QED
      BY <1>5, <1>13, <2>1, <3>1 DEF Invalid
  <2> QED
    BY <1>4, <1>13, <2>1 DEF Invalid
<1>14. CASE StartWork(j)
  <2>0. "waiting" \in Stage /\ Budget[Kind(j)] \in Nat /\ Images(Kind(j)) \in 0 .. 2
    BY Constants DEF Stage, Images
  <2>1. [job[j] EXCEPT !.stage = "waiting", !.left = Budget[Kind(j)],
                       !.images = Images(Kind(j))] \in JobType
    BY <1>2, <2>0 DEF JobType
  <2> QED
    BY <1>6, <1>14, <2>1 DEF StartWork
<1>15. CASE Spent(j)
    BY <1>5, <1>15 DEF Spent
<1>16. CASE Retry(j)
  <2>0. "asking" \in Stage /\ job[j].try + 1 \in 0 .. MaxAttempts /\ Timeout[Kind(j)] \in Nat
    BY <1>2, <1>16, Constants DEF Retry, JobInv, Paced, JobType, Stage, MaxAttempts
  <2>1. [job[j] EXCEPT !.stage = "asking", !.try = @ + 1, !.timer = Timeout[Kind(j)]] \in JobType
    BY <1>2, <2>0 DEF JobType
  <2> QED
    BY <1>6, <1>16, <2>1 DEF Retry
<1> QED
    BY <1>7, <1>8, <1>9, <1>10, <1>11, <1>12, <1>13, <1>14, <1>15, <1>16 DEF Act, Own

(***************************************************************************)
(* What a call keeps of its counters and clocks.                           *)
(***************************************************************************)
LEMMA ActKeepsJobInv ==
    ASSUME TypeOK, NEW j \in Job, JobInv(j), Staged(j), Act(j)
    PROVE  JobInv(j)' /\ Staged(j)'
<1>1. /\ job \in [Job -> JobType] /\ requests \in [Job -> Nat] /\ atCall \in [Job -> Nat]
      /\ job[j] \in JobType /\ requests[j] \in Nat /\ atCall[j] \in Nat
    BY DEF TypeOK
<1>2. /\ job[j].left \in Nat /\ job[j].timer \in Nat /\ job[j].stall \in 0 .. MaxStall
      /\ job[j].age \in Nat /\ job[j].try \in 0 .. 3 /\ job[j].ask \in 0 .. 2
    BY <1>1 DEF JobType, MaxAttempts
<1>3. /\ Kind(j)' = Kind(j) /\ (Pass(j)' <=> Pass(j))
      /\ Timeout[Kind(j)] \in Nat /\ Budget[Kind(j)] \in Nat /\ Backoff \in Nat
      /\ MaxStall \in Nat /\ Timeout["duel"] \in Nat
      /\ MaxAsks(Kind(j)) \in 1 .. 2
      /\ Pass(j) => Kind(j) = "duel"
    BY Constants DEF Kind, Pass, MaxAsks
<1>4. ASSUME Ends(j)
      PROVE  JobInv(j)' /\ Staged(j)'
  <2>1. job'[j] = Ended /\ requests'[j] = 0 /\ atCall'[j] = 0
    BY <1>1, <1>4 DEF Ends
  <2> QED
    BY <2>1, <1>3 DEF Ended, NewJob, JobInv, Counted, Paced, Aging, Staged, InCall, At, Live
<1>5. ASSUME NEW ask \in 1 .. 2, ask <= MaxAsks(Kind(j)), Asks(j, ask),
             requests[j] <= MaxAttempts * (ask - 1), Pass(j) => ask = 1,
             At(j, "rendering") \/ At(j, "spending") \/ At(j, "asking")
      PROVE  JobInv(j)' /\ Staged(j)'
  <2>1. /\ job'[j] = [job[j] EXCEPT !.stage = "asking", !.ask = ask, !.try = 1,
                                    !.timer = Timeout[Kind(j)]]
        /\ requests'[j] = IF job[j].left > 0 THEN requests[j] + 1 ELSE requests[j]
        /\ atCall'[j] = IF ask = 1 THEN job[j].left ELSE atCall[j]
    BY <1>1, <1>5 DEF Asks
  <2>2. /\ job'[j].stage = "asking" /\ job'[j].ask = ask /\ job'[j].try = 1
        /\ job'[j].timer = Timeout[Kind(j)] /\ job'[j].left = job[j].left
        /\ job'[j].age = job[j].age /\ job'[j].stall = job[j].stall
    BY <1>1, <2>1 DEF JobType
  <2>3. Counted(j)'
    BY <1>1, <1>2, <1>3, <1>5, <2>1, <2>2 DEF Counted, InCall, MaxAttempts, At
  <2>4. Paced(j)'
    BY <1>2, <1>3, <1>5, <2>1, <2>2 DEF Paced, At, Tried
  <2>5. Aging(j)' /\ Staged(j)'
    BY <1>2, <1>3, <1>5, <2>2 DEF JobInv, Aging, Staged, At, Live
  <2> QED
    BY <2>3, <2>4, <2>5 DEF JobInv
<1>7. CASE StartPass(j)
  <2>1. job'[j] = [job[j] EXCEPT !.stage = "waiting", !.left = Budget["duel"], !.images = 2]
        /\ requests'[j] = requests[j]
    BY <1>1, <1>7 DEF StartPass
  <2>2. job'[j].stage = "waiting"
    BY <1>1, <2>1 DEF JobType
  <2> QED
    BY <1>3, <1>7, <2>1, <2>2
    DEF StartPass, JobInv, Counted, Paced, Aging, Staged, InCall, At
<1>8. CASE Arrive(j)
  <2>1. job'[j] = [job[j] EXCEPT !.stage = "checking"] /\ requests'[j] = requests[j]
    BY <1>1, <1>8 DEF Arrive
  <2>2. /\ job'[j].stage = "checking" /\ job'[j].age = job[j].age
        /\ job'[j].stall = job[j].stall
    BY <1>1, <2>1 DEF JobType
  <2> QED
    BY <1>2, <1>3, <1>8, <2>1, <2>2
    DEF Arrive, JobInv, Counted, Paced, Aging, Staged, InCall, At, Live
<1>9. CASE TakeSlot(j)
  <2>1. job'[j] = [job[j] EXCEPT !.stage = "rendering"] /\ requests'[j] = requests[j]
    BY <1>1, <1>9 DEF TakeSlot
  <2>2. /\ job'[j].stage = "rendering" /\ job'[j].age = job[j].age
        /\ job'[j].stall = job[j].stall /\ job'[j].left = job[j].left
    BY <1>1, <2>1 DEF JobType
  <2> QED
    BY <1>2, <1>3, <1>9, <2>1, <2>2
    DEF TakeSlot, JobInv, Counted, Paced, Aging, Staged, InCall, At, Live
<1>10. CASE Rendered(j)
  <2>0. At(j, "rendering") /\ requests[j] = 0
    BY <1>10 DEF Rendered, JobInv, Counted, InCall, At
  <2>1. CASE Asks(j, 1)
    BY <1>3, <1>5, <2>0, <2>1 DEF MaxAttempts
  <2>2. ASSUME NEW stage \in {"waiting", "spending"}, stage = "spending" => ~Pass(j),
               job'[j].stage = stage, job'[j].age = job[j].age,
               job'[j].stall = job[j].stall, job'[j].left = job[j].left,
               UNCHANGED <<requests, atCall>>
        PROVE  JobInv(j)' /\ Staged(j)'
    BY <1>2, <1>3, <2>0, <2>2 DEF JobInv, Counted, Paced, Aging, Staged, InCall, At, Live
  <2>3. CASE job' = [job EXCEPT ![j].stage = "waiting", ![j].images = @ - 1]
             /\ UNCHANGED <<requests, atCall>>
    <3>1. job'[j] = [job[j] EXCEPT !.stage = "waiting", !.images = @ - 1]
      BY <1>1, <2>3
    <3>2. /\ job'[j].stage = "waiting" /\ job'[j].age = job[j].age
          /\ job'[j].stall = job[j].stall /\ job'[j].left = job[j].left
      BY <1>1, <3>1 DEF JobType
    <3> QED
      BY <2>2, <2>3, <3>2
  <2>4. CASE ~Pass(j) /\ job' = [job EXCEPT ![j].stage = "spending"]
             /\ UNCHANGED <<requests, atCall>>
    <3>1. job'[j] = [job[j] EXCEPT !.stage = "spending"]
      BY <1>1, <2>4
    <3>2. /\ job'[j].stage = "spending" /\ job'[j].age = job[j].age
          /\ job'[j].stall = job[j].stall /\ job'[j].left = job[j].left
      BY <1>1, <3>1 DEF JobType
    <3> QED
      BY <2>2, <2>4, <3>2
  <2> QED
    BY <1>10, <2>1, <2>3, <2>4 DEF Rendered
<1>11. CASE Transient(j)
  <2>1. CASE CanRetry(j)
    <3>1. /\ job'[j] = [job[j] EXCEPT !.stage = "backoff", !.timer = Backoff]
          /\ requests'[j] = requests[j] /\ atCall'[j] = atCall[j]
      BY <1>1, <1>11, <2>1 DEF Transient
    <3>2. /\ job'[j].stage = "backoff" /\ job'[j].timer = Backoff
          /\ job'[j].left = job[j].left /\ job'[j].age = job[j].age
          /\ job'[j].stall = job[j].stall /\ job'[j].try = job[j].try
          /\ job'[j].ask = job[j].ask
      BY <1>1, <3>1 DEF JobType
    <3>3. At(j, "asking") /\ job[j].try < 3
      BY <1>11, <2>1 DEF Transient, CanRetry, MaxAttempts
    <3>4. Counted(j)'
      BY <1>3, <3>1, <3>2, <3>3 DEF JobInv, Counted, InCall, At
    <3>5. Tried(job[j].try) \in Nat
      BY <1>3 DEF Tried
    <3>6. Paced(j)'
      BY <1>1, <1>2, <1>3, <3>1, <3>2, <3>3, <3>5 DEF JobInv, Paced, At, MaxAttempts
    <3>7. Aging(j)' /\ Staged(j)'
      BY <1>2, <1>3, <3>2, <3>3 DEF JobInv, Aging, Staged, At, Live
    <3> QED
      BY <3>4, <3>6, <3>7 DEF JobInv
  <2> QED
    BY <1>4, <1>11, <2>1 DEF Transient
<1>12. CASE Answered(j) \/ Fails(j) \/ CtxDone(j)
    BY <1>4, <1>12 DEF Answered, Fails, CtxDone
<1>13. CASE Invalid(j)
  <2>1. CASE job[j].ask < MaxAsks(Kind(j))
    <3>1. /\ job[j].ask = 1 /\ MaxAsks(Kind(j)) = 2 /\ ~Pass(j) /\ At(j, "asking")
          /\ requests[j] <= 3
      BY <1>1, <1>2, <1>3, <1>13, <2>1
      DEF Invalid, JobInv, Counted, InCall, MaxAsks, MaxAttempts, At
    <3> QED
      BY <1>1, <1>5, <1>13, <2>1, <3>1 DEF Invalid, MaxAttempts
  <2> QED
    BY <1>4, <1>13, <2>1 DEF Invalid
<1>14. CASE StartWork(j)
  <2>1. /\ job'[j] = [job[j] EXCEPT !.stage = "waiting", !.left = Budget[Kind(j)],
                                    !.images = Images(Kind(j))]
        /\ requests'[j] = requests[j]
    BY <1>1, <1>14 DEF StartWork
  <2>2. /\ job'[j].stage = "waiting" /\ job'[j].left = Budget[Kind(j)]
        /\ job'[j].age = job[j].age /\ job'[j].stall = job[j].stall
    BY <1>1, <2>1 DEF JobType
  <2>3. At(j, "checking") /\ ~Pass(j)
    BY <1>14 DEF StartWork, Staged
  <2>4. Counted(j)' /\ Paced(j)' /\ Staged(j)'
    BY <1>3, <2>1, <2>2, <2>3 DEF JobInv, Counted, Paced, Staged, InCall, At
  <2>5. Aging(j)'
    BY <1>2, <1>3, <2>2, <2>3 DEF JobInv, Aging, At, Live
  <2> QED
    BY <2>4, <2>5 DEF JobInv
<1>15. CASE Spent(j)
  <2>1. At(j, "spending") /\ requests[j] = 0
    BY <1>15 DEF Spent, JobInv, Counted, InCall, At
  <2> QED
    BY <1>3, <1>5, <1>15, <2>1 DEF Spent, MaxAttempts
<1>16. CASE Retry(j)
  <2>1. /\ job'[j] = [job[j] EXCEPT !.stage = "asking", !.try = @ + 1,
                                    !.timer = Timeout[Kind(j)]]
        /\ requests'[j] = requests[j] + 1 /\ atCall'[j] = atCall[j]
    BY <1>1, <1>16 DEF Retry
  <2>2. /\ job'[j].stage = "asking" /\ job'[j].timer = Timeout[Kind(j)]
        /\ job'[j].left = job[j].left /\ job'[j].age = job[j].age
        /\ job'[j].stall = job[j].stall /\ job'[j].try = job[j].try + 1
        /\ job'[j].ask = job[j].ask
    BY <1>1, <2>1 DEF JobType
  <2>3. At(j, "backoff") /\ job[j].try \in 1 .. 2 /\ job[j].timer <= Backoff
    BY <1>2, <1>16 DEF Retry, JobInv, Counted, Paced, InCall, MaxAttempts, At
  <2>4. Counted(j)'
    BY <1>1, <1>2, <1>3, <2>1, <2>2, <2>3 DEF JobInv, Counted, InCall, At, MaxAttempts
  <2>5. Tried(job[j].try + 1) = Tried(job[j].try) + Timeout["duel"] + Backoff
    BY <1>3, <2>3 DEF Tried
  <2>6. Paced(j)'
    BY <1>1, <1>2, <1>3, <2>1, <2>2, <2>3, <2>5 DEF JobInv, Paced, Tried, At
  <2>7. Aging(j)' /\ Staged(j)'
    BY <1>2, <1>3, <2>2, <2>3 DEF JobInv, Aging, Staged, At, Live
  <2> QED
    BY <2>4, <2>6, <2>7 DEF JobInv
<1> QED
    BY <1>7, <1>8, <1>9, <1>10, <1>11, <1>12, <1>13, <1>14, <1>15, <1>16 DEF Act, Own

(***************************************************************************)
(* The slots: a step takes one, frees one, or neither, and the sets of the *)
(* calls that hold one change with it.                                     *)
(***************************************************************************)
One(b) == IF b THEN 1 ELSE 0

LEMMA ActMovesSlots ==
    ASSUME TypeOK, NEW j \in Job, JobInv(j), Staged(j), Act(j)
    PROVE  /\ workers' = workers - One(At(j, "rendering")) + One(At(j, "rendering")')
           /\ At(j, "rendering")' => At(j, "rendering") \/ workers < Concurrency
           /\ judging' = judging - One(Pass(j) /\ Live(j)) + One((Pass(j) /\ Live(j))')
           /\ (Pass(j) /\ Live(j))' => (Pass(j) /\ Live(j)) \/ judging < Concurrency
<1>1. /\ job \in [Job -> JobType] /\ job[j] \in JobType
      /\ workers \in Int /\ judging \in Int /\ Pass(j) \in BOOLEAN /\ (Pass(j)' <=> Pass(j))
    BY DEF TypeOK, Pass, Kind
<1>2. ASSUME Ends(j), Live(j)
      PROVE  /\ workers' = workers - One(At(j, "rendering")) + One(At(j, "rendering")')
             /\ ~At(j, "rendering")'
             /\ judging' = judging - One(Pass(j) /\ Live(j)) + One((Pass(j) /\ Live(j))')
             /\ ~(Pass(j) /\ Live(j))'
  <2>1. job'[j].stage = "ended"
    BY <1>1, <1>2 DEF Ends, Ended, NewJob
  <2> QED
    BY <1>1, <1>2, <2>1 DEF Ends, WorkersAfter, One, At, Live
<1>3. ASSUME NEW s, job'[j].stage = s, UNCHANGED judging, Live(j), s \notin {"new", "ended"}
      PROVE  /\ judging' = judging - One(Pass(j) /\ Live(j)) + One((Pass(j) /\ Live(j))')
             /\ (Pass(j) /\ Live(j))' => (Pass(j) /\ Live(j))
    BY <1>1, <1>3 DEF One, Live
<1>4. ASSUME NEW s, job'[j].stage = s, UNCHANGED workers, ~At(j, "rendering"), s # "rendering"
      PROVE  /\ workers' = workers - One(At(j, "rendering")) + One(At(j, "rendering")')
             /\ ~At(j, "rendering")'
    BY <1>1, <1>4 DEF One, At
<1>5. ASSUME NEW ask, Asks(j, ask)
      PROVE  job'[j].stage = "asking"
    BY <1>1, <1>5 DEF Asks, JobType
<1>6. CASE StartPass(j)
  <2>1. job'[j].stage = "waiting"
    BY <1>1, <1>6 DEF StartPass, JobType
  <2> QED
    BY <1>1, <1>4, <1>6, <2>1 DEF StartPass, One, At, Live
<1>7. CASE Arrive(j)
  <2>1. job'[j].stage = "checking"
    BY <1>1, <1>7 DEF Arrive, JobType
  <2> QED
    BY <1>1, <1>4, <1>7, <2>1 DEF Arrive, One, At, Live
<1>8. CASE TakeSlot(j)
  <2>1. job'[j].stage = "rendering"
    BY <1>1, <1>8 DEF TakeSlot, JobType
  <2> QED
    BY <1>1, <1>3, <1>8, <2>1 DEF TakeSlot, One, At, Live
<1>9. CASE Rendered(j)
  <2>1. job'[j].stage \in {"waiting", "asking", "spending"}
    BY <1>1, <1>5, <1>9 DEF Rendered, JobType
  <2> QED
    BY <1>1, <1>3, <1>9, <2>1 DEF Rendered, WorkersAfter, One, At, Live
<1>10. CASE Transient(j)
  <2>1. CASE CanRetry(j)
    <3>1. job'[j].stage = "backoff"
      BY <1>1, <1>10, <2>1 DEF Transient, JobType
    <3> QED
      BY <1>3, <1>4, <1>10, <2>1, <3>1 DEF Transient, At, Live
  <2> QED
    BY <1>2, <1>10, <2>1 DEF Transient, At, Live
<1>11. CASE Answered(j) \/ Fails(j) \/ CtxDone(j)
    BY <1>2, <1>11 DEF Answered, Fails, CtxDone, Bounded, At, Live
<1>12. CASE Invalid(j)
  <2>1. CASE job[j].ask < MaxAsks(Kind(j))
    BY <1>3, <1>4, <1>5, <1>12, <2>1 DEF Invalid, At, Live
  <2> QED
    BY <1>2, <1>12, <2>1 DEF Invalid, At, Live
<1>13. CASE StartWork(j)
  <2>1. job'[j].stage = "waiting"
    BY <1>1, <1>13 DEF StartWork, JobType
  <2> QED
    BY <1>3, <1>4, <1>13, <2>1 DEF StartWork, At, Live
<1>14. CASE Spent(j)
    BY <1>3, <1>4, <1>5, <1>14 DEF Spent, At, Live
<1>15. CASE Retry(j)
  <2>1. job'[j].stage = "asking"
    BY <1>1, <1>15 DEF Retry, JobType
  <2> QED
    BY <1>3, <1>4, <1>15, <2>1 DEF Retry, At, Live
<1> QED
    BY <1>6, <1>7, <1>8, <1>9, <1>10, <1>11, <1>12, <1>13, <1>14, <1>15 DEF Act, Own

\* A set that changes at one element only, counted.
LEMMA OneMore ==
    ASSUME NEW S, NEW T, NEW x, IsFiniteSet(S), NEW n, n = Cardinality(S),
           S \ {x} = T \ {x}
    PROVE  Cardinality(T) = n - One(x \in S) + One(x \in T)
<1>1. IsFiniteSet(S \ {x}) /\ Cardinality(S \ {x}) = n - One(x \in S)
    BY FS_RemoveElement, FS_CardinalityType DEF One
<1>2. CASE x \in T
  <2>1. T = (S \ {x}) \cup {x} /\ x \notin S \ {x}
    BY <1>2
  <2> QED
    BY <1>1, <1>2, <2>1, FS_AddElement, FS_CardinalityType DEF One
<1>3. CASE x \notin T
  <2>1. T = S \ {x}
    BY <1>3
  <2> QED
    BY <1>1, <1>3, <2>1, FS_CardinalityType DEF One
<1> QED
    BY <1>2, <1>3

LEMMA ActKeepsSlots ==
    ASSUME IInv, NEW j \in Job, Act(j)
    PROVE  SlotsBalance'
<1>0. TypeOK /\ JobInv(j) /\ Staged(j)
    BY DEF IInv
<1>1. \A i \in Job \ {j} : job'[i] = job[i]
    BY <1>0, ActIsItsOwn
<1>2. Rendering' \ {j} = Rendering \ {j} /\ Passes' \ {j} = Passes \ {j}
    BY <1>1 DEF Rendering, Passes, At, Pass, Kind, Live
<1>3. IsFiniteSet(Rendering) /\ IsFiniteSet(Passes) /\ Concurrency \in Nat
    BY Constants, FS_Subset DEF Rendering, Passes
<1>4. /\ workers = Cardinality(Rendering) /\ workers <= Concurrency
      /\ judging = Cardinality(Passes) /\ judging <= Concurrency
    BY DEF IInv, SlotsBalance, Rendering, Passes
<1>5. /\ Cardinality(Rendering') = workers - One(j \in Rendering) + One(j \in Rendering')
      /\ Cardinality(Passes') = judging - One(j \in Passes) + One(j \in Passes')
    BY <1>2, <1>3, <1>4, OneMore
<1>6. /\ j \in Rendering <=> At(j, "rendering")
      /\ j \in Rendering' <=> At(j, "rendering")'
      /\ j \in Passes <=> (Pass(j) /\ Live(j))
      /\ j \in Passes' <=> (Pass(j) /\ Live(j))'
    BY DEF Rendering, Passes
<1>7. /\ workers' = Cardinality(Rendering') /\ judging' = Cardinality(Passes')
      /\ workers \in Int /\ judging \in Int
    BY <1>0, <1>5, <1>6, ActMovesSlots DEF TypeOK, One
<1>8. workers' <= Concurrency /\ judging' <= Concurrency
    BY <1>0, <1>3, <1>4, <1>7, ActMovesSlots DEF One
<1> QED
    BY <1>7, <1>8 DEF SlotsBalance, Rendering, Passes

(***************************************************************************)
(* Time.                                                                   *)
(***************************************************************************)
LEMMA TickKeepsJob ==
    ASSUME TypeOK, Tick, NEW j \in Job, JobInv(j), Staged(j)
    PROVE  /\ job'[j] \in JobType /\ job'[j].stage = job[j].stage
           /\ JobInv(j)' /\ Staged(j)'
<1>1. /\ job[j] \in JobType /\ requests' = requests /\ atCall' = atCall
      /\ requests[j] \in Nat /\ atCall[j] \in Nat
    BY DEF TypeOK, Tick
<1>2. /\ Kind(j)' = Kind(j) /\ (Pass(j)' <=> Pass(j))
      /\ Timeout[Kind(j)] \in Nat /\ Budget[Kind(j)] \in Nat /\ Backoff \in Nat
      /\ MaxStall \in Nat /\ Timeout["duel"] \in Nat
      /\ Pass(j) => Kind(j) = "duel"
    BY Constants DEF Kind, Pass
<1>3. /\ job[j].left \in Nat /\ job[j].timer \in Nat /\ job[j].stall \in 0 .. MaxStall
      /\ job[j].age \in Nat /\ job[j].try \in 0 .. MaxAttempts /\ job[j].ask \in 0 .. 2
    BY <1>1 DEF JobType
<1>4. CASE ~Live(j)
  <2>1. job'[j] = job[j]
    BY <1>4 DEF Tick
  <2> QED
    BY <1>1, <1>2, <2>1 DEF JobInv, Counted, Paced, Aging, Staged, InCall, At, Live
<1>5. CASE Live(j)
  <2> DEFINE stalls == job[j].stage \in {"checking", "spending"}
  <2>1. MayTick(j) /\ job'[j] = Older(j)
    BY <1>5 DEF Tick
  <2>2. /\ job'[j].stage = job[j].stage /\ job'[j].try = job[j].try
        /\ job'[j].ask = job[j].ask /\ job'[j].images = job[j].images
        /\ job'[j].left = Less(job[j].left) /\ job'[j].timer = Less(job[j].timer)
        /\ job'[j].stall = IF stalls THEN job[j].stall - 1 ELSE job[j].stall
        /\ job'[j].age = IF Pass(j) THEN 0 ELSE job[j].age + 1
    BY <1>1, <2>1 DEF Older, JobType
  <2>3. job'[j].stall \in 0 .. MaxStall /\ Less(job[j].left) \in Nat /\ Less(job[j].timer) \in Nat
        /\ job'[j].age \in Nat
    BY <1>2, <1>3, <2>1, <2>2 DEF MayTick, Less
  <2>4. job'[j] \in JobType
    <3>1. job'[j] = [job[j] EXCEPT !.left = job'[j].left, !.timer = job'[j].timer,
                                   !.stall = job'[j].stall, !.age = job'[j].age]
      BY <1>1, <2>1, <2>2 DEF Older, JobType
    <3> QED
      BY <1>1, <2>2, <2>3, <3>1 DEF JobType
  <2>5. Counted(j)' /\ Staged(j)'
    BY <1>1, <1>2, <2>2 DEF JobInv, Counted, Staged, InCall, At
  <2>6. Paced(j)'
    <3>1. InCall(j) => /\ job'[j].left = job[j].left - 1
                       /\ job'[j].timer = job[j].timer - 1
      BY <1>3, <2>1, <2>2 DEF MayTick, Bounded, InCall, Less
    <3>2. Tried(job[j].try) \in Nat
      BY <1>2 DEF Tried
    <3> QED
      BY <1>1, <1>2, <1>3, <2>2, <3>1, <3>2 DEF JobInv, Paced, InCall, At
  <2>7. Aging(j)'
    <3>1. stalls \/ (job[j].left > 0 /\ job'[j].left = job[j].left - 1)
      BY <1>1, <1>3, <1>5, <2>1, <2>2 DEF MayTick, Bounded, Less, Live, At, Stage, JobType
    <3>2. At(j, "checking") \/ job'[j].left <= job[j].left
      BY <1>3, <2>2 DEF Less
    <3>3. CASE Pass(j)
      BY <1>2, <3>3 DEF Aging
    <3>4. CASE ~Pass(j) /\ At(j, "checking")
      <4>1. job[j].age <= MaxStall - job[j].stall
        BY <3>4 DEF JobInv, Aging, At
      <4> QED
        BY <1>2, <1>3, <2>2, <3>4, <4>1 DEF Aging, At
    <3>5. CASE ~Pass(j) /\ ~At(j, "checking")
      <4>1. /\ job[j].left <= Budget[Kind(j)]
            /\ job[j].age <= (MaxStall - job[j].stall) + (Budget[Kind(j)] - job[j].left)
        BY <1>5, <3>5 DEF JobInv, Aging, At, Live
      <4>2. Live(j)' /\ ~At(j, "checking")'
        BY <1>5, <2>2, <3>5 DEF Live, At
      <4>3. /\ job'[j].left <= Budget[Kind(j)]
            /\ job'[j].age <= (MaxStall - job'[j].stall) + (Budget[Kind(j)] - job'[j].left)
        BY <1>2, <1>3, <2>2, <2>3, <3>1, <3>2, <3>5, <4>1
      <4> QED
        BY <1>2, <4>2, <4>3 DEF Aging
    <3> QED
      BY <3>3, <3>4, <3>5
  <2> QED
    BY <2>2, <2>4, <2>5, <2>6, <2>7 DEF JobInv
<1> QED
    BY <1>4, <1>5

LEMMA TickKeepsIInv ==
    ASSUME IInv, Tick
    PROVE  IInv'
<1>0. TypeOK
    BY DEF IInv
<1>1. \A j \in Job : /\ job'[j] \in JobType /\ job'[j].stage = job[j].stage
                     /\ JobInv(j)' /\ Staged(j)'
    BY <1>0, TickKeepsJob DEF IInv
<1>2. job' \in [Job -> JobType]
  <2>1. job' = [j \in Job |-> job'[j]]
    BY DEF Tick
  <2> QED
    BY <1>1, <2>1
<1>3. TypeOK'
    BY <1>0, <1>2 DEF TypeOK, Tick
<1>4. Rendering' = Rendering /\ Passes' = Passes
    BY <1>1 DEF Rendering, Passes, At, Pass, Kind, Live
<1>5. SlotsBalance'
    BY <1>4 DEF IInv, SlotsBalance, Rendering, Passes, Tick
<1> QED
    BY <1>1, <1>3, <1>5 DEF IInv

LEMMA ActKeepsIInv ==
    ASSUME IInv, NEW j \in Job, Act(j)
    PROVE  IInv'
<1>0. TypeOK /\ JobInv(j) /\ Staged(j)
    BY DEF IInv
<1>1. /\ job' \in [Job -> JobType]
      /\ requests' \in [Job -> Nat] /\ atCall' \in [Job -> Nat]
      /\ \A i \in Job \ {j} : /\ job'[i] = job[i] /\ requests'[i] = requests[i]
                              /\ atCall'[i] = atCall[i]
    BY <1>0, ActIsItsOwn
<1>2. workers' \in Int /\ judging' \in Int
    BY <1>0, ActMovesSlots DEF TypeOK, One
<1>3. \A i \in Job \ {j} : JobInv(i)' /\ Staged(i)'
    BY <1>1 DEF IInv, JobInv, Counted, Paced, Aging, Staged, InCall, At, Pass, Kind, Live
<1>4. JobInv(j)' /\ Staged(j)'
    BY <1>0, ActKeepsJobInv
<1> QED
    BY <1>1, <1>2, <1>3, <1>4, ActKeepsSlots DEF IInv, TypeOK

LEMMA InitIInv == Init => IInv
<1> SUFFICES ASSUME Init PROVE IInv
    OBVIOUS
<1>1. NewJob \in JobType
    BY Constants DEF NewJob, JobType, Stage, MaxAttempts
<1>2. TypeOK
    BY <1>1 DEF Init, TypeOK
<1>3. \A j \in Job : job[j] = NewJob /\ requests[j] = 0
    BY DEF Init
<1>4. {j \in Job : At(j, "rendering")} = {} /\ {j \in Job : Pass(j) /\ Live(j)} = {}
    BY <1>3 DEF At, Live, NewJob
<1>5. SlotsBalance
  <2>1. /\ workers = Cardinality({j \in Job : At(j, "rendering")})
        /\ judging = Cardinality({j \in Job : Pass(j) /\ Live(j)})
    BY <1>4, FS_EmptySet DEF Init
  <2>2. workers <= Concurrency /\ judging <= Concurrency
    BY Constants DEF Init
  <2> QED
    BY <2>1, <2>2 DEF SlotsBalance
<1>6. \A j \in Job : JobInv(j) /\ Staged(j)
    BY <1>3 DEF NewJob, JobInv, Counted, Paced, Aging, Staged, InCall, At, Live
<1> QED
    BY <1>2, <1>5, <1>6 DEF IInv

LEMMA NextIInv == IInv /\ [Next]_vars => IInv'
<1> SUFFICES ASSUME IInv, [Next]_vars PROVE IInv'
    OBVIOUS
<1>1. CASE \E j \in Job : Act(j)
    BY <1>1, ActKeepsIInv
<1>2. CASE Tick
    BY <1>2, TickKeepsIInv
<1>3. CASE UNCHANGED vars
    BY <1>3 DEF vars, IInv, TypeOK, SlotsBalance, JobInv, Counted, Paced, Aging, Staged,
                InCall, At, Pass, Kind, Live
<1> QED
    BY <1>1, <1>2, <1>3 DEF Next, Act

LEMMA SpecIInv == Spec => []IInv
<1> QED
    BY InitIInv, NextIInv, PTL DEF Spec

(***************************************************************************)
(* The theorems.                                                           *)
(***************************************************************************)
\* Every call keeps the types, whatever the number of calls and slots.
THEOREM ProviderCallTypes == Spec => []TypeOK
<1>1. IInv => TypeOK
    BY DEF IInv
<1> QED
    BY <1>1, SpecIInv, PTL

\* Slots are neither lost nor freed twice, for any number of calls and slots.
THEOREM SlotsAlwaysBalance == Spec => []SlotsBalance
<1>1. IInv => SlotsBalance
    BY DEF IInv
<1> QED
    BY <1>1, SpecIInv, PTL

\* A billed call sends three requests for each time it may ask, at most.
THEOREM RequestsAlwaysBounded == Spec => []RequestsBounded
<1>1. ASSUME IInv, NEW j \in Job
      PROVE  requests[j] <= MaxAttempts * MaxAsks(Kind(j))
  <2>1. job[j] \in JobType /\ requests[j] \in Nat /\ Counted(j)
    BY <1>1 DEF IInv, TypeOK, JobInv
  <2>2. job[j].try \in 0 .. 3 /\ job[j].ask \in 0 .. 2 /\ MaxAsks(Kind(j)) \in 1 .. 2
    BY <2>1 DEF JobType, MaxAttempts, MaxAsks
  <2> QED
    BY <2>1, <2>2 DEF Counted, MaxAttempts
<1>2. IInv => RequestsBounded
    BY <1>1 DEF RequestsBounded
<1> QED
    BY <1>2, SpecIInv, PTL

\* From its first request on, a pass that had the time of its retries left is not cut
\* short by its budget.
THEOREM RetriesAlwaysFitPass == Spec => []RetriesFitPass
<1>1. ASSUME IInv, NEW j \in Job, Pass(j), job[j].stage \in {"asking", "backoff"}, job[j].left = 0
      PROVE  atCall[j] <= Envelope("duel")
  <2>1. /\ job[j] \in JobType /\ atCall[j] \in Nat /\ Paced(j) /\ Counted(j)
        /\ Kind(j) = "duel"
    BY <1>1 DEF IInv, TypeOK, JobInv, Pass
  <2>2. /\ job[j].timer \in Nat /\ job[j].try \in 1 .. 3
        /\ Timeout["duel"] \in Nat /\ Backoff \in Nat
    BY <1>1, <2>1, Constants DEF JobType, MaxAttempts, Counted, InCall
  <2>3. Envelope("duel") = 3 * Timeout["duel"] + 2 * Backoff
    BY <2>2 DEF Envelope, MaxAttempts
  <2> QED
    BY <1>1, <2>1, <2>2, <2>3 DEF Paced, At, Tried, MaxAttempts
<1>2. IInv => RetriesFitPass
    BY <1>1 DEF RetriesFitPass
<1> QED
    BY <1>2, SpecIInv, PTL

\* A request ends before its response can no longer be written, whatever its provider,
\* its worker and the database (up to MaxStall) do.
THEOREM AnswersAlwaysWritten == Spec => []AnswersAreWritten
<1>1. ASSUME IInv, NEW j \in Job, ~Pass(j)
      PROVE  job[j].age < WriteBy[Kind(j)]
  <2>1. job[j] \in JobType /\ Aging(j)
    BY <1>1 DEF IInv, TypeOK, JobInv
  <2>2. /\ job[j].stall \in 0 .. MaxStall /\ job[j].age \in Nat /\ job[j].left \in Nat
        /\ MaxStall \in Nat /\ Budget[Kind(j)] \in Nat /\ WriteBy[Kind(j)] \in Nat
        /\ Budget[Kind(j)] + MaxStall < WriteBy[Kind(j)]
    BY <1>1, <2>1, Constants DEF JobType
  <2> QED
    BY <1>1, <2>1, <2>2 DEF Aging
<1>2. IInv => AnswersAreWritten
    BY <1>1 DEF AnswersAreWritten
<1> QED
    BY <1>2, SpecIInv, PTL
=============================================================================
