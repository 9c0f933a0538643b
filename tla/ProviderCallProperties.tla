----------------------- MODULE ProviderCallProperties -----------------------
(***************************************************************************)
(* What an AI call keeps to, whatever its provider and its worker do.      *)
(***************************************************************************)
EXTENDS ProviderCall

JobType == [stage : Stage, left : Nat, timer : Nat, stall : 0 .. MaxStall, age : Nat,
            images : 0 .. 2, try : 0 .. MaxAttempts, ask : 0 .. 2]

\* The types.
TypeOK ==
    /\ job \in [Job -> JobType]
    /\ workers \in Int /\ judging \in Int
    /\ requests \in [Job -> Nat] /\ atCall \in [Job -> Nat]

\* Slots are neither lost nor freed twice, however a call ends (answered, failed,
\* cut by its context, hung up): what is taken is what is in use.
SlotsBalance ==
    /\ workers = Cardinality({j \in Job : At(j, "rendering")}) /\ workers <= Concurrency
    /\ judging = Cardinality({j \in Job : Pass(j) /\ Live(j)}) /\ judging <= Concurrency

\* One call that was billed once sends at most three requests, twice that for the
\* assistant, retries and second asks mixed in any order.
RequestsBounded ==
    \A j \in Job : requests[j] <= MaxAttempts * MaxAsks(Kind(j))

\* A judging pass runs out of its budget while it asks only when it waited and
\* rendered for too long: from its first request on, the budget fits every retry.
RetriesFitPass ==
    \A j \in Job :
        Pass(j) /\ job[j].stage \in {"asking", "backoff"} /\ job[j].left = 0
            => atCall[j] <= Envelope("duel")

\* A request is done with, and its answer written, before the server stops writing
\* its response: what was paid for is not lost on the way out.
AnswersAreWritten ==
    \A j \in Job : ~Pass(j) => job[j].age < WriteBy[Kind(j)]

\* Every call that was started ends, and leaves every slot free behind it.
CallsEnd == \A j \in Job : Live(j) ~> At(j, "ended")
=============================================================================
