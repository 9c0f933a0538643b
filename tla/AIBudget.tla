------------------------------ MODULE AIBudget ------------------------------
(***************************************************************************)
(* The ledger of AI calls (internal/aibudget, table ai_calls): what it     *)
(* counts, what it refuses, what it records and what it forgets.           *)
(*                                                                         *)
(* A row bills one player (their allowance of a kind) or one provider (its *)
(* quota), never both.  Time is counted in fractions of the rolling day;   *)
(* the sweeper goes by the clock of the process, which may be off by       *)
(* MaxSkew against the database's.                                         *)
(***************************************************************************)
EXTENDS Config, FiniteSets

CONSTANTS
    Env,          \* the environment the server booted with
    Player,
    Call,         \* the calls that can be made in one behaviour
    Nobody,       \* the column of a row that is null
    MaxPasses,    \* judging passes one duel may take (judge_attempts)
    Window,       \* the rolling day
    Retention,    \* the week a row is kept
    MaxSkew,
    MaxTime       \* bound: the clock of the model stops here

ASSUME Booted == Boots(Env)

\* Both are parsed as integers.
ASSUME EnvAssumption ==
    /\ Env.aiDailyGlobal \in Int
    /\ \A k \in DOMAIN Env.aiDailyPerUser : Env.aiDailyPerUser[k] \in Int

ASSUME BudgetAssumption ==
    /\ Nobody \notin Player /\ \A k \in AllKinds : Providers(Env)[k] # Nobody
    /\ IsFiniteSet(Call)
    /\ MaxPasses \in Nat /\ MaxTime \in Nat /\ MaxSkew \in Nat
    /\ Window \in Nat \ {0}
    /\ Retention \in Nat
    /\ Window + MaxSkew <= Retention

VARIABLES
    ledger,       \* the rows of ai_calls
    now           \* the clock of the database

Provider == {Providers(Env)[k] : k \in AllKinds} \ {NoProvider}

Budgeted(k) == Providers(Env)[k] # NoProvider

\* One call bills a player and a provider at most once, but for a duel: it
\* bills its two players, and its provider once per judging pass.
PlayerRow(c, u, k, at) ==
    [call |-> c, pass |-> 0, user |-> u, kind |-> k, provider |-> Nobody, at |-> at]
ProviderRow(c, n, k, at) ==
    [call |-> c, pass |-> n, user |-> Nobody, kind |-> k,
     provider |-> Providers(Env)[k], at |-> at]

InWindow(r) == r.at > now - Window

UserKindCalls(u, k) == {r \in ledger : r.user = u /\ r.kind = k /\ InWindow(r)}
ProviderCalls(p)    == {r \in ledger : r.provider = p /\ InWindow(r)}

CountUserKindCalls(u, k) == Cardinality(UserKindCalls(u, k))
CountProviderCalls(p)    == Cardinality(ProviderCalls(p))

\* Mutant: a player at the cap has room for one more.
UserHasRoom_AtCap(u, k) == Budgeted(k) => CountUserKindCalls(u, k) <= PerUser(Env)[k]

\* Mutant: the ceiling counts the rows of the kind instead of the pool's.
ProviderHasRoom_PerKind(k) ==
    Budgeted(k) => Cardinality({r \in ledger : r.kind = k /\ r.user = Nobody /\ InWindow(r)})
                       < Env.aiDailyGlobal

\* The two reads of Budget.check: first the player's allowance, then, in a
\* query of its own, the provider's ceiling.
UserHasRoom(u, k) == Budgeted(k) => CountUserKindCalls(u, k) < PerUser(Env)[k]
ProviderHasRoom(k) == Budgeted(k) => CountProviderCalls(Providers(Env)[k]) < Env.aiDailyGlobal

\* The rows of Budget.spend, written together or not at all.  now() is the
\* start of the statement, not the moment its rows are visible.
recordAICallUnderCap(c, u, k, at) ==
    IF Budgeted(k) THEN {PlayerRow(c, u, k, at), ProviderRow(c, 0, k, at)} ELSE {}

\* The rows of the duel's two halves, in transactions of the duel.
billPlayers(c, users) ==
    IF Budgeted("duel") THEN {PlayerRow(c, u, "duel", now) : u \in users} ELSE {}
billProvider(c, n) ==
    IF Budgeted("duel") THEN {ProviderRow(c, n, "duel", now)} ELSE {}

\* Mutant: the sweep keeps a day by the clock of the process.
Kept_Day(skew) == {r \in ledger : ~(r.at < now + skew - Window + 1)}

\* One pass of RunSweeper, by a clock that is off by skew.
Kept(skew) == {r \in ledger : ~(r.at < now + skew - Retention)}
=============================================================================
