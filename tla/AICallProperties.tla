-------------------------- MODULE AICallProperties --------------------------
(***************************************************************************)
(* What the ledger promises, for every interleaving of requests, passes,   *)
(* sweeps and crashes.                                                     *)
(***************************************************************************)
EXTENDS AICall

Row == [call : Call, pass : 0 .. MaxPasses, user : Player \union {Nobody},
        kind : AllKinds, provider : Provider \union {Nobody}, at : 0 .. MaxTime]

Request == [user : Player \union {Nobody}, with : Player \union {Nobody},
            kind : AllKinds \union {"none"}, stage : Stage, at : 0 .. MaxTime,
            passes : 0 .. MaxPasses]

\* The types; a request past "new" has its player and its kind.
TypeOK ==
    /\ ledger \subseteq Row /\ made \subseteq Row
    /\ now \in 0 .. MaxTime
    /\ req \in [Call -> Request]
    /\ runs \in [Call -> {"none", "attempted", "scored"}]
    /\ \A c \in Call : req[c].stage \notin {"new", "ended"} => User(c) \in Player /\ Kind(c) \in AllKinds

\* The calls that were told there is room and are not billed yet.  A duel
\* keeps its room while its creator waits for somebody to join.
Pending(u, k) ==
    {c \in Call : /\ User(c) = u /\ Kind(c) = k
                  /\ req[c].stage \in (IF k = "duel" THEN {"mine", "checked", "waiting"}
                                       ELSE {"spending"})}

\* A player never has more calls of a kind in the rolling day than their
\* allowance, but for those whose counts overlapped: with one request at a
\* time (MaxParallel = 1) the allowance is exact, for duels as well.
AllowanceHolds ==
    \A u \in Player, k \in AllKinds :
        Budgeted(k) => CountUserKindCalls(u, k) + Cardinality(Pending(u, k))
                           <= PerUser(Env)[k] - 1 + MaxParallel

\* The solo calls that passed the provider's check and are not billed yet.
Cleared(p) ==
    {c \in Call : /\ Kind(c) \in Solo /\ Providers(Env)[Kind(c)] = p
                  /\ req[c].stage \in {"checked", "attempted", "rendered", "spending"}}

\* The ceiling gates no write, yet the solo calls of a provider exceed it by no
\* more than the requests that were under way at once.  (Judging passes are
\* counted by the check, and never refused.)
CeilingHolds ==
    \A p \in Provider :
        Cardinality({r \in ProviderCalls(p) : r.kind \in Solo}) + Cardinality(Cleared(p))
            <= Env.aiDailyGlobal - 1 + MaxOpen

\* Whatever crashed, failed or was swept: a request made to a provider is in the
\* ledger for as long as it counts, a solo call on both sides or on none, and a
\* run has a verdict only if its request was made.
EveryCallCounted ==
    /\ \A r \in made : InWindow(r) => r \in ledger
    /\ \A r \in ledger : r.kind \in Solo =>
          \E s \in ledger : /\ s.call = r.call /\ s.kind = r.kind /\ s.at = r.at
                            /\ (s.user = Nobody) # (r.user = Nobody)
    /\ \A c \in Call : runs[c] = "scored" /\ Budgeted("practice") =>
          \E r \in made : r.call = c
=============================================================================
