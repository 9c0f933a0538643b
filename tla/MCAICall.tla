------------------------------ MODULE MCAICall ------------------------------
(***************************************************************************)
(* A small instance of AICallProperties, and the mutants of its code.      *)
(***************************************************************************)
EXTENDS AICallProperties, TLC

CONSTANTS c1, c2, c3, c4, p1, p2

\* Every kind but the guess on one Gemini model, so that they share a pool; one
\* call a day each, and a ceiling just above.
Gemini ==
    [judgeMode |-> "gemini", practiceMode |-> Unset, guessMode |-> "off",
     assistMode |-> "gemini", geminiKey |-> TRUE, judgeURL |-> FALSE,
     aiDailyGlobal |-> 2, aiDailyPerUser |-> [k \in AllKinds |-> 1],
     aiModelPerKind |-> <<>>, geminiModel |-> "flash", required |-> TRUE,
     dbMaxConns |-> 10, judgeConcurrency |-> 2, wsHeartbeat |-> 20, wsReadIdle |-> 60,
     wsMaxConnsPerIP |-> 20, wsMaxConns |-> 500, renderMode |-> "node",
     renderCLI |-> TRUE, judgeTimeout |-> 10, assistTimeout |-> 60]

Mixed == [c \in Call |-> IF c = c4 THEN {"assist"} ELSE {"practice", "duel"}]

Alike == Permutations({c1, c2, c3}) \union Permutations({p1, p2})

=============================================================================
