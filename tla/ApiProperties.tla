---------------------------- MODULE ApiProperties ----------------------------
(***************************************************************************)
(* What a caller may rely on, whoever else calls and whatever the limiters *)
(* forget.                                                                 *)
(***************************************************************************)
EXTENDS Api

Bucket(l) == [tokens : 0 .. Full(l), idle : 0 .. IdleTTL + 1]
Row == [owner : Login, duel : BOOLEAN, at : Instant, updated : BOOLEAN]
ASSUME RowsAssumption == NoRow \notin Row /\ Gone \notin Row /\ NoRow # Gone

About == [user : Login, id : Drawing]
CursorType == [at : Instant, id : Drawing] \union {NoCursor}
WalkType == [user : Login \union {NoOne}, kind : Kinds, cursor : CursorType,
             got : SUBSET Drawing, again : BOOLEAN, owed : SUBSET Drawing, done : BOOLEAN]

\* The types; a limiter's map never outgrows its cap.
TypeOK ==
    /\ \A l \in Limiter : /\ \A k \in DOMAIN buckets[l] : buckets[l][k] \in Bucket(l)
                          /\ Cardinality(DOMAIN buckets[l]) <= MaxBuckets
    /\ drawings \in [Drawing -> Row \union {NoRow, Gone}]
    /\ users \subseteq Login /\ cookie \in [Browser -> users \union {NoOne}]
    /\ missed \in [Browser -> About \union {NoOne}]
    /\ walk \in [Browser -> WalkType]

\* Every bucket belongs to an address a request really came from: what a header
\* holds before our proxy's own entry opens no bucket.
KeysAreClients == \A l \in Limiter : DOMAIN buckets[l] \subseteq Client

\* What a limiter forgets had filled up: the sweep, and the eviction at the cap, give
\* nobody a token the bucket would not have held.
ForgottenWhenFull ==
    [][ \A l \in Limiter : \A k \in DOMAIN buckets[l] :
            k \in DOMAIN buckets'[l] \/ Filled(l, buckets[l][k]) = Full(l)
            \/ Restart ]_vars

\* What a caller is told of a drawing after a read is so when it is told, two queries
\* after it was asked; another's drawing is told apart from none by no answer.
AnswersTrue ==
    answer # NoOne =>
        LET d == answer.id  u == answer.user
        IN  /\ answer.code = "conflict"  => Owned(d, u) /\ Duel(d)
            /\ answer.code = "not_found" => ~Owned(d, u)
            /\ answer.code = "ok"        => drawings[d] = Gone \/ Owned(d, u)

\* Paged to its end, a list has shown every drawing that was there all along, and none
\* of them twice, whatever was drawn, submitted or deleted meanwhile.
WalkComplete ==
    \A b \in Browser : ~walk[b].again /\ (walk[b].done => walk[b].owed \subseteq walk[b].got)
=============================================================================
