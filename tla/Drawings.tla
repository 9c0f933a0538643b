------------------------------ MODULE Drawings ------------------------------
(***************************************************************************)
(* The drawings table, the queries on it and the page cursor.              *)
(***************************************************************************)
EXTENDS Integers, FiniteSets

CONSTANTS
    Drawing,        \* the ids, ordered as uuids are
    Instant,        \* the values of created_at
    NoRow, Gone,    \* no row yet, and none any more
    NoCursor

ASSUME DrawingsAssumption ==
    /\ Drawing \subseteq Nat /\ IsFiniteSet(Drawing) /\ Instant \subseteq Nat
    /\ NoCursor \notin [at : Instant, id : Drawing]

VARIABLE drawings   \* the row of each id

Exists(d) == drawings[d] \notin {NoRow, Gone}
Owned(d, u) == Exists(d) /\ drawings[d].owner = u
Duel(d) == Exists(d) /\ drawings[d].duel

createDrawing(u, d, at, duel) ==
    /\ drawings[d] = NoRow
    /\ drawings' = [drawings EXCEPT ![d] =
                       [owner |-> u, duel |-> duel, at |-> at, updated |-> FALSE]]

getDrawing(d, u) == Owned(d, u)

\* Both writes look for a row that is the caller's and not a submission.
Writable(d, u) == Owned(d, u) /\ ~Duel(d)

updateDrawing(d) == drawings' = [drawings EXCEPT ![d].updated = TRUE]
deleteDrawing(d) == drawings' = [drawings EXCEPT ![d] = Gone]

(***************************************************************************)
(* The list: newest first, the id deciding between equals, and a cursor    *)
(* that names the last row of a full page.                                 *)
(***************************************************************************)
Kinds == {"all", "free", "duel"}

OfKind(d, kind) == kind = "all" \/ (kind = "duel" <=> Duel(d))

Cursor(d) == [at |-> drawings[d].at, id |-> d]

\* Mutant: only the time is compared.
Precedes_Time(c, e) == c.at < e.at

\* (created_at, id) < (created_at, id)
Precedes(c, e) == c.at < e.at \/ (c.at = e.at /\ c.id < e.id)

Listed(u, kind, cursor) ==
    {d \in Drawing : /\ Owned(d, u) /\ OfKind(d, kind)
                     /\ cursor # NoCursor => Precedes(Cursor(d), cursor)}

Newer(ds, d) == {e \in ds : drawings[e].at > drawings[d].at
                            \/ (drawings[e].at = drawings[d].at /\ e > d)}

listDrawings(u, kind, cursor, limit) ==
    LET ds == Listed(u, kind, cursor)
    IN  {d \in ds : Cardinality(Newer(ds, d)) < limit}

\* A full page says there may be more.
NextCursor(page, limit) ==
    IF Cardinality(page) = limit
    THEN Cursor(CHOOSE d \in page : \A e \in page : e = d \/ Precedes(Cursor(d), Cursor(e)))
    ELSE NoCursor
=============================================================================
