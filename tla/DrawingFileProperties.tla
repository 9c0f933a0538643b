----------------------- MODULE DrawingFileProperties -----------------------
(***************************************************************************)
(* What the player may rely on: a drawing shown as saved is.               *)
(***************************************************************************)
EXTENDS DrawingFile

\* A drawing that leaving asks nothing about is on the server as it is on the canvas
\* ("The history mark when the canvas last matched its row: undoing back to it is clean
\* again", useDrawingFile.ts:69), or a save of it is still to be answered, whatever was
\* drawn, undone, opened, left or signed out of while saves were under way.  Two exceptions
\* are the code's own, until the next write or read of the row by this tab: the reply to
\* its last save was lost, or that save was of a page left before it was answered, and the
\* row was opened before it was written.
CleanIsSaved ==
    ~dirty /\ ~isEmpty =>
        \/ rows[savedId] = [owner |-> user, doc |-> doc]
        \/ savedId \in unheard
        \/ \E r \in requests : r.kind = "save" /\ r.id = savedId /\ ~r.stale

\* A save of a drawing that has a row is sent by the account the row belongs to ("saving to
\* the old id would 404 on the ownership-scoped PUT", useDrawingFile.ts:52-54), whoever signs
\* in or out while it, an earlier save or the name of a first one is waited for.
SavesFindTheirRow ==
    \A r \in requests \union left :
        r.kind = "save" /\ r.id # 0 => rows[r.id].owner = r.as
=============================================================================
