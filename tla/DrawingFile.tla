---------------------------- MODULE DrawingFile ----------------------------
(***************************************************************************)
(* The drawing in a tab as a file (apps/web/src/features/draw/             *)
(* useDrawingFile.ts): the row it is bound to, saves and opens under way   *)
(* while the player draws on, and the server's rows as it writes them.     *)
(***************************************************************************)
EXTENDS Editor

CONSTANTS
    User, NoUser,
    DrawingId,        \* the ids the server may give; 0 is none
    Faults,           \* of "refused" (or the session has ended) and "lost" replies
    MaxFailures       \* how many of them, a bound

NoRow == [owner |-> NoUser]
NotSaved == [id |-> 0, owner |-> NoUser]

VARIABLES
    rows,             \* drawings of the server: owner and document, or NoRow
    user,             \* who is signed in
    saved,            \* the row the canvas is bound to and its account
    savedMark,        \* the history mark when the canvas last matched its row
    gate,             \* the action that waits for a session
    nameOpen,         \* the dialog of a first save is up
    requests,         \* saves and opens sent or answered
    left,             \* those of pages that were left: nobody waits for them
    failures,
    unheard           \* history: ids last written by a save the canvas did not hear of,
                      \* its reply lost or its page left

file == <<saved, savedMark, gate, nameOpen>>
mishaps == <<failures, unheard>>
vars == <<editor, rows, user, file, requests, left, mishaps>>

Nothing == [for |-> "nothing", id |-> 0]

\* Mutant: the row is bound to the canvas whoever is signed in.
savedId_Anyones == saved.id

savedId == IF saved.owner = user THEN saved.id ELSE 0

dirty == ~isEmpty /\ (savedId = 0 \/ mark # savedMark)

busy == requests # {}

\* A new document: what is under way is of the old one (the generation counter).
Outdated == {[r EXCEPT !.stale = TRUE] : r \in requests}

Bind(id, owner, at) == saved' = [id |-> id, owner |-> owner] /\ savedMark' = at

-----------------------------------------------------------------------------
\* save and open wait for a session, one action at a time (useGatedActions.ts).
save ==
    /\ ~busy /\ gate = Nothing /\ ~nameOpen
    /\ gate' = [for |-> "save", id |-> 0]
    /\ UNCHANGED <<editor, rows, user, saved, savedMark, nameOpen, requests, left, mishaps>>

Send(kind, id) ==
    requests' = requests \union
        {[kind |-> kind, id |-> id, as |-> user, doc |-> doc, mark |-> mark,
          stale |-> FALSE, reply |-> "none"]}

\* An update of the row the canvas is bound to, else a new one.
write == Send("save", savedId)

\* There is a session: the action goes on from where it waited.
Admitted ==
    /\ gate # Nothing /\ user # NoUser
    /\ gate' = Nothing
    /\ CASE gate.for = "save" /\ savedId # 0 -> write /\ UNCHANGED nameOpen
         [] gate.for = "save" /\ savedId = 0 -> nameOpen' = TRUE /\ UNCHANGED requests
         [] gate.for = "open" -> Send("open", gate.id) /\ UNCHANGED nameOpen
         [] OTHER -> UNCHANGED <<requests, nameOpen>>
    /\ UNCHANGED <<editor, rows, user, saved, savedMark, left, mishaps>>

\* The sign-in dialog is dismissed.
Dismissed ==
    /\ gate # Nothing /\ user = NoUser
    /\ gate' = Nothing
    /\ UNCHANGED <<editor, rows, user, saved, savedMark, nameOpen, requests, left, mishaps>>

confirmName ==
    /\ nameOpen
    /\ nameOpen' = FALSE
    /\ write
    /\ UNCHANGED <<editor, rows, user, saved, savedMark, gate, left, mishaps>>

cancelName ==
    /\ nameOpen
    /\ nameOpen' = FALSE
    /\ UNCHANGED <<editor, rows, user, saved, savedMark, gate, requests, left, mishaps>>

\* A blank document in place of this one, confirmed if there was work to lose.
clear ==
    /\ NewDocument
    /\ requests' = Outdated
    /\ Bind(0, NoUser, 0)
    /\ UNCHANGED <<rows, user, gate, nameOpen, left, mishaps>>

\* The theme's paper changes under a drawing neither begun nor saved (DrawView.vue), for as
\* long as more may be made: a bound.
followTheme(paper) ==
    /\ isEmpty /\ savedId = 0 /\ paper # doc.background
    /\ made < MaxMade
    /\ loadDocument([doc EXCEPT !.background = paper])
    /\ UNCHANGED <<made, rows, user, file, requests, left, mishaps>>

\* The page is left, confirmed if there was work to lose, for a new one: on a drawing of
\* the gallery, or on none.  What is under way goes on, but reports to nobody: only a write,
\* or a 401, is of any consequence.
Visit(id) ==
    /\ id # 0 => rows[id] # NoRow
    /\ NewDocument
    /\ Bind(0, NoUser, 0)
    /\ gate' = IF id = 0 THEN Nothing ELSE [for |-> "open", id |-> id]
    /\ nameOpen' = FALSE
    /\ requests' = {}
    /\ left' = left \union {r \in requests : r.reply \in {"none", "expired"}}
    /\ UNCHANGED <<rows, user, mishaps>>

-----------------------------------------------------------------------------
\* The server answers r: only its owner reads or updates a row (drawings/service.go).
Reply(r, reply, id, content) ==
    requests' = (requests \ {r}) \union
        {[r EXCEPT !.reply = reply, !.id = id, !.doc = content]}

\* A save writes a row of its own, or the row of its sender.
Stored(r, id) ==
    /\ \/ /\ r.id = 0 /\ rows[id] = NoRow
          /\ \A other \in DrawingId : rows[other] = NoRow => id <= other
       \/ r.id = id /\ rows[id].owner = r.as
    /\ rows' = [rows EXCEPT ![id] = [owner |-> r.as, doc |-> r.doc]]

ServeSave(r) ==
    /\ r.kind = "save" /\ r.reply = "none" /\ r.as # NoUser
    /\ \/ \E id \in DrawingId :
             Stored(r, id) /\ Reply(r, "ok", id, r.doc) /\ unheard' = unheard \ {id}
       \/ /\ r.id # 0 /\ rows[r.id].owner # r.as
          /\ Reply(r, "failed", r.id, r.doc) /\ UNCHANGED <<rows, unheard>>
    /\ UNCHANGED <<editor, user, file, left, failures>>

ServeOpen(r) ==
    /\ r.kind = "open" /\ r.reply = "none" /\ r.as # NoUser
    /\ IF rows[r.id].owner = r.as
       THEN Reply(r, "ok", r.id, rows[r.id].doc) /\ unheard' = unheard \ {r.id}
       ELSE Reply(r, "failed", r.id, r.doc) /\ UNCHANGED unheard
    /\ UNCHANGED <<editor, rows, user, file, left, failures>>

\* The request does not arrive, or there is no session any more.
Refuse(r) ==
    /\ r.reply = "none"
    /\ \/ /\ r.as = NoUser
          /\ Reply(r, "expired", r.id, r.doc) /\ UNCHANGED failures
       \/ /\ "refused" \in Faults /\ failures < MaxFailures
          /\ failures' = failures + 1
          /\ \E reply \in {"failed", "expired"} : Reply(r, reply, r.id, r.doc)
    /\ UNCHANGED <<editor, rows, user, file, left, unheard>>

\* What becomes of a request whose page was left.
EndLeft(r) ==
    /\ left' = left \ {r}
    /\ \/ /\ r.kind = "save" /\ r.reply = "none" /\ r.as # NoUser
          /\ \E id \in DrawingId : Stored(r, id) /\ unheard' = unheard \union {id}
          /\ UNCHANGED user
       \/ \* it was read, answered or refused
          r.reply # "expired" /\ UNCHANGED <<rows, user, unheard>>
       \/ \* a 401 forgets the session, whatever page is there
          r.reply \in {"none", "expired"} /\ user' = NoUser /\ UNCHANGED <<rows, unheard>>
    /\ UNCHANGED <<editor, file, requests, failures>>

Landed(r) == requests' = requests \ {r}

\* The canvas marked clean as it is now.
SaveLands_MarkedNow(r) ==
    /\ r.kind = "save" /\ r.reply = "ok"
    /\ Landed(r)
    /\ IF r.stale THEN UNCHANGED <<saved, savedMark>> ELSE Bind(r.id, r.as, mark)
    /\ UNCHANGED <<editor, rows, user, gate, nameOpen, left, mishaps>>

\* A save binds the canvas, unless it has another document by now; what was drawn
\* since it was sent is not in it.
SaveLands(r) ==
    /\ r.kind = "save" /\ r.reply = "ok"
    /\ Landed(r)
    /\ IF r.stale THEN UNCHANGED <<saved, savedMark>> ELSE Bind(r.id, r.as, r.mark)
    /\ UNCHANGED <<editor, rows, user, gate, nameOpen, left, mishaps>>

\* An opened drawing is loaded, unless strokes were made while it loaded.
OpenLands(r) ==
    /\ r.kind = "open" /\ r.reply = "ok"
    /\ IF r.stale \/ ~isEmpty
       THEN Landed(r) /\ UNCHANGED <<editor, saved, savedMark>>
       ELSE /\ loadDocument(r.doc) /\ UNCHANGED made
            /\ Bind(r.id, r.as, 0)
            /\ requests' = Outdated \ {[r EXCEPT !.stale = TRUE]}
    /\ UNCHANGED <<rows, user, gate, nameOpen, left, mishaps>>

\* An error is shown; a 401 forgets the session and asks for another.
ErrorLands(r) ==
    /\ r.reply \in {"failed", "expired"}
    /\ Landed(r)
    /\ IF r.reply = "failed" THEN UNCHANGED <<user, gate>>
       ELSE /\ user' = NoUser
            /\ gate' = IF gate = Nothing THEN [for |-> "again", id |-> 0] ELSE gate
    /\ UNCHANGED <<editor, rows, saved, savedMark, nameOpen, left, mishaps>>

\* The save was written, and its reply is lost.
LoseReply(r) ==
    /\ "lost" \in Faults /\ failures < MaxFailures
    /\ r.kind = "save" /\ r.reply = "ok"
    /\ failures' = failures + 1 /\ unheard' = unheard \union {r.id}
    /\ Reply(r, "failed", r.id, r.doc)
    /\ UNCHANGED <<editor, rows, user, file, left>>

\* The player signs in, or out.
SignIn(u) ==
    /\ user' = IF user = NoUser THEN u ELSE NoUser
    /\ UNCHANGED <<editor, rows, file, requests, left, mishaps>>

-----------------------------------------------------------------------------
Init ==
    /\ EditorInit
    /\ rows = [id \in DrawingId |-> NoRow] /\ user = NoUser
    /\ saved = NotSaved /\ savedMark = 0 /\ gate = Nothing /\ nameOpen = FALSE
    /\ requests = {} /\ left = {} /\ failures = 0 /\ unheard = {}

Draw == Edit /\ UNCHANGED <<rows, user, file, requests, left, mishaps>>

Next ==
    \/ Draw
    \/ save \/ Admitted \/ Dismissed \/ confirmName \/ cancelName
    \/ clear \/ \E paper \in Paper : followTheme(paper)
    \/ \E id \in DrawingId \union {0} : Visit(id)
    \/ \E r \in requests :
          \/ ServeSave(r) \/ ServeOpen(r) \/ Refuse(r)
          \/ SaveLands(r) \/ OpenLands(r) \/ ErrorLands(r) \/ LoseReply(r)
    \/ \E r \in left : EndLeft(r)
    \/ \E u \in User : SignIn(u)

Spec == Init /\ [][Next]_vars
=============================================================================
