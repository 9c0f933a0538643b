-------------------------------- MODULE Api --------------------------------
(***************************************************************************)
(* Requests on their way in: the limiter of their tier, the session, then  *)
(* the handlers of auth and drawings, from browsers that act at once.      *)
(***************************************************************************)
EXTENDS RateLimit, Drawings

CONSTANTS
    Browser, AddressOf,
    Pager,          \* bound: the browsers that page through lists
    Login,          \* the names people register
    NoOne,
    PageLimit,
    MaxRequests     \* bound: requests in all

ASSUME ApiAssumption ==
    /\ AddressOf \in [Browser -> Client] /\ NoOne \notin Login
    /\ PageLimit \in Nat \ {0} /\ MaxRequests \in Nat

VARIABLES
    users,          \* the users table: the logins taken
    cookie,         \* whose session a browser's cookie is
    missed,         \* a write that hit no row, and has yet to learn why
    answer,         \* what the last step answered about one drawing
    walk,           \* how far a browser has paged through a list
    requests        \* how many were made

vars == <<buckets, drawings, users, cookie, missed, answer, walk, requests>>

(***************************************************************************)
(* The way in.                                                             *)
(***************************************************************************)
\* The rows in order, the first that matches decides.
ratePolicies == <<
    [under |-> {"auth"}, methods |-> {"POST"}, limiter |-> "auth"],
    [under |-> {"matches", "drawings"}, methods |-> {"POST", "PUT", "DELETE"}, limiter |-> "write"],
    [under |-> {"practice", "guess"}, methods |-> {"POST"}, limiter |-> "write"],
    [under |-> {"auth", "matches", "drawings", "practice", "guess"},
     methods |-> {"GET", "POST", "PUT", "DELETE"}, limiter |-> "default"] >>

\* The rows a request matches, of the tiers that are there.
Policies(path, method) ==
    {i \in DOMAIN ratePolicies : /\ path \in ratePolicies[i].under
                                 /\ method \in ratePolicies[i].methods
                                 /\ ratePolicies[i].limiter \in Limiter}

Key(b) == {ClientIP(AddressOf[b], own) : own \in {<< >>} \union {<<h>> : h \in Hop}}

\* One request through the limiter: ok says whether a handler sees it.
RateLimited(b, path, method, ok) ==
    /\ requests < MaxRequests /\ requests' = requests + 1
    /\ IF Policies(path, method) = {} THEN ok /\ UNCHANGED buckets
       ELSE \E i \in Policies(path, method), k \in Key(b) :
               /\ \A other \in Policies(path, method) : i <= other
               /\ Allow(ratePolicies[i].limiter, k)
               /\ ok = Allowed(ratePolicies[i].limiter, k)

Quiet == answer' = NoOne

\* Refused by the limiter (429), by RequireAuth (401) or by its handler (a body that
\* does not validate, a login taken or wrong), or only asking who it is (/me).
Nothing(b) ==
    /\ \E path \in {"auth", "drawings"}, method \in {"GET", "POST", "PUT", "DELETE"}, ok \in BOOLEAN :
          RateLimited(b, path, method, ok)
    /\ Quiet
    /\ UNCHANGED <<drawings, users, cookie, missed, walk>>

(***************************************************************************)
(* Auth. A session is its cookie: the token is checked by itself.          *)
(***************************************************************************)
Register(b, u) ==
    /\ RateLimited(b, "auth", "POST", TRUE)
    /\ u \notin users                        \* else 409, by the unique constraint
    /\ users' = users \union {u}
    /\ cookie' = [cookie EXCEPT ![b] = u]
    /\ Quiet /\ UNCHANGED <<drawings, missed, walk>>

LogIn(b, u) ==
    /\ RateLimited(b, "auth", "POST", TRUE)
    /\ u \in users
    /\ cookie' = [cookie EXCEPT ![b] = u]
    /\ Quiet /\ UNCHANGED <<drawings, users, missed, walk>>

\* Logout clears the cookie, the end of its seven days too.
LogOut(b) ==
    /\ RateLimited(b, "auth", "POST", TRUE)
    /\ cookie' = [cookie EXCEPT ![b] = NoOne]
    /\ Quiet /\ UNCHANGED <<drawings, users, missed, walk>>

Expire(b) ==
    /\ cookie[b] # NoOne
    /\ cookie' = [cookie EXCEPT ![b] = NoOne]
    /\ Quiet /\ UNCHANGED <<buckets, drawings, users, missed, walk, requests>>

(***************************************************************************)
(* Drawings.                                                               *)
(***************************************************************************)
Authorized(b, method) == cookie[b] # NoOne /\ RateLimited(b, "drawings", method, TRUE)

Answer(u, d, code) == answer' = [user |-> u, id |-> d, code |-> code]

Create(b) ==
    /\ Authorized(b, "POST")
    /\ \E d \in Drawing, at \in Instant : createDrawing(cookie[b], d, at, FALSE)
    /\ Quiet /\ UNCHANGED <<users, cookie, missed, walk>>

Get(b, d) ==
    /\ Authorized(b, "GET") /\ drawings[d] # NoRow
    /\ Answer(cookie[b], d, IF getDrawing(d, cookie[b]) THEN "ok" ELSE "not_found")
    /\ UNCHANGED <<drawings, users, cookie, missed, walk>>

\* A write finds its row, or finds none and has to look why (a tab waits for that).
Miss(b, d) ==
    /\ missed[b] = NoOne
    /\ missed' = [missed EXCEPT ![b] = [user |-> cookie[b], id |-> d]]
    /\ Quiet /\ UNCHANGED <<drawings, walk>>

Update(b, d) ==
    /\ Authorized(b, "PUT") /\ drawings[d] # NoRow
    /\ UNCHANGED <<users, cookie>>
    /\ IF Writable(d, cookie[b])
       THEN updateDrawing(d) /\ Answer(cookie[b], d, "ok") /\ UNCHANGED <<missed, walk>>
       ELSE Miss(b, d)

\* A row deleted under a walk is not owed to it any more.
Delete(b, d) ==
    /\ Authorized(b, "DELETE") /\ drawings[d] # NoRow
    /\ UNCHANGED <<users, cookie>>
    /\ IF Writable(d, cookie[b])
       THEN /\ deleteDrawing(d) /\ Answer(cookie[b], d, "ok") /\ UNCHANGED missed
            /\ walk' = [w \in Browser |-> [walk[w] EXCEPT !.owed = @ \ {d}]]
       ELSE Miss(b, d)

\* Mutant: the look at the missed row forgets whose it is.
classifyMiss_Anyones(u, d) == IF Exists(d) THEN "conflict" ELSE "not_found"

classifyMiss(u, d) == IF getDrawing(d, u) THEN "conflict" ELSE "not_found"

\* A look that fails is answered 404 as well, but as nothing that was read.
Classify(b) ==
    /\ missed[b] # NoOne
    /\ \E code \in {classifyMiss(missed[b].user, missed[b].id), "failed"} :
          Answer(missed[b].user, missed[b].id, code)
    /\ missed' = [missed EXCEPT ![b] = NoOne]
    /\ UNCHANGED <<buckets, drawings, users, cookie, walk, requests>>

\* A duel's submission stores its drawing with the match, in a transaction that may
\* have begun some time ago.
Submit(u) ==
    /\ u \in users
    /\ \E d \in Drawing, at \in Instant : createDrawing(u, d, at, TRUE)
    /\ Quiet /\ UNCHANGED <<buckets, users, cookie, missed, walk, requests>>

(***************************************************************************)
(* Paging.                                                                 *)
(***************************************************************************)
NoWalk == [user |-> NoOne, kind |-> "all", cursor |-> NoCursor, got |-> {}, again |-> FALSE,
           owed |-> {}, done |-> FALSE]

Shown(w, page) ==
    [w EXCEPT !.got = @ \union page, !.again = @ \/ page \cap w.got # {},
              !.cursor = NextCursor(page, PageLimit),
              !.done = Cardinality(page) < PageLimit]

Begun(u, kind) == [NoWalk EXCEPT !.user = u, !.kind = kind, !.owed = Listed(u, kind, NoCursor)]

\* The first page, or the next one of the same person's list.
List(b) ==
    /\ b \in Pager /\ Authorized(b, "GET")
    /\ \E w \in {Begun(cookie[b], kind) : kind \in Kinds} \union {walk[b]} :
          /\ w.user = cookie[b] /\ ~w.done
          /\ walk' = [walk EXCEPT ![b] =
                         Shown(w, listDrawings(w.user, w.kind, w.cursor, PageLimit))]
    /\ Quiet /\ UNCHANGED <<drawings, users, cookie, missed>>

(***************************************************************************)
(* The rest.                                                               *)
(***************************************************************************)
Tick ==
    /\ Ages
    /\ Quiet /\ UNCHANGED <<drawings, users, cookie, missed, walk, requests>>

Sweep(l) ==
    /\ RunSweeper(l)
    /\ Quiet /\ UNCHANGED <<drawings, users, cookie, missed, walk, requests>>

\* The limiters live in the process.
Restart ==
    /\ buckets' = [l \in Limiter |-> [k \in {} |-> k]]
    /\ missed' = [b \in Browser |-> NoOne]
    /\ Quiet /\ UNCHANGED <<drawings, users, cookie, walk, requests>>

Init ==
    /\ buckets = [l \in Limiter |-> [k \in {} |-> k]]
    /\ drawings = [d \in Drawing |-> NoRow]
    /\ users = {} /\ cookie = [b \in Browser |-> NoOne]
    /\ missed = [b \in Browser |-> NoOne] /\ answer = NoOne
    /\ walk = [b \in Browser |-> NoWalk] /\ requests = 0

Next ==
    \/ \E b \in Browser :
          \/ Nothing(b) \/ LogOut(b) \/ Expire(b) \/ Create(b) \/ Classify(b) \/ List(b)
          \/ \E u \in Login : Register(b, u) \/ LogIn(b, u)
          \/ \E d \in Drawing : Get(b, d) \/ Update(b, d) \/ Delete(b, d)
    \/ \E u \in Login : Submit(u)
    \/ \E l \in Limiter : Sweep(l)
    \/ Tick \/ Restart

Spec == Init /\ [][Next]_vars
=============================================================================
