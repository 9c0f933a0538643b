# justpaint: a verification project

justpaint is a drawing program with a rated game. Two strangers get the same
prompt, draw for a fixed time, and a multimodal model picks the better drawing;
the verdict moves an Elo ladder. Around that duel there is an editor, saved
drawings, two unrated AI games (practice, guess) and an AI drawing assistant.

This directory holds TLA+ modules translated from the source, the TLC
configurations that check them on small instances, and proofs about them
that TLAPS checks for all values of the constants. Paths below are relative to
the repository root (`server/...`, `apps/web/...`, `packages/...`).

`PROJECT.json` is the index: which lines each definition models (`map`), what
each run checks, a mutated definition that breaks each checked property, the
hazards of the code and the properties that cover them, and the theorems.

## 1. The system

### 1.1 Components

| Component | State it keeps | Operations | Talks to |
|---|---|---|---|
| **Duel** `server/internal/game` | `matches`, `match_players`, `users.rating` (Postgres); judging slots (memory) | CreateOrJoin, Get, Cancel, Submit, judgeMatch, RunSweeper with its four sweeps | AI-call budget, Judge, Renderer, Realtime hub, Drawings |
| **Elo** `game/elo.go` | none | computeElo | Duel |
| **Leaderboard** `internal/ratings` | none | one query | Duel |
| **AI-call budget** `internal/aibudget` | `ai_calls` (a row for each side of a call) | Check, Spend, Usage, retention sweep | Duel, Practice, Guess, Assist |
| **Practice, Guess** `internal/practice`, `internal/guess` | `practice_runs` | submit, score | AI-call budget, Renderer, Gemini |
| **Assist** `internal/assist` | per-user limiter (memory) | ask for operations on the document | AI-call budget, Gemini |
| **Judge, Gemini clients** `internal/judge`, `internal/gemini` | none across calls | one call with retries inside a deadline | providers |
| **Renderer** `internal/render` | worker slots | rasterise a document | a node process |
| **Realtime hub** `internal/ws` | rooms, connections, two channels (memory) | connect, register, publish, fan out, evict, shut down | Duel (publisher), Duel client |
| **Duel client** `apps/web/src/features/play` | reducer state, poll timer, socket | press, poll, frame, submit, clock | Duel over HTTP, hub over a socket |
| **Drawings** `internal/drawings` | `drawings` | create, read, update, delete, list; a duel's drawing is read-only | Duel |
| **HTTP rate limiter** `platform/ratelimit` | token buckets (memory) | allow, evict | all handlers |
| **Auth** `internal/auth` | `users`; signed tokens | register, log in, log out, verify | all handlers |
| **Editor** `packages/editor` | document, undo and redo stacks | commit, undo, redo, load, preview and accept a proposal | web client |
| **Drawing file** `features/draw/useDrawingFile.ts` | which row and mark are saved, requests under way | save, name, open, new | Editor, Drawings |
| **Document** `internal/document`, `packages/contracts` | none | parse, validate, apply operations | Drawings, Assist, Duel |
| **Boot, shutdown, migrations, configuration** `cmd/server`, `platform` | processes | load the environment, start the workers, stop them in order | all |

### 1.2 How the duel works

A match row goes `open -> drawing -> judging -> done`, or to `abandoned`.

- **Play** (`CreateOrJoin`): under a matchmaking lock a match in play is
  resumed; otherwise the oldest joinable open match is joined, which starts the
  round and bills both seats, or one is created. A waiting creator has to
  poll: the poll (`Get`) is a pulse, and a match without one is not joinable.
- **Submit**: under the row lock, before the deadline, the seat is stamped. The
  last seat sends the match to judging: with a free judging slot the pass is
  stamped, counted and billed in that transaction and started after its commit;
  without one the match is queued (a null `judging_started_at`).
- **A judging pass** (`judgeMatch`) reads both ratings, renders, asks the judge,
  and writes the result under the row lock if the match is still in judging.
  The delta is sized by the ratings read at the start and added to the ratings
  found at the end. Its context ends it after `judgePassSecs` = 60 s.
- **The sweeper**, on every instance, one ticker: expired rounds (abandon,
  forfeit, or queue for judging), stuck judging (a queued match, or one whose
  pass started `judgeStaleSecs` = 75 s ago: start it again, up to
  `maxJudgeAttempts`), exhausted judging (abort, with no rating), stale open
  matches (abandon). Each sweep lists candidates without a lock, then takes
  them one at a time under the row lock and checks again.
- Several server processes may share the database. Nothing in memory
  survives a restart: a pass that dies is found by the sweeper, from its age.

### 1.3 How the parts meet

- **Calls.** Practice, guess and assist check the budget (two queries: the
  player's allowance, the provider's ceiling), render, spend by one conditional
  insert, ask the provider. A duel is checked when play is pressed, billed to its
  players when it is joined and to its provider once for each pass.
- **Inside a call.** One context bounds the wait for a render worker, the render, and up
  to three attempts with waits between them. Passes hold a judging slot throughout.
- **The live room.** The duel tells the hub after its commits; the hub's loop sends a
  shared frame at once and hands a per-viewer state to a goroutine that reads the
  database. A full buffer closes its client.
- **The tab** polls over HTTP whatever the socket does; a frame only makes it faster.
- **Drawings.** Every request passes the limiter of its tier, then the session,
  then one or two queries. A duel's submission is a drawing nobody writes again.
- **The editor** holds a document with an undo history; its mark, the last entry applied,
  is what the file layer compares to say whether the drawing is saved.

### 1.4 What is hard

`PROJECT.json` lists each hazard at its line. In short:

- two submits, a late submit and one or more sweepers reach a round around its
  deadline; two processes start a pass for one match; a pass outlives the window after
  which it is presumed dead; a verdict lands after the match was settled;
- two matches of one player settle at once, each with ratings read earlier;
- sweeps act on a list read earlier; `now()` in a transaction is the time of
  BEGIN, before any wait for a lock;
- a crash between the commit that counts and bills and what was billed; a
  shutdown that closes the slots while requests go on; all slots busy;
- every status must be left eventually, whatever players, judge and crashes do;
- the budget's count and insert overlap under READ COMMITTED; a ceiling that gates no write;
- retries, the pauses before them and the pass budget race each other; a worker slot is held by a
  render whose caller has gone;
- sockets come, stall and go while the hub evicts, fans out and stops;
- frames are lost, late or reordered against the poll; replies outlive their round;
- limiter maps at their cap; a page walked while rows come and go; a write that hits no
  row and learns why in a second query;
- undo after composites whose parts captured indices; saves in flight while the
  drawing, the account, the document or the page changes, and lost replies.

### 1.5 What makes each component correct

| Component | Properties |
|---|---|
| Duel, Leaderboard | a round or a pass never wedges; a result is the one the round earned; a match has one pass at a time and is settled once; a round gets its time; the ladder and the board are what the matches add up to; billing is exact; one match in play for each player; every match ends |
| Elo | what one gains the other loses; the logistic formula |
| AI-call budget and its callers | a cap is passed only by calls whose counts overlapped; no call made is lost from the count |
| Judge, Gemini, Renderer | slots are always given back; retries never outlive the pass; an answer can still be written; every call ends |
| Realtime hub | caps hold; presence is exact; no transition is skipped; a stopped hub closes all; no handler is stuck |
| Duel client | one poll loop that never dies; shows what is true; never walks back; catches up |
| HTTP rate limiter, Drawings, Auth | no header opens a bucket; nobody gets a second burst by being forgotten; answers are true; a walk misses nothing |
| Editor, Drawing file | commands are exact inverses; "saved" is shown only for what is on the server; a save never goes to another account's row |

## 2. Modules

| Module | What it is |
|---|---|
| `Elo` | `computeElo` in integers, exactly |
| `Duel` | the duel: one action per handler and sweep, over the rows |
| `DuelContract` | the abstract specification: what a duel promises, with no clock, queue, slot or sweep |
| `DuelProperties` | the properties of `Duel`, and the refinement mapping to `DuelContract` |
| `Leaderboard` | the board's query over `Duel`'s rows |
| `DuelReducer`, `DuelClient`, `DuelClientProperties` | the tab: `duel.ts` as a pure reducer; the poll loop, the socket, the requests and the server as it answers one player |
| `Config` | what an environment means and which ones `config.Load` refuses |
| `AIBudget`, `AICall`, `AICallProperties` | the ledger; every request that may spend, from its check to its answer |
| `ProviderCall`, `ProviderCallProperties` | the time inside a call: workers, slots, retries, deadlines |
| `Realtime`, `RealtimeProperties` | the live room of a match |
| `RateLimit`, `Drawings`, `Api`, `ApiProperties` | the limiters; the drawings table; requests of browsers through both and through the session |
| `History`, `Editor`, `EditorProperties` | commands and their inverses; the editor over them |
| `DrawingFile`, `DrawingFileProperties` | the editor's document as a file, with requests under way |
| `MC*` | the instances TLC checks |
| `*Proofs` | the theorems (section 4) |

Each `...Properties` EXTENDS its component. `Duel` EXTENDS `Elo`; `AIBudget` EXTENDS `Config`
and `AICall` EXTENDS `AIBudget`; `Api` EXTENDS `RateLimit` and `Drawings`; `Editor`
EXTENDS `History` and `DrawingFile` EXTENDS `Editor`, whose every edit is a step of it;
`DuelClient` EXTENDS `DuelReducer`; its server side is what `Duel` lets one player see
of a match, without clocks. `DuelProperties` INSTANCEs `DuelContract`.
Pure functions of the code (the reducer, the commands, the bucket arithmetic, the
policies) are operators of modules without variables or with few, used by the state machines.

### 2.1 `Duel`

| Variable | In the code |
|---|---|
| `match[m]` | the row of `matches` with its two of `match_players`; status `none` is an id not inserted yet |
| `rating[p]` | `users.rating` |
| `ledger` | the duel's rows of `ai_calls`: counts per player, and passes billed to the provider |
| `pass[k]` | what a judging slot (`judgeLimiter`) runs: the match, whether ratings have been read, which, and for how long |
| `sweep[i]` | which of its four sweeps an instance is in, and the candidates left of the list it read |
| `draining` | instances that got SIGTERM and have closed their slots |
| `crashes` | how many crashes and shutdowns there were, for the bound |

| Action | Code |
|---|---|
| `CreateOrJoin` | `Service.CreateOrJoin`, `resume`, `createMatch`; with `FindMyLiveMatch`, `FindOpenMatchToJoin` (SKIP LOCKED is `busy`) |
| `Get`, `Cancel` | `Service.Get` (the pulse), `Service.Cancel` |
| `Submit`, `SubmitLate` | `Service.Submit` with `enterJudging`; past the deadline it resolves the round |
| `runJudging`, `persistResult`, `judgeFails` | `judgeMatch`: read the ratings; write the verdict if still in judging; any failure or the end of the context |
| `List`, `resolveExpiredMatch`, `refireJudging`, `deferStuck`, `abortJudging`, `reapOpenMatch` | `RunSweeper` and its sweeps |
| `Crash`, `Shutdown`, `Restart` | the process (`cmd/server`) |
| `Tick` | time |

**Time.** A timestamp is kept as its age, and only while the status makes the
code compare it. An age stops growing once past every limit it is compared
with, by the largest delay that can be taken off it again (`AgeCap`). `Tick` is
one second for every row and pass.

**Transactions.** Every transaction of the duel takes its lock (the advisory
matchmaking lock, or `FOR UPDATE` on the row) before it reads what it decides
on, so its body is one step. What is older than the lock is its clock: `now()`
is the time of BEGIN. Each such action takes `d \in TxDelays`, the seconds
between BEGIN and the step, subtracts it from ages it compares, and writes it
as the age of what it stamps.

**Sweeps.** The list is read in one step (`List`) and each candidate taken in
one of its own, so that everything can happen in between; what the code checks
again under the lock, and only that, is checked again.

**Processes.** `Crash` forgets passes and the sweeper's place. `Shutdown` stops
the sweeper and closes the free slots, while requests and running passes go on;
`Restart` ends that. An instance without a slot stands for one whose slots are
busy with other matches for good.

Left out: prompts, documents and images (the verdict is any seat or a tie, so which
image is A or B does not matter); a refused budget and an empty prompt pool, which
change nothing here; which of several live matches `FindMyLiveMatch` prefers (any);
SKIP LOCKED in the sweeps' lists, and batches (a row another transaction holds is as good
as handled before or after); the row locks on the two users inside the settling transaction,
which `service.go:620` takes in order of id (settling is one step); a commit whose
answer is lost is a pass that fails before or after it.

### 2.2 `DuelClient`

| Variable | In the code |
|---|---|
| `client` | `useDuel`'s state and flags (`timer`, `inFlight`, `pollAgain`, `signingIn`, `disposed`) and `useMatchSocket`'s (the socket, a reconnect to come) |
| `row[m]` | what Postgres says of the player's match `m`: status, joined, whose drawing is in |
| `cookie`, `user` | the server would accept the session; the tab believes it has one |
| `requests` | requests sent, half read (row, not yet the roster), or answered and not read by the tab |
| `frames` | what the hub pushed and the tab has not read |
| `faults` | lost requests, dropped sockets and dead sessions so far, for the bound |

A handler runs to its next `await` in one step, with everything its `dispatch`
sets off. A request is served from the match as it is then, and its
reply read at any later time; a snapshot's row and roster are two reads, as
`Service.Get` takes no database snapshot. A `generation` counter is kept as
its use: a reply is `stale` once the counter has moved on from it, and
a closed socket's frames are gone. Intervals are left out: a timer that is set may fire at
any time. `Push` sends any transition that has happened, in any order, since the
hub is told after the commit and without a lock.

Left out: the countdown, drafts, names, the prompt, presence, the `offline` and
`submitFailed` warnings, the ends `gone` and `failed` (which end the round as `budget`
does), signing in as somebody else, and a match past its TTL but not yet swept.

### 2.3 `AIBudget`, `AICall`

| Variable | In the code |
|---|---|
| `ledger` | the rows of `ai_calls`; each bills a player or a provider |
| `now` | the database's clock, in fractions of the rolling day |
| `req[c]` | a request (or a duel that waits, or is on): user, kind, how far |
| `runs[c]` | the row of `practice_runs`: attempted, scored |
| `made` | history: the provider rows whose request was really made |

| Action | Code |
|---|---|
| `Arrive`, `Refuse` | a request, and what a handler refuses before any check (the assistant's own limiter included) |
| `CheckUser`, `CheckProvider` | the two queries of `Budget.check`; play first looks for a match in play |
| `Attempt`, `Render` | practice commits its attempt; the raster is made, or fails |
| `SpendReads`, `SpendWrites` | the conditional insert: its count and its rows, which under READ COMMITTED another insert may come between |
| `Ask`, `Answer`, `StoreVerdict`, `Fail` | the provider is asked and answers; practice stores the verdict; anything may fail |
| `Play`, `StartPass`, `MatchEnds` | a duel waits or is joined (both players billed), a pass bills the provider, the match ends |
| `Sweep` | the retention sweep, by the process's clock |
| `Crash`, `Tick` | all requests are gone; time |

Left out: assist's own limiter beyond `Refuse`, and read-outs of the usage, which change nothing.

### 2.4 `ProviderCall`

| Variable | In the code |
|---|---|
| `job[j]` | a call: its stage, what its context and its timer still have, images rendered, attempts made |
| `workers`, `judging` | slots taken of the renderer and of `judgeLimiter` |
| `requests`, `atCall` | history: attempts sent; what the context had left when first asked |

`StartPass` and `Arrive` begin a call; `StartWork`, `TakeSlot`, `Rendered` are the renderer with
its semaphore; `Spent` the spend, which runs on the request's context and not the work's, so a billed
call may be asked on a finished context; `Asks`, `Transient`, `Retry`, `Answered`, `Invalid` the retry
envelope with its pauses and the assistant's corrective second ask; `Fails` and `CtxDone` every other way
out; `Tick` waits for whoever has a timer at zero. The contents of requests and answers are left out.

### 2.5 `Realtime`

| Variable | In the code |
|---|---|
| `version`, `unsent` | transitions committed; those whose `Publisher` call is still to come |
| `publish`, `hub` | the hub's channel of events; running, cancelled, done |
| `room`, `before` | the clients of the room; which of its user's were there before a client |
| `fanouts` | per-viewer fan-outs under way: whom they still serve, whose state they hold, and as of when |
| `pc[c]`, `snapshot[c]` | where a `Connect` is; the version its snapshot was read at, while it waits to be queued |
| `total`, `perIP`, `elsewhere` | the limiter's counters; the sockets of other matches |
| `closed` | the clients `forceClose` was called on |
| `load`, `knows` | how many frames a buffer holds; what the reader knows after the last |
| `missed` | history: clients a frame could not be built or queued for |

| Action | Code |
|---|---|
| `tryAcquire`, `Upgrade`, `release` | `limiter.go`; `handler.go` up to the hub: the id, the membership, the handshake, each of which may refuse |
| `registerClient` (with `handleRegister`), `unregisterClient`, `handlePublish`, `shutdown` | the cases of `Hub.Run`, one step for one message; a handler past the hub does not wait |
| `FanoutReads`, `FanoutSends` | `fanoutPerViewer`, one read and one send for each user |
| `SnapshotReads`, `SnapshotSends` | the snapshot: read after the client has joined, queued when the database has answered, behind whatever came meanwhile |
| `writePump`, `readPump`, `PumpsEnd`, `SocketEnds` | `conn.go`; every keep-alive timer is a way for a socket to end |
| `Commit`, `enqueue` | the duel's transition, and its report to the hub, which may drop it |
| `Cancel` | SIGTERM |

A frame is what it changes in its reader's knowledge. Two fan-outs may pass each other, so a
client's last frame may be older than one before it; `knows` keeps the union, and the client's
reducer and poll deal with the order (`DuelClient`).

### 2.6 `RateLimit`, `Drawings`, `Api`

| Variable | In the code |
|---|---|
| `buckets[l]` | a limiter's map: tokens and idleness of each key |
| `drawings[d]` | the row: owner, whether a duel's submission, created, updated |
| `users`, `cookie` | the accounts; whose session a browser's cookie is |
| `missed[b]` | a write of `b` that hit no row and has yet to learn why (`classifyMiss`) |
| `answer`, `walk`, `requests` | history: what was said last about a drawing; how far a browser paged; the bound |

`Register`, `LogIn`, `LogOut`, `Expire`; `Create`, `Get`, `Update`, `Delete`, `Miss` then `Classify`, `List`;
`Submit` (a duel's drawing appears); `Nothing` (refused on the way); `Tick`, `Sweep`, `Restart` (the limiters
forget). Every request goes through `RateLimited`: the first policy it matches, keyed by `ClientIP`.
Passwords, signatures and bodies are left out.

### 2.7 `History`, `Editor`, `DrawingFile`

| Variable | In the code |
|---|---|
| `doc`, `undoStack`, `redoStack`, `activeLayerId` | `Editor`'s document, history and active layer |
| `ghostOps` | the proposal shown and not yet accepted |
| `made` | numbers given to what was made, and the bound |
| `rows`, `user` | the server's drawings; who is signed in |
| `saved`, `savedMark`, `gate`, `nameOpen` | `useDrawingFile`: the row bound and its account, the mark it was saved at, the action that waits for a session, the dialog of a first save |
| `requests`, `left` | saves and opens sent or answered; those whose page was left, and to which nobody listens |
| `failures`, `unheard` | the bound; history: ids last written by a save whose reply was lost, or whose page was left |

Every edit is a composite of commands that captured what their inverse needs, when they were built.
Actions have the names of the methods (`finishGesture`, `addLayer`, `removeLayer`, `moveLayer`, `acceptOps`, `undo`,
`save`, `confirmName`, `clear`, ...); `ServeSave`, `ServeOpen`, `Refuse`, `LoseReply` are the network and the
server, `SaveLands`, `OpenLands`, `ErrorLands` what happens when a reply is read.
`Visit` is the leave guard (`DrawView.vue:164`, which asks about unsaved changes only, and is answered yes) and the page that is opened
then, on a drawing of the gallery or on none: its mutations are fresh (`useDrawingFile.ts:61`), so it may open or save a row that a request of the page before
is still to write. `EndLeft` is the end of such a request: written, refused, or a 401, which forgets the session whatever page is shown.
A layer's name, visibility and opacity are one `look`, their three commands one. Captured layers are values: whoever
re-inserts one finds it as it was taken out, since the history is last in, first out.
Proposals are those of the shipped assistants (an own new layer, `docs/ASSIST.md:115`).
Left out: gestures in progress, the view, confirmations (answered yes), the caps on the whole document, which fire when
it is saved, a query library that pauses a save while offline, the gallery's rename (which reads a document and writes it back) and delete,
and other tabs.

## 3. What is checked

| Run | Instance | Properties | What it shows |
|---|---|---|---|
| `elo` | all pairs of ratings within 600 of each other | `EloZeroSum`, `WinFollowsFormula` | the two separately rounded gains cancel, ties and halves included; the table of steps is the logistic formula |
| `round` | 2 players, 1 match, 3 instances (a slot each, and one whose slots are busy), delay up to 1 s, 1 crash or shutdown, pass 1 s, stale after 3 s, fairness | `NoWedgedRound`, `ResultFitsRound`, `NoWedgedJudging`, `OnePassPerMatch`, `NoAbortUnderPass`, `RoundRunsItsTime`, `EveryMatchEnds` | one round with everything that may race for it, and its end |
| `ladder` | 3 players, 2 matches, 1 instance with 2 slots, passes longer than the stale window, delay up to 1 s | `LadderAddsUp`, `BilledExactly`, `BoardFitsLadder`, `OneMatchInPlay`, `SettledForGood`, `ContractKept` | exactness even if `StaleMargin` fails and a live pass is fired again; the refinement |
| `client` | 1 match, 1 fault, 1 frame | `TypeOK`, `OneLoop`, `LoopNeverDies`, `ShowsTheTruth`, `PhaseNeverGoesBack` | one round in a tab, with its polls, frames, submit, cancels and sign-ins in any order |
| `client_ends` | 1 match, 1 fault, no frame, fairness | `CatchesUp` | the poll alone brings the end of the match to the tab |
| `calls` | 4 calls of 2 players in one pool, 2 at a time, allowance 1, ceiling 2, a crash at any time | `AllowanceHolds`, `CeilingHolds`, `EveryCallCounted` | caps are passed only by counts that overlap |
| `judge` | 2 passes and an assistant's drawing, one slot of each kind, fairness | `SlotsBalance`, `RetriesFitPass`, `AnswersAreWritten`, `CallsEnd` | slots, retries and deadlines fit into each other |
| `hub` | 3 sockets of 2 users at 2 addresses, a cap of one for each user, buffers of 2, one transition | `Bounded`, `PresenceExact`, `NothingSkipped`, `StoppedMeansClosed`, `NeverStuck` | sockets coming, going and stalling while the hub broadcasts, evicts and stops |
| `api` | 2 accounts in 2 browsers behind 2 addresses, 2 drawings, pages of one, a limiter map of one | `KeysAreClients`, `AnswersTrue`, `WalkComplete`, `ForgottenWhenFull` | limiters, session and drawings together |
| `editor` | 3 layers and those of proposals, 4 commits, every kind of edit | `ExactInverses` | undo and redo in any mix |
| `replace_undo` | 4 layers replaced | `ExactInverses` (violated) | the finding of section 3.2 |
| `file` | 2 accounts, 2 drawings, 2 papers, 2 commits, a refused request or a lost reply, pages left at any time | `CleanIsSaved`, `SavesFindTheirRow` | what leaving asks nothing about is on the server; saves go to rows of their sender |

The type invariants of the modules that have proofs are proved (section 4) and not
run again.

### 3.1 Bounds, and why they are enough

**Duel.** The seconds are scaled down; only their order and the boundaries matter, and
each limit is at least one second, so every comparison is seen just below,
at, and above its limit. `StaleMargin` (`PassSecs + MaxDelay < StaleSecs`) holds
in `round` as 60 and 75 do in the code, and fails in `ladder`
on purpose. Two players is what one round takes; the third is needed where
two matches share one. Two instances are needed for two sweepers on one match, the
third for the slots that never come free; `MaxAttempts` = 2 for a first pass, a retry, and the abort;
a second match for results of one player that overlap, and for two matches that want
one slot. `MaxCrashes` bounds crashes plus shutdowns. Players are interchangeable
except where `InitRating` tells one apart, and the symmetry sets say so; no run that
checks liveness uses symmetry.

**Client.** `MaxFaults`, `MaxFrames` and `MaxRequests` bound the network; a player
acts only with fewer than `MaxRequests` = 2 requests under way, which leaves room for
a poll, a submit and a cancel at once. One frame at a time meets every poll and
every other frame in either order, because a push may be of any
transition so far, old ones after new ones included.

**Calls.** Four calls are two that overlap and two that follow; three may be practice runs or duels,
the fourth is the assistant's, so that kinds share a pool. `MaxParallel` and `MaxOpen` bound requests at
once and are the slack the two caps are stated with. A day is one unit, a week two, and the process's clock
may be one off.

**Inside a call.** A tick is about ten seconds. The envelope of three attempts
and two waits is shorter than the pass's budget, as 10 s attempts are in 60 s; the configuration does not
check that (`JUDGE_TIMEOUT` is free), so `ProviderCallAssumption` asks for it.

**Hub.** With two sockets of one user and a cap of one, the second evicts the first; a buffer of two is filled by
what a newcomer is sent. One transition is enough for a snapshot to race a broadcast and a fan-out: it commits between the
read of the snapshot and its place in the buffer, and its frame is there first. The proof
covers more of everything.

**Api.** Only the tier of writes has a limiter here: the others behave alike. Two drawings and pages of one make a
walk of two pages with a row that is created, submitted or deleted in between; one browser pages. Five requests in all.

**Editor, file.** Three layers are the least where a layer moves past two others. `MaxMade` bounds commits and new documents.
`MaxReplaced` = 3 keeps `editor` below the finding. `file` draws strokes only: which edit makes a document dirty does not matter. Two of them, or one and a new page, make a row that
differs from the canvas; a theme may change until the second is made.

`CHECK_DEADLOCK FALSE` is in `calls`, `judge`, `hub` and `api`: their calls, sockets and requests are
bounded, and once they are used up the world stops. In the others a state in which all is over
still ticks, or a tab still hears it is online.

### 3.2 Where doc and code disagree

**Undo after a replacement** (run `replace_undo`). `history.ts:201` says commands are exact inverses and
`editor.ts:363` that undo "puts the old layers back in their order". `acceptOps('replace')` builds every removal before
any is applied, so each holds its original index, and the composite inverts them last first, each index cut down to the
layers there are (`history.ts:83`). With layers A, B, C, D the drawing comes back as A, B, D, C. The cut hides it up to three layers,
which is what `assist.test.ts:195` has. The mark is the one from before, so a saved drawing counts as clean in
another order. (A proposal that drew on an existing layer, which the contract allows and the shipped
assistants do not do, would show it with three.)

Seen while modelling; each is an exception a property names, or a limit of what it says:

- **One match in play.** `docs/GAME.md:83` says a player has one. `CreateOrJoin` opens its
  transaction before it waits for the matchmaking lock (`service.go:173`), and its queries compare with the time of
  that BEGIN. Ann's open match passes its TTL; she presses play and gets a new one; Bob's transaction began before the TTL and gets
  the lock after Ann's: to its clock the old match is joinable, and Ann is seated in a round she does not know of.
  `OneMatchInPlay` forbids everything but this (`SeatedByLateClock`).
- **A lost save reply** (`useDrawingFile.ts:69`, `:154`). The save was written but counts as failed; undoing back to the
  mark before it is "clean" although the row differs. `CleanIsSaved` excepts such rows (`unheard`) until they are next written or read.
- **A save of a page that was left** (`useDrawingFile.ts:69`, `DrawView.vue:164`). A save of row 1 is under way; the player undoes to the saved
  mark, or answers "Leave", and opens row 1 again from the gallery. If that read is served before the save is written, the canvas is
  the older version and counts as clean, and the new page has no save under way: leaving it asks nothing. Without the second exception of
  `CleanIsSaved` (`EndLeft` adds such a row to `unheard`) TLC finds this in fifteen steps. In the same way the saves of two pages may
  be written in the opposite order.
- **A creator over the cap.** `docs/GAME.md:144` words what a creator may be billed over their cap as one duel. The check is at creation and the bill at
  the join, so it is as many as wait or are under way together. That is one as long as a player has one match in play, which the first entry
  of this list excepts; `AllowanceHolds` states it as `MaxParallel` - 1.
- **A button that does nothing** (`useDuel.ts:192`). `start()` ends in `auth` when the tab has no session, but on a finished
  round the reducer ignores `end` (`duel.ts:164`): after the queue is left with an expired session, "Queue again" does nothing.
- **Requests into a dead session** (`useDuel.ts:36` says none are sent while the modal is up). The reply of a poll in flight sets the timer
  that a submit's 401 had stopped, and `tick` does not look at `signingIn` (`:174`).
- **A modal nobody asked for** (`docs/DECISIONS.md:189` forbids it to a background poll). A poll in flight when the
  round ends is not stale; its 401 asks for a sign-in over the result (`useDuel.ts:157`).
- **Status walking back.** A `pending` reply (`duel.ts:173`) or a `judging` frame (`:181`) after a snapshot of the match as
  done puts `status` back to `judging`, where `duel.ts:41` promises the furthest. The phase does not (`PhaseNeverGoesBack`).
- **An attempt without a bill.** `practice/service.go:138` says a failure leaves a spent call counted. A run whose render fails,
  or whose spend is refused, leaves an attempt row and no row in the ledger.
- **A miss that is not one.** `classifyMiss` (`drawings/service.go:103`) answers 404 when its second read fails; `AnswersTrue` is
  about answers after a read, and tells that 404 apart (`"failed"`).

### 3.3 Fairness

`Duel` (`FairSpec`): weak fairness of `Tick` (time passes), of each slot's `Judging`
(a pass ends, as its context has a deadline), of each instance's `Sweep` (a ticker
in a loop that only a shutdown ends) and of `Restart` (a process told to exit
does). Nothing is assumed of players: they may stop at any point. Crashes are bounded, or no
retry would ever get through.

`DuelClient` (`FairSpec`): a set timer fires, and the poll of this round
is served and its reply read. Nothing is assumed of the socket, the hub, the player, the
match or other requests: they may hang forever.

`ProviderCall`: time passes, and a call that can take a step of its own code does. Nobody promises
that a render ends or a provider answers.

`Realtime`: a handler that can go on does, which is what `NeverStuck` asks about in each state; a cancelled hub shuts down.

## 4. What is proved

Each theorem holds for every value of the constants under the named assumptions of its module.

| Module | Theorem | Says |
|---|---|---|
| `EloProofs` | `GainsMirror` | for integers, one seat's gain is the other's loss |
| `DuelProofs` | `TypeCorrect` | types |
| | `RoundsNeverWedge`, `ResultsFitRounds`, `JudgingNeverWedges` | `NoWedgedRound`, `ResultFitsRound`, `NoWedgedJudging` |
| | `SettledStays`, `RoundsRunTheirTime` | `SettledForGood`, `RoundRunsItsTime` |
| | `OnePassAtATime`, `AbortsSpareLivePasses` | `OnePassPerMatch` and `NoAbortUnderPass`, if `StaleMargin` |
| | `DuelImplementsContract` | `Duel` implements `DuelContract` |
| | `LadderAlwaysAddsUp`, `BillsAreExact`, `BoardAlwaysFits` | `LadderAddsUp`, `BilledExactly`, `BoardFitsLadder` |
| | `OneMatchAtATime` | `OneMatchInPlay`, with its exception |
| | `LadderKeepsItsSum` | `EloZeroSum`, for every rating |
| `DuelClientProofs` | `TabHasItsTypes`, `ThereIsOneLoop`, `TheLoopNeverDies`, `ThePageShowsTheTruth`, `ThePhaseMovesOn` | `TypeOK`, `OneLoop`, `LoopNeverDies`, `ShowsTheTruth`, `PhaseNeverGoesBack`: all of `client` |
| `AICallProofs` | `AICallTypes`, `AllowanceAlwaysHolds`, `CeilingAlwaysHolds`, `EveryCallAlwaysCounted` | types, and the properties of `calls` |
| `ProviderCallProofs` | `ProviderCallTypes`, `SlotsAlwaysBalance`, `RequestsAlwaysBounded`, `RetriesAlwaysFitPass`, `AnswersAlwaysWritten` | types, a bound on the requests of a billed call, and the safety properties of `judge` |
| `RealtimeProofs` | `PresenceStaysExact`, `NoTransitionSkipped`, `StoppingClosesAll`, `NothingOverflows` | `PresenceExact`, `NothingSkipped`, `StoppedMeansClosed`, `Bounded` |
| `ApiProofs` | `ApiTypes`, `KeysAlwaysClients`, `AlwaysForgottenWhenFull`, `AnswersAlwaysTrue`, `WalksAlwaysComplete` | types, and the properties of `api` |
| `DrawingFileProofs` | `ExactCommand`, `ReplaceExact` | a command, and a replacement of up to three layers, takes back exactly what it did |
| | `UndoIsExact`, `ShownSavedIsSaved`, `SavesAlwaysFindTheirRow` | `ExactInverses`, `CleanIsSaved`, `SavesFindTheirRow` |

Assumptions: `IdAssumption`, `FiniteAssumption`, `TimeAssumption` (Duel: ids distinct from the null ids, slots have a
home, ratings are integers, limits are naturals); `Booted`, `EnvAssumption`, `BudgetAssumption`, `ParallelAssumption`
(AICall: an environment the server boots with, a null column that is no player and no provider, rows kept longer than they count);
`ProviderCallAssumption` (retries fit the budget, budgets fit the response's deadline); `MatchAssumption`, `BoundAssumption` (the
tab: the null match is none, bounds are naturals); `RealtimeAssumption`, and `CrowdAssumption` for `NothingOverflows` alone
(finitely many calls; the sockets of other matches passed the same limiter, `limiter.go:47`; a match has no more users than
a fresh buffer holds frames, 2 and 32, as `hub.go:205` has it);
`RateLimitAssumption`, `DrawingsAssumption`, `ApiAssumption`, `RowsAssumption` (ids are ordered, null values are no rows).
TLC evaluates all of them on the instances.

The last three theorems have a hypothesis in place of an assumption, `ProposalsFit`. Where no drawing is replaced (`MaxReplaced` = 0),
proposals may be any batches of ops. Where drawings of up to three layers are, they draw into layers of their own, and add one first,
as the shipped assistants do (`docs/ASSIST.md:115`; `OwnLayerFits` shows that the answer of the runs is such a batch). The bound
is exact: with four layers, or with three and a proposal that draws on one of them, the code does what section 3.2 describes.

**Elo.** The gain of a win is a step function of the rating lead, kept as 32 integer
bands; an expected score above a half mirrors one below it. `WinGainMirrors`
maps the bands one lead passes to those the opposite lead does not, a
bijection `k -> 33 - k`, so the two gains add to 32.

**Rows of a duel.** A step changes at most one match row, and each way it can is one of
ten relations between the row before and after (`Opens`, `Pairs`, `Pulses`,
`CallsOff`, `Draws`, `Collects`, `Refires`, `Forfeits`, `Decides`, `Aborts`;
together `RowStep`). `NextMoves` proves it, one case for each action. What
follows is about `RowStep` only, not the actions again.
`NoWedgedRound` and `ResultFitsRound` are not
inductive: what an abort or a forfeit leaves depends on how many attempts, seats and
clocks a row of each status has. `RoundInv` adds that: seats and drawings by status
(`SeatsFit`), attempts within the cap and zero before judging (`AttemptsFit`), the
result (`ResultFits`), a null start only while judging (`ClockFits`). `SettledStays`
follows because no relation starts from a terminal status, `RoundsRunTheirTime`
because those that leave `drawing` for good ask for the deadline or both drawings.

**Passes.** Why can a pass not be doubled? A started match's age is, on the row,
at most the pass's age plus the BEGIN-to-lock delay (`FreshUnderPass`). A pass is never
older than `PassSecs`, so under `StaleMargin` its match is below `StaleSecs`: the
re-check under the lock refuses to fire it. For the abort the list matters too, as
`abortJudging` does not check the age again: a listed match has used its
attempts and has no pass, and neither can change (`AbortsHopeless`).

**Refinement.** The mapping calls `open` "waiting" and takes the rest as is. Every
relation of `RowStep` is a step of the contract or a stutter; for `Settle` the two
deltas have to be `x` and `-x` with `|x| <= K`, which is `GainsMirror`.

**Sums.** `LadderAddsUp`, `BilledExactly` and `Bounded` are about `SumFunction`, which folds a function of any finite size. The
one fact they need is `SumChange` (`EloProofs`): functions equal off `m` have sums that differ by what changed at `m`.
The provers cannot instantiate an induction theorem, but the same is had from a least counterexample: the fold
is a function `Summing` on the subsets of the domain, and a subset of least cardinality for which the claim fails
(`LeastNat`, from well-foundedness) loses one element and contradicts itself.

**Books of a duel.** `BooksInv` is the round's invariant, `AccountInv` and the claims. `AccountInv` says what a row's
seats and ratings are in each status: a row without a result holds no ratings, so that it adds nothing, and one
with a result has both seats taken. Each step then is one of three for the ladder (no rating moves; one row settles and
its two players' ratings move by its deltas) and for the bills (`BillsNothing`, `BillsPass`, or a call of `CreateOrJoin`), and
`SumChange` does the rest. `MovedAreRanked` gives the first half of the board, and that winner and
loser are the two seats of a row the other.

**One match in play.** Nothing but `CreateOrJoin` puts a player into play (`PlayingShrinks`). The caller's own matches
in play are refused, called off or found expired by the same clock; the creator they join
was waiting in that match, unless by the joiner's clock only: `SeatedByLateClock`.

**The tab.** `TabInv` has four parts. The page (`TabFits`), each request (`RequestFits`) and each frame (`FrameFits`) say only what
is true of the rows of the matches, and since rows only grow (`RowsGrow`) what was true when it was said is true when it is read,
however late. A reply that is not stale is about the match on the page (`Awaited`): that is what the generation counter of
`useDuel.ts` is for, and a late reply of another round would break every other part. And the loop (`LoopFits`) is the one live poll under way, or
none; a round that goes on, with nobody signing in, has its timer or its poll. Each reducer event keeps
the page true and its phase moving on (`Folded`), so each action has to be looked at once. All of it was model-checked on the
instance of `client` before it was proved.

**Caps.** The count of rows is not inductive by itself: what bounds it is rows plus the calls that were told there is
room and have not written yet (`Pending`, `Cleared`). A step either trades, each row written being one pending call
less (`Traded`, whose lemma bounds the sum of the two cardinalities), or lets a call in while the rows are below the cap;
the pending are then at most the requests open at once.

**Deadlines.** The invariant of `ProviderCallProofs` is one call at a time (`JobInv`). `Paced`: what a pass had left when it first
asked is at most what it has left now, plus all its tries and waits so far could take, so a pass that began with the
envelope never runs out before its last try. `Aging`: a request has lived as long as its queries stalled and its work took.
`Counted` bounds its requests by its tries. A slot is counted by the set of calls whose stage holds one.

**The live room.** The invariant adds that a client of the room is one whose handler has not unregistered
(`SeatsFit`), that a handler that runs on has its client in the room or closed, and a stopped hub has no client (`Sheltered`), and that
no event is of a transition to come while a fan-out that has read has read the state its event announced
(`EventsFit`). Why is no transition skipped? An event is `UnderWay` until a frame that covers it is in the buffer, and
a frame that does not fit closes the client. What was committed before a client came is for its snapshot to tell: from the moment it is
read, each transition is in the buffer, in the snapshot that is still to be queued (`Told`), or under way (`NoneLost`). Why is presence exact, although an eviction is not announced? The victim is
of the newcomer's user, who stays present unless it was their only one, and then all are told again. Why does an eviction
always find somebody (`Bounded`)? `before` orders a user's clients by arrival: it is irreflexive, transitive within the room and
never names a client yet to come (`Arrivals`), so the one with the fewest before it has none (`SomeoneIsOldest`). The limiter's
counters are the sizes of the sets of calls that hold a slot (`CountsFit`).

**Pages.** `WalkInv`: what a walk still owes lies behind its cursor. A page is the newest `limit` of what lies behind
it, so what it leaves lies behind its last row; the cursor of the last row is a least element of a finite set.

**Undo.** `ExactInverses` is not inductive: it says what the last entry does now, and an undo lays bare the one below. The invariant
(`Told`) is that there is a document for every mark, such that each entry on either stack leads from the document of the mark under it to
that of its own, and back. A commit gives its mark the new document; undo and redo walk along (`ToldCommit`, `ToldUndo`,
`ToldRedo`). What is left is that an entry is exact where it was made. A command is, on documents whose layers have different ids, if what
it adds has an id not seen before (`ExactCommand`); a batch then is, as each of its commands was built for the document it meets. A batch is a fold
over its commands. `Folding` unrolls it by a least counterexample, as for sums, into a `Run` of documents, which the inverse runs back (`BatchExact`).

**Replacement.** Its removals do not meet the document they were built on, so the run back is looked at as a whole. `Keeps(e, s, i, X)` says
that the document `e` holds the layers of `s` from the i-th on in their order, and otherwise only layers of `X`, those of the proposal. Forth, each
removal shortens what is kept by one (`StageDone`). Back, the i-th layer goes in at its old index, cut down to the layers there are; that must be
below the old layers already back, the i+1-st to the last (`StageUndone`). With at most three layers, and one of the proposal's still there, it is.
At the end the proposal's layers are taken out too, and what keeps all of `s` and nothing else is `s` (`KeepsAll`).

**Saved.** `CleanIsSaved` compares the canvas with a row when the mark is the saved one, so the invariant (`Filed`) is about the document of the saved
mark: it is empty, or equals the row, or the row is in `unheard`, or a save of it is answered and its reply not yet read (`Matched`). For that to
last, each request under way has to be right about what it will do when read (`Sent`): the mark a save carries stands for the document it
carries; an answered one agrees with its row, unless a save of a page that was left was written since; and one that opens a drawing, or is stale, finds the canvas bound to no row. There is one request at a
time, or an action that waits for a session or a name (`OneAtATime`). Marks are never given twice, so an edit changes no document that a request remembers, and
opening a drawing replaces that of mark 0 alone. The requests of pages that were left need only their types: what
one of them writes is in `unheard`.

**Owners.** `SavesFindTheirRow` follows from `Owners`: the row of every answer, of every update under way and of the bound canvas
belongs to the account that asked. It lasts because a row never changes hands (`StoredOwned`), and because `savedId` is
the bound row for its own account alone.

### 4.1 Only model-checked

- liveness: `EveryMatchEnds`, `CatchesUp`, `CallsEnd`; and `NeverStuck`, which is about ENABLED: out of the prover's reach;
- `WinFollowsFormula`: powers of ten, by evaluation.

### 4.2 Not modelled

- document validation and op batches: pure predicates of one JSON input, with table tests; a model would be a copy of their limits;
- editor tools, gestures, view and canvas nodes; web pages: layout and rendering;
- prompts and the decoding of provider answers: I/O with an opaque peer (their failures are modelled);
- passwords, hashes and signatures (a token is valid until it expires);
- migrations, the connection pool and the wiring of the process.

## 5. Plan

What would come next, the most important first:

1. `Realtime` in place of `Push` in `DuelClient`: the frames of section 2.5 as the tab receives them.
2. The client's round clock and drafts, and the ends `gone` and `failed`.
3. Row locks inside the settling transaction; no deadlock between settlements.
4. The drawing file in two tabs of one account.

## 6. Running

    tlc -config MCDuelRound.cfg MCDuel.tla
    tlapm RealtimeProofs.tla

The longest run takes about three minutes with two workers.
