------------------------------ MODULE Realtime ------------------------------
(***************************************************************************)
(* The live room of one match: the hub's loop, the handlers of its sockets *)
(* with their pumps, the fan-outs that read the database for each viewer,  *)
(* the limiter in front of them, and the publishers that report what the   *)
(* duel has committed.  Matches share only the limiter and the hub's two   *)
(* queues, so one room is all there is to see.                             *)
(***************************************************************************)
EXTENDS Integers, FiniteSets, Sequences, SequencesExt

CONSTANTS
    Conn,             \* one call of Connect each, by a member of the match
    Player, Nobody,
    UserOf, IPOf,     \* whose call it is, and from which address
    MaxConns, MaxConnsPerIP, MaxConnsPerUser,
    SendBuffer,
    Elsewhere,        \* bound: the sockets other matches may hold all along, by address
    Kinds,            \* bound: the kinds of event the match goes through
    MaxVersion        \* bound: the transitions the match goes through

SharedKinds == {"player_submitted", "judging", "abandoned"}
ViewerKinds == {"match_changed", "resolved"}

IPs == {IPOf[c] : c \in Conn}

ASSUME RealtimeAssumption ==
    /\ UserOf \in [Conn -> Player] /\ Nobody \notin Player
    /\ DOMAIN IPOf = Conn
    /\ MaxConns \in Nat \ {0} /\ MaxConnsPerIP \in Nat \ {0}
    /\ MaxConnsPerUser \in Nat \ {0}
    /\ SendBuffer \in Nat \ {0, 1}
    /\ Elsewhere \subseteq [IPs -> Nat]
    /\ Kinds \subseteq SharedKinds \union ViewerKinds
    /\ MaxVersion \in Nat

\* The sockets of other matches came through the same limiter, and the users of a
\* match are few enough for a fresh buffer to hold who is there (two, and 32 frames).
ASSUME CrowdAssumption ==
    /\ IsFiniteSet(Conn)
    /\ \A e \in Elsewhere : /\ FoldFunction(+, 0, e) <= MaxConns
                            /\ \A ip \in IPs : e[ip] <= MaxConnsPerIP
    /\ IsFiniteSet(Player) /\ Cardinality(Player) <= SendBuffer

VARIABLES
    version,    \* the transitions of the match committed so far
    unsent,     \* those whose Publisher call has not been made yet
    publish,    \* the hub's channel of events
    hub,        \* "running", "cancelled" (its context is over), "done"
    room,       \* the clients of the room; empty: there is no room
    before,     \* the clients of its user that were there when a client came
    fanouts,    \* the fan-outs under way
    pc,         \* where each Connect is
    snapshot,   \* the version its snapshot was read at, until it is sent
    total, perIP, \* the limiter's counters
    closed,     \* the clients forceClose was called on
    load,       \* how many frames wait in each client's buffer
    knows,      \* what its peer knows when it has them all: transitions, presence
    elsewhere,  \* the sockets of other matches, by address
    missed      \* history: clients a frame could not be built or queued for since they
                \* last read the state themselves

members == <<room, before>>
stages  == <<pc, snapshot>>
limiter == <<total, perIP, elsewhere>>
send    == <<load, knows>>
vars == <<version, unsent, publish, hub, members, fanouts, stages, limiter, closed,
          send, missed>>

Stage == {"new", "admitted", "upgraded", "joined", "seen", "live", "leaving", "left",
          "ended"}

Of(u, clients) == {c \in clients : UserOf[c] = u}
Goes(c, s) == pc' = [pc EXCEPT ![c] = s] /\ snapshot' = [snapshot EXCEPT ![c] = 0]

(***************************************************************************)
(* A frame is what it changes in its reader's knowledge.  A buffer is first*)
(* in, first out, and only its client's pump reads it: it is as long as    *)
(* load says, and knows runs ahead to its last frame.  trySend drops the   *)
(* frame that does not fit; whoever fans out then tears the client down.   *)
(***************************************************************************)
NothingKnown == [news |-> {}, present |-> {}]

Connected(u)    == [in |-> {u}, out |-> {}, tells |-> {}]
Disconnected(u) == [in |-> {}, out |-> {u}, tells |-> {}]
News(versions)  == [in |-> {}, out |-> {}, tells |-> versions]

Full(c) == load[c] >= SendBuffer

Hears(k, f) == [news    |-> k.news \union f.tells,
                present |-> (k.present \ f.out) \union f.in]

\* Nobody reads the buffer of a client that is closed.
trySend(clients, f) ==
    LET takers == {c \in clients \ closed : ~Full(c)} IN
    /\ load'  = [c \in Conn |-> IF c \in takers THEN load[c] + 1 ELSE load[c]]
    /\ knows' = [c \in Conn |-> IF c \in takers THEN Hears(knows[c], f) ELSE knows[c]]

\* Mutant: a slow client loses the frame and stays.
broadcast_Patient(clients, f) ==
    trySend(clients, f) /\ UNCHANGED closed

broadcast(clients, f) ==
    /\ trySend(clients, f)
    /\ closed' = closed \union {c \in clients : Full(c)}

(***************************************************************************)
(* The limiter.                                                            *)
(***************************************************************************)
HasSlot(ip) == total < MaxConns /\ perIP[ip] < MaxConnsPerIP

Count(ip, n) ==
    total' = total + n /\ perIP' = [perIP EXCEPT ![ip] = @ + n] /\ UNCHANGED elsewhere

(***************************************************************************)
(* Connect, up to the hub.                                                 *)
(***************************************************************************)
tryAcquire(c) ==
    /\ pc[c] = "new"
    /\ \/ HasSlot(IPOf[c]) /\ Count(IPOf[c], 1) /\ Goes(c, "admitted")
       \/ ~HasSlot(IPOf[c]) /\ UNCHANGED limiter /\ Goes(c, "ended")
    /\ UNCHANGED <<version, unsent, publish, hub, members, fanouts, closed, send, missed>>

\* The id, the membership or the upgrade refuses, or the socket is open.
Upgrade(c) ==
    /\ pc[c] = "admitted"
    /\ Goes(c, "upgraded") \/ Goes(c, "left")
    /\ UNCHANGED <<version, unsent, publish, hub, members, fanouts, limiter, closed,
                   send, missed>>

(***************************************************************************)
(* The hub's loop.  One step services one message.                         *)
(***************************************************************************)
Looping == hub # "done"

\* The user's longest-lived client, and no other.
oldest(mine) == {d \in mine : before[d] \intersect mine = {}}

\* Mutant: a user may have one more.
Victims_AtCap(mine) == IF Cardinality(mine) > MaxConnsPerUser THEN oldest(mine) ELSE {}

Victims(mine) == IF Cardinality(mine) >= MaxConnsPerUser THEN oldest(mine) ELSE {}

\* Mutant: a newcomer learns nothing of who is there already.
Seeds_None(c, others) == {}

\* The users a newcomer is told of: opponent_connected fires only when a user's
\* first client comes.
Seeds(c, others) == {UserOf[d] : d \in others} \ {UserOf[c]}

handleRegister(c) ==
    /\ Looping
    /\ LET mine    == Of(UserOf[c], room)
           victims == Victims(mine)
           stay    == room \ victims
           first   == Of(UserOf[c], stay) = {}
           hearers == IF first THEN {d \in stay \ closed : ~Full(d)} ELSE {}
           own     == IF first THEN {UserOf[c]} ELSE {}
           seeds   == Seeds(c, stay)
       IN /\ room' = stay \union {c} /\ before' = [before EXCEPT ![c] = mine \ victims]
          /\ load' = [d \in Conn |-> CASE d = c         -> Cardinality(own \union seeds)
                                       [] d \in hearers -> load[d] + 1
                                       [] OTHER         -> load[d]]
          /\ knows' = [d \in Conn |->
                CASE d = c         -> [NothingKnown EXCEPT !.present = own \union seeds]
                  [] d \in hearers -> Hears(knows[d], Connected(UserOf[c]))
                  [] OTHER         -> knows[d]]
          /\ closed' = closed \union victims
                              \union (IF first THEN {d \in stay : Full(d)} ELSE {})
    /\ Goes(c, "joined")

\* The loop takes the client in, or has stopped and the socket is closed again.
registerClient(c) ==
    /\ pc[c] = "upgraded"
    /\ \/ handleRegister(c)
       \/ hub = "done" /\ Goes(c, "left") /\ UNCHANGED <<members, closed, send>>
    /\ UNCHANGED <<version, unsent, publish, hub, fanouts, limiter, missed>>

\* A client that was evicted, or closed by shutdown, is in no room any more.
handleUnregister(c) ==
    IF c \in room
    THEN /\ room' = room \ {c} /\ before' = [before EXCEPT ![c] = {}]
         /\ IF Of(UserOf[c], room) = {c}
            THEN broadcast(room \ {c}, Disconnected(UserOf[c]))
            ELSE UNCHANGED <<send, closed>>
    ELSE UNCHANGED <<room, before, send, closed>>

\* Mutant: nothing but the loop takes the message.
unregisterClient_Blocking(c) ==
    /\ pc[c] = "leaving"
    /\ Looping /\ handleUnregister(c)
    /\ Goes(c, "left")
    /\ UNCHANGED <<version, unsent, publish, hub, fanouts, limiter, missed>>

unregisterClient(c) ==
    /\ pc[c] = "leaving"
    /\ \/ Looping /\ handleUnregister(c)
       \/ hub = "done" /\ UNCHANGED <<room, before, send, closed>>
    /\ Goes(c, "left")
    /\ UNCHANGED <<version, unsent, publish, hub, fanouts, limiter, missed>>

\* A shared frame goes out at once; a state is read for each viewer, off the loop.
handlePublish ==
    /\ Looping /\ publish # <<>>
    /\ publish' = Tail(publish)
    /\ LET ev == Head(publish) IN
       \/ room = {} /\ UNCHANGED <<fanouts, send, closed>>
       \/ /\ room # {} /\ ev.kind \in SharedKinds
          /\ broadcast(room, News({ev.version}))
          /\ UNCHANGED fanouts
       \/ /\ room # {} /\ ev.kind \in ViewerKinds
          /\ fanouts' = fanouts \union {[ev |-> ev, left |-> room, viewer |-> Nobody, read |-> 0]}
          /\ UNCHANGED <<send, closed>>
    /\ UNCHANGED <<version, unsent, hub, members, stages, limiter, missed>>

\* Mutant: the sockets are left to their pumps.
shutdown_Quiet ==
    /\ hub = "cancelled"
    /\ hub' = "done"
    /\ room' = {} /\ before' = [c \in Conn |-> {}]
    /\ UNCHANGED <<version, unsent, publish, fanouts, stages, limiter, closed, send, missed>>

shutdown ==
    /\ hub = "cancelled"
    /\ hub' = "done"
    /\ closed' = closed \union room
    /\ room' = {} /\ before' = [c \in Conn |-> {}]
    /\ UNCHANGED <<version, unsent, publish, fanouts, stages, limiter, send, missed>>

(***************************************************************************)
(* fanoutPerViewer: one read for each user, then the frame to each of the  *)
(* user's clients, as the room was when the event was taken.  The reads of *)
(* two fan-outs, and the loop, run in any order.                           *)
(***************************************************************************)
FanoutReads(f) ==
    /\ f.viewer = Nobody
    /\ \E u \in {UserOf[c] : c \in f.left} :
          \/ /\ hub = "running"
             /\ fanouts' = (fanouts \ {f}) \union {[f EXCEPT !.viewer = u, !.read = version]}
             /\ UNCHANGED missed
          \/ \* not a player, an error, a time-out, or the process ends: skipped
             /\ LET rest == [f EXCEPT !.left = @ \ Of(u, @)] IN
                fanouts' = (fanouts \ {f}) \union {g \in {rest} : g.left # {}}
             /\ missed' = missed \union Of(u, f.left)
    /\ UNCHANGED <<version, unsent, publish, hub, members, stages, limiter, closed, send>>

FanoutSends(f) ==
    /\ f.viewer # Nobody
    /\ LET mine == Of(f.viewer, f.left)
           rest == [f EXCEPT !.left = @ \ mine, !.viewer = Nobody, !.read = 0]
       IN /\ broadcast(mine, News(1 .. f.read))
          /\ fanouts' = (fanouts \ {f}) \union {g \in {rest} : g.left # {}}
    /\ UNCHANGED <<version, unsent, publish, hub, members, stages, limiter, missed>>

(***************************************************************************)
(* Connect, past the hub: the snapshot, the pumps, the way out.            *)
(***************************************************************************)
\* The state is read once the client has joined, so that no transition falls between ...
SnapshotReads(c) ==
    /\ pc[c] = "joined"
    /\ \/ /\ pc' = [pc EXCEPT ![c] = "seen"]
          /\ snapshot' = [snapshot EXCEPT ![c] = version]
          /\ missed' = missed \ {c}
       \/ \* an error or a time-out, or the match is gone: there is no snapshot
          Goes(c, "live") /\ missed' = missed \union {c}
    /\ UNCHANGED <<version, unsent, publish, hub, members, fanouts, limiter, closed, send>>

\* ... and is queued behind the frames, of later states too, that came meanwhile.
SnapshotSends(c) ==
    /\ pc[c] = "seen"
    /\ trySend({c}, News(1 .. snapshot[c]))
    /\ missed' = missed \union {d \in {c} : Full(d)}
    /\ Goes(c, "live")
    /\ UNCHANGED <<version, unsent, publish, hub, members, fanouts, limiter, closed>>

writePump(c) ==
    /\ pc[c] = "live" /\ c \notin closed /\ load[c] > 0
    /\ load' = [load EXCEPT ![c] = @ - 1]
    /\ UNCHANGED <<version, unsent, publish, hub, members, fanouts, stages, limiter, closed,
                   knows, missed>>

\* A ping of the peer is answered through the write pump, or not at all.
readPump(c) ==
    /\ pc[c] = "live" /\ c \notin closed /\ ~Full(c)
    /\ trySend({c}, News({}))
    /\ UNCHANGED <<version, unsent, publish, hub, members, fanouts, stages, limiter, closed, missed>>

\* The three pumps end; what is left in the buffer is of no use to anybody.
PumpsEnd(c) ==
    /\ pc[c] = "live" /\ c \in closed
    /\ Goes(c, "leaving")
    /\ load' = [load EXCEPT ![c] = 0] /\ knows' = [knows EXCEPT ![c] = NothingKnown]
    /\ missed' = missed \ {c}
    /\ UNCHANGED <<version, unsent, publish, hub, members, fanouts, limiter, closed>>

release(c) ==
    /\ pc[c] = "left"
    /\ Count(IPOf[c], -1)
    /\ Goes(c, "ended")
    /\ closed' = closed \ {c} /\ missed' = missed \ {c}
    /\ UNCHANGED <<version, unsent, publish, hub, members, fanouts, send>>

(***************************************************************************)
(* The surroundings.                                                       *)
(***************************************************************************)
\* The peer closes, a read or a write fails, the session expires, or a peer gone
\* without a word answers no probe for the read-idle time.
SocketEnds(c) ==
    /\ pc[c] \in {"upgraded", "joined", "seen", "live"} /\ c \notin closed
    /\ closed' = closed \union {c}
    /\ UNCHANGED <<version, unsent, publish, hub, members, fanouts, stages, limiter, send, missed>>

\* A transition of the match commits ...
Commit(k) ==
    /\ version < MaxVersion
    /\ version' = version + 1
    /\ unsent' = unsent \union {[kind |-> k, version |-> version + 1]}
    /\ UNCHANGED <<publish, hub, members, fanouts, stages, limiter, closed, send, missed>>

\* ... and its goroutine tells the hub, which never blocks it: the channel may
\* be full of the events of other matches.
enqueue(ev) ==
    /\ unsent' = unsent \ {ev}
    /\ \/ hub # "done" /\ publish' = Append(publish, ev) /\ UNCHANGED missed
       \/ hub = "done" /\ UNCHANGED <<publish, missed>>
       \/ hub # "done" /\ missed' = missed \union room /\ UNCHANGED publish
    /\ UNCHANGED <<version, hub, members, fanouts, stages, limiter, closed, send>>

Cancel ==
    /\ hub = "running"
    /\ hub' = "cancelled"
    /\ UNCHANGED <<version, unsent, publish, members, fanouts, stages, limiter, closed,
                   send, missed>>

Init ==
    /\ version = 0 /\ unsent = {} /\ publish = <<>> /\ hub = "running"
    /\ room = {} /\ before = [c \in Conn |-> {}] /\ fanouts = {}
    /\ pc = [c \in Conn |-> "new"] /\ snapshot = [c \in Conn |-> 0]
    /\ elsewhere \in Elsewhere /\ perIP = elsewhere
    /\ total = FoldFunction(+, 0, elsewhere)
    /\ closed = {} /\ missed = {}
    /\ load = [c \in Conn |-> 0]
    /\ knows = [c \in Conn |-> NothingKnown]

Connect(c) ==
    \/ Upgrade(c) \/ registerClient(c) \/ SnapshotReads(c) \/ SnapshotSends(c)
    \/ PumpsEnd(c) \/ unregisterClient(c) \/ release(c)

Next ==
    \/ \E c \in Conn : \/ tryAcquire(c) \/ Connect(c)
                       \/ writePump(c) \/ readPump(c) \/ SocketEnds(c)
    \/ handlePublish \/ shutdown \/ Cancel
    \/ \E f \in fanouts : FanoutReads(f) \/ FanoutSends(f)
    \/ \E k \in Kinds : Commit(k)
    \/ \E ev \in unsent : enqueue(ev)

(***************************************************************************)
(* A handler that can go on does, the hub's loop serves whoever waits (a   *)
(* select is fair between its cases), and a cancelled hub shuts down.      *)
(***************************************************************************)
Fairness ==
    /\ \A c \in Conn : WF_vars(Connect(c))
    /\ WF_vars(shutdown)

Spec == Init /\ [][Next]_vars /\ Fairness
=============================================================================
