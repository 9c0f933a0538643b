------------------------- MODULE RealtimeProperties -------------------------
(***************************************************************************)
(* What the live room promises to its sockets.                             *)
(***************************************************************************)
EXTENDS Realtime

Holds(c) == pc[c] \notin {"new", "ended"}

\* The limiter counts the calls under way, no more than its caps allow; the room
\* holds no more of a user than the cap, and nobody whose
\* handler is past unregistering, so nothing leaks and nothing is freed twice;
\* and no buffer is overrun.
Bounded ==
    /\ \A ip \in IPs :
          /\ perIP[ip] = elsewhere[ip] + Cardinality({c \in Conn : IPOf[c] = ip /\ Holds(c)})
          /\ perIP[ip] <= MaxConnsPerIP
    /\ total = FoldFunction(+, 0, perIP)
    /\ total <= MaxConns
    /\ \A c \in Conn : load[c] \in 0 .. SendBuffer
    /\ \A u \in Player : Cardinality(Of(u, room)) <= MaxConnsPerUser
    /\ \A c \in room : pc[c] \in {"joined", "seen", "live", "leaving"}

\* Presence is exact: a client that is not torn down knows, once its buffer is
\* drained, which other users have a client in the room (its own it ignores); however tabs come and go, are
\* evicted, or are closed for being slow.
PresenceExact ==
    \A c \in room \ closed :
        knows[c].present \ {UserOf[c]} = {UserOf[d] : d \in room} \ {UserOf[c]}

\* The event of transition v still has to reach client c.
UnderWay(v, c) ==
    \/ \E ev \in unsent \union ToSet(publish) : ev.version = v
    \/ \E f \in fanouts : f.ev.version = v /\ c \in f.left

\* No transition falls between a snapshot and the frames after it, whatever commits and
\* is fanned out between the snapshot's read and its sending: a client that is not torn
\* down was told of every transition committed, or the frame is on its way, unless its
\* snapshot failed, or an event was dropped or a read failed since.
NothingSkipped ==
    \A c \in room \ (closed \union missed) : pc[c] = "live" =>
        \A v \in 1 .. version : v \in knows[c].news \/ UnderWay(v, c)

\* A hub that has stopped leaves no socket open that it had taken in.
StoppedMeansClosed ==
    hub = "done" => \A c \in Conn : pc[c] \in {"joined", "seen", "live"} => c \in closed

\* Whatever a socket dies of (closed, evicted, slow, silent, shutdown), its
\* handler is never stuck: it has a step to take until its slot is free again,
\* with the hub running, stopping or gone.
NeverStuck ==
    \A c \in Conn : (c \in closed \/ (hub = "done" /\ pc[c] # "new")) /\ pc[c] # "ended"
                        => ENABLED Connect(c)
=============================================================================
