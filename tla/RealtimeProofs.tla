--------------------------- MODULE RealtimeProofs ---------------------------
(***************************************************************************)
(* Proofs about Realtime, for any number of sockets, users, addresses and  *)
(* transitions and any size of the buffers: presence is exact, no          *)
(* transition is skipped in silence, a stopped hub leaves no socket, and   *)
(* the counters, buffers and rooms keep to their bounds.                   *)
(***************************************************************************)
EXTENDS RealtimeProperties, EloProofs

Event  == [kind : SharedKinds \union ViewerKinds, version : Nat]
Knowledge == [news : SUBSET Nat, present : SUBSET Player]
Frame  == [in : SUBSET Player, out : SUBSET Player, tells : SUBSET Nat]
Fanout == [ev : Event, left : SUBSET Conn, viewer : Player \union {Nobody}, read : Nat]

Typed ==
    /\ version \in Nat
    /\ unsent \subseteq Event /\ publish \in Seq(Event)
    /\ room \subseteq Conn /\ fanouts \subseteq Fanout
    /\ pc \in [Conn -> Stage] /\ snapshot \in [Conn -> Nat]
    /\ knows \in [Conn -> Knowledge]

(***************************************************************************)
(* Seats: a client of the room is one whose handler has not unregistered,  *)
(* and a handler that runs on has its client in the room or closed.        *)
(***************************************************************************)
SeatsFit == \A c \in room : pc[c] \in {"joined", "seen", "live", "leaving"}

Sheltered ==
    /\ \A c \in Conn : pc[c] \in {"joined", "seen", "live"} => c \in room \union closed
    /\ hub = "done" => room = {}

(***************************************************************************)
(* Events: none is of a transition to come, and a fan-out that has read    *)
(* has read the state its event announced, or a later one.                 *)
(***************************************************************************)
EventsFit ==
    /\ \A ev \in unsent \union ToSet(publish) : ev.version <= version
    /\ \A f \in fanouts : /\ f.ev.version <= version
                          /\ f.viewer # Nobody => f.ev.version <= f.read

(***************************************************************************)
(* News: what a client knows, and what it will know when the snapshot it   *)
(* has read is sent.  While it is under way the frames that pass it count  *)
(* as well: that is what makes the gap between its read and its sending    *)
(* harmless, and what NothingSkipped leaves out.                           *)
(***************************************************************************)
Told(v, c) == v \in knows[c].news \/ (pc[c] = "seen" /\ v <= snapshot[c])

NoneLost ==
    \A c \in room \ (closed \union missed) : pc[c] \in {"seen", "live"} =>
        \A v \in 1 .. version : Told(v, c) \/ UnderWay(v, c)

RoomInv == Typed /\ SeatsFit /\ Sheltered /\ EventsFit /\ PresenceExact /\ NoneLost

-----------------------------------------------------------------------------
(***************************************************************************)
(* Sequences of events.                                                    *)
(***************************************************************************)
LEMMA AppendedEvents ==
    ASSUME NEW s \in Seq(Event), NEW ev \in Event
    PROVE  Append(s, ev) \in Seq(Event) /\ ToSet(Append(s, ev)) = ToSet(s) \union {ev}
<1>1. Append(s, ev) \in Seq(Event) /\ Len(Append(s, ev)) = Len(s) + 1
  OBVIOUS
<1>2. \A i \in 1 .. Len(s) : Append(s, ev)[i] = s[i]
  OBVIOUS
<1>3. Append(s, ev)[Len(s) + 1] = ev
  OBVIOUS
<1>4. DOMAIN s = 1 .. Len(s) /\ DOMAIN Append(s, ev) = 1 .. Len(s) + 1 /\ Len(s) \in Nat
  BY <1>1
<1>5. ToSet(Append(s, ev)) = {Append(s, ev)[i] : i \in 1 .. Len(s) + 1}
  BY <1>4 DEF ToSet
<1>6. ToSet(s) = {s[i] : i \in 1 .. Len(s)}
  BY <1>4 DEF ToSet
<1>7. \A i \in 1 .. Len(s) + 1 : i = Len(s) + 1 \/ i \in 1 .. Len(s)
  BY <1>4
<1>8. 1 .. Len(s) \subseteq 1 .. Len(s) + 1 /\ Len(s) + 1 \in 1 .. Len(s) + 1
  BY <1>4
<1> QED
  BY <1>1, <1>2, <1>3, <1>5, <1>6, <1>7, <1>8

LEMMA FirstEvent ==
    ASSUME NEW s \in Seq(Event), s # <<>>
    PROVE  /\ Head(s) \in Event /\ Tail(s) \in Seq(Event)
           /\ ToSet(s) = {Head(s)} \union ToSet(Tail(s))
<1>1. Tail(s) \in Seq(Event) /\ Len(Tail(s)) = Len(s) - 1 /\ Len(s) \in Nat \ {0}
  OBVIOUS
<1>2. Head(s) = s[1] /\ Head(s) \in Event
  BY <1>1
<1>3. \A i \in 1 .. Len(s) - 1 : Tail(s)[i] = s[i + 1]
  OBVIOUS
<1>12. DOMAIN Tail(s) = 1 .. Len(s) - 1
  BY <1>1
<1>4. ToSet(Tail(s)) = {Tail(s)[i] : i \in 1 .. Len(s) - 1}
  BY <1>12 DEF ToSet
<1>5. ToSet(s) = {s[i] : i \in 1 .. Len(s)}
  BY <1>1 DEF ToSet
<1>6. \A i \in 1 .. Len(s) : i = 1 \/ i - 1 \in 1 .. Len(s) - 1
  BY <1>1
<1>7. \A i \in 1 .. Len(s) - 1 : i + 1 \in 1 .. Len(s)
  BY <1>1
<1>8. ToSet(Tail(s)) \subseteq ToSet(s)
  BY <1>3, <1>4, <1>5, <1>7
<1>9. ASSUME NEW i \in 1 .. Len(s)
      PROVE  s[i] \in {Head(s)} \union ToSet(Tail(s))
  <2>1. CASE i = 1
    BY <2>1, <1>2
  <2>2. CASE i - 1 \in 1 .. Len(s) - 1
    <3>1. Tail(s)[i - 1] = s[(i - 1) + 1]
      BY <2>2, <1>3
    <3>2. (i - 1) + 1 = i
      BY <1>9
    <3> QED
      BY <2>2, <3>1, <3>2, <1>4
  <2> QED
    BY <2>1, <2>2, <1>6
<1>10. 1 \in 1 .. Len(s)
  BY <1>1
<1>11. s[1] \in ToSet(s)
  BY <1>5, <1>10
<1> QED
  BY <1>1, <1>2, <1>5, <1>8, <1>9, <1>11

LEMMA SeqElements ==
    ASSUME NEW s \in Seq(Event)
    PROVE  ToSet(s) \subseteq Event
BY DEF ToSet

(***************************************************************************)
(* Frames.                                                                 *)
(***************************************************************************)

LEMMA Hearing ==
    ASSUME NEW k \in Knowledge, NEW f \in Frame
    PROVE  /\ Hears(k, f) \in Knowledge
           /\ Hears(k, f).news = k.news \union f.tells
           /\ Hears(k, f).present = (k.present \ f.out) \union f.in
BY DEF Hears, Knowledge, Frame

LEMMA Frames ==
    /\ \A u \in Player : Connected(u) \in Frame /\ Disconnected(u) \in Frame
    /\ \A versions \in SUBSET Nat : News(versions) \in Frame
BY DEF Connected, Disconnected, News, Frame

\* Only the clients with room in their buffers learn what a frame says.
LEMMA Sent ==
    ASSUME knows \in [Conn -> Knowledge], NEW clients, NEW f \in Frame, trySend(clients, f)
    PROVE  /\ knows' \in [Conn -> Knowledge]
           /\ \A d \in Conn : knows'[d] = IF d \in clients \ closed /\ ~Full(d)
                                          THEN Hears(knows[d], f) ELSE knows[d]
<1>1. \A d \in Conn : knows[d] \in Knowledge /\ Hears(knows[d], f) \in Knowledge
  BY Hearing
<1> QED
  BY <1>1 DEF trySend

LEMMA Broadcast ==
    ASSUME knows \in [Conn -> Knowledge], NEW clients, NEW f \in Frame, broadcast(clients, f)
    PROVE  /\ knows' \in [Conn -> Knowledge]
           /\ closed \subseteq closed'
           /\ \A d \in Conn : \/ d \notin clients /\ knows'[d] = knows[d]
                              \/ d \in clients /\ d \in closed' /\ knows'[d] = knows[d]
                              \/ d \in clients /\ knows'[d] = Hears(knows[d], f)
<1>1. trySend(clients, f) /\ closed' = closed \union {c \in clients : Full(c)}
  BY DEF broadcast
<1>2. /\ knows' \in [Conn -> Knowledge]
      /\ \A d \in Conn : knows'[d] = IF d \in clients \ closed /\ ~Full(d)
                                     THEN Hears(knows[d], f) ELSE knows[d]
  BY <1>1, Sent
<1> QED
  BY <1>1, <1>2

\* A frame of news changes nothing else, and whoever is not closed has it.
LEMMA NewsBroadcast ==
    ASSUME knows \in [Conn -> Knowledge], NEW clients, NEW versions \in SUBSET Nat,
           broadcast(clients, News(versions))
    PROVE  /\ knows' \in [Conn -> Knowledge]
           /\ closed \subseteq closed'
           /\ \A d \in Conn : /\ knows'[d].present = knows[d].present
                              /\ knows[d].news \subseteq knows'[d].news
                              /\ d \in clients \ closed' => versions \subseteq knows'[d].news
<1>1. News(versions) \in Frame /\ News(versions).tells = versions
      /\ News(versions).in = {} /\ News(versions).out = {}
  BY Frames DEF News
<1>2. ASSUME NEW d \in Conn
      PROVE  /\ Hears(knows[d], News(versions)).news = knows[d].news \union versions
             /\ Hears(knows[d], News(versions)).present = knows[d].present
  <2>1. knows[d] \in Knowledge
    OBVIOUS
  <2>2. Hears(knows[d], News(versions)).present = (knows[d].present \ {}) \union {}
    BY <1>1, <2>1, Hearing
  <2> QED
    BY <1>1, <2>1, <2>2, Hearing
<1> QED
  BY <1>1, <1>2, Broadcast

LEMMA NewsSent ==
    ASSUME knows \in [Conn -> Knowledge], NEW clients, NEW versions \in SUBSET Nat,
           trySend(clients, News(versions))
    PROVE  /\ knows' \in [Conn -> Knowledge]
           /\ \A d \in Conn : /\ knows'[d].present = knows[d].present
                              /\ knows[d].news \subseteq knows'[d].news
                              /\ d \in clients \ closed /\ ~Full(d)
                                     => versions \subseteq knows'[d].news
<1>1. News(versions) \in Frame /\ News(versions).tells = versions
      /\ News(versions).in = {} /\ News(versions).out = {}
  BY Frames DEF News
<1>2. ASSUME NEW d \in Conn
      PROVE  /\ Hears(knows[d], News(versions)).news = knows[d].news \union versions
             /\ Hears(knows[d], News(versions)).present = knows[d].present
  <2>1. knows[d] \in Knowledge
    OBVIOUS
  <2>2. Hears(knows[d], News(versions)).present = (knows[d].present \ {}) \union {}
    BY <1>1, <2>1, Hearing
  <2> QED
    BY <1>1, <2>1, <2>2, Hearing
<1> QED
  BY <1>1, <1>2, Sent

-----------------------------------------------------------------------------
(***************************************************************************)
(* A newcomer joins.  The victims are its own user's clients, and if none  *)
(* of them stays, every client that is not torn down is told of the user.  *)
(***************************************************************************)
LEMMA Joins ==
    ASSUME Typed, NEW c \in Conn, c \notin room, handleRegister(c)
    PROVE  /\ knows' \in [Conn -> Knowledge]
           /\ closed \subseteq closed'
           /\ room' \subseteq room \union {c} /\ c \in room'
           /\ room \ room' \subseteq closed' /\ room \ room' \subseteq Of(UserOf[c], room)
           /\ knows'[c].present \union {UserOf[c]} = {UserOf[d] : d \in room'}
           /\ \A d \in Conn \ {c} :
                 /\ knows'[d].news = knows[d].news
                 /\ d \in room' \ closed' =>
                       knows'[d].present = IF UserOf[c] \in {UserOf[e] : e \in room' \ {c}}
                                           THEN knows[d].present
                                           ELSE knows[d].present \union {UserOf[c]}
<1> DEFINE mine    == Of(UserOf[c], room)
           victims == Victims(mine)
           stay    == room \ victims
           first   == Of(UserOf[c], stay) = {}
           hearers == IF first THEN {d \in stay \ closed : ~Full(d)} ELSE {}
           own     == IF first THEN {UserOf[c]} ELSE {}
           seeds   == Seeds(c, stay)
<1>1. /\ room' = stay \union {c}
      /\ knows' = [d \in Conn |->
                CASE d = c         -> [NothingKnown EXCEPT !.present = own \union seeds]
                  [] d \in hearers -> Hears(knows[d], Connected(UserOf[c]))
                  [] OTHER         -> knows[d]]
      /\ closed' = closed \union victims
                              \union (IF first THEN {d \in stay : Full(d)} ELSE {})
  BY DEF handleRegister
<1>2. victims \subseteq mine /\ mine \subseteq room /\ room \subseteq Conn
  BY DEF Victims, oldest, Of, Typed
<1>3. /\ UserOf[c] \in Player /\ \A d \in room : UserOf[d] \in Player
  BY <1>2, RealtimeAssumption
<1>4. knows \in [Conn -> Knowledge]
  BY DEF Typed, Knowledge
<1>5. Connected(UserOf[c]) \in Frame /\ Connected(UserOf[c]).tells = {}
      /\ Connected(UserOf[c]).in = {UserOf[c]} /\ Connected(UserOf[c]).out = {}
  BY <1>3, Frames DEF Connected
<1>6. ASSUME NEW d \in Conn
      PROVE  /\ Hears(knows[d], Connected(UserOf[c])) \in Knowledge
             /\ Hears(knows[d], Connected(UserOf[c])).news = knows[d].news
             /\ Hears(knows[d], Connected(UserOf[c])).present
                       = knows[d].present \union {UserOf[c]}
  <2>1. knows[d] \in Knowledge
    BY <1>4
  <2>2. /\ Hears(knows[d], Connected(UserOf[c])).present
              = (knows[d].present \ {}) \union {UserOf[c]}
        /\ Hears(knows[d], Connected(UserOf[c])).news = knows[d].news \union {}
        /\ Hears(knows[d], Connected(UserOf[c])) \in Knowledge
    BY <1>5, <2>1, Hearing
  <2> QED
    BY <2>2
<1>7. [NothingKnown EXCEPT !.present = own \union seeds]
          = [news |-> {}, present |-> own \union seeds]
  BY DEF NothingKnown
<1>8. own \union seeds \in SUBSET Player
  BY <1>2, <1>3 DEF Seeds
<1>9. [news |-> {}, present |-> own \union seeds] \in Knowledge
  BY <1>8 DEF Knowledge
<1>10. /\ knows'[c] = [news |-> {}, present |-> own \union seeds]
       /\ \A d \in Conn \ {c} : knows'[d] = IF d \in hearers
                                            THEN Hears(knows[d], Connected(UserOf[c]))
                                            ELSE knows[d]
  <2> HIDE DEF hearers, own, seeds
  <2> DEFINE start == [news |-> {}, present |-> own \union seeds]
  <2>1. knows' = [d \in Conn |->
                CASE d = c         -> start
                  [] d \in hearers -> Hears(knows[d], Connected(UserOf[c]))
                  [] OTHER         -> knows[d]]
    BY <1>1, <1>7
  <2> HIDE DEF start
  <2>4. \A d \in Conn : knows'[d] = CASE d = c         -> start
                  [] d \in hearers -> Hears(knows[d], Connected(UserOf[c]))
                  [] OTHER         -> knows[d]
    BY <2>1
  <2>5. c \notin hearers
    BY <1>1, <1>2 DEF hearers
  <2>2. knows'[c] = start
    BY <2>4, <2>5
  <2>3. \A d \in Conn \ {c} : knows'[d] = IF d \in hearers
                                         THEN Hears(knows[d], Connected(UserOf[c]))
                                         ELSE knows[d]
    BY <2>1
  <2> QED
    BY <2>2, <2>3 DEF start
<1>11. knows' \in [Conn -> Knowledge]
  <2> HIDE DEF hearers, own, seeds
  <2> QED
    BY <1>1, <1>4, <1>6, <1>7, <1>9
<1>12. {UserOf[d] : d \in room'} = {UserOf[d] : d \in stay} \union {UserOf[c]}
  BY <1>1
<1>13. seeds = {UserOf[d] : d \in stay} \ {UserOf[c]}
  BY DEF Seeds
<1>14. knows'[c].present \union {UserOf[c]} = {UserOf[d] : d \in room'}
  BY <1>10, <1>12, <1>13
<1>15. room' \ {c} = stay
  BY <1>1
<1>16. first <=> UserOf[c] \notin {UserOf[e] : e \in stay}
  <2> HIDE DEF stay
  <2> QED
    BY DEF Of
<1>17. ASSUME NEW d \in Conn \ {c}
       PROVE  /\ knows'[d].news = knows[d].news
              /\ d \in room' \ closed' =>
                       knows'[d].present = IF UserOf[c] \in {UserOf[e] : e \in room' \ {c}}
                                           THEN knows[d].present
                                           ELSE knows[d].present \union {UserOf[c]}
  BY <1>1, <1>6, <1>10, <1>15, <1>16
<1>18. room \ room' \subseteq victims /\ victims \subseteq closed' /\ closed \subseteq closed'
  BY <1>1
<1> QED
  BY <1>1, <1>2, <1>11, <1>14, <1>17, <1>18

-----------------------------------------------------------------------------
(***************************************************************************)
(* A quiet step moves no event and no seat, and takes nothing from what a  *)
(* client that stays knows: most steps are.                                *)
(***************************************************************************)
LEMMA Quiet ==
    ASSUME RoomInv,
           UNCHANGED <<version, unsent, publish, room, fanouts>>,
           pc' \in [Conn -> Stage], snapshot' \in [Conn -> Nat],
           knows' \in [Conn -> Knowledge],
           \A d \in room : pc'[d] \in {"joined", "seen", "live", "leaving"},
           \A d \in Conn : pc'[d] \in {"joined", "seen", "live"} =>
                              /\ pc'[d] = pc[d] /\ snapshot'[d] = snapshot[d]
                              /\ d \in closed => d \in closed',
           \A d \in room \ closed' : /\ d \notin closed
                                     /\ knows'[d].present = knows[d].present
                                     /\ knows[d].news \subseteq knows'[d].news,
           \A d \in room \ (closed' \union missed') : d \notin missed,
           hub' = "done" => hub = "done"
    PROVE  RoomInv'
<1> USE DEF RoomInv
<1>1. Typed'
  BY DEF Typed
<1>2. SeatsFit' /\ Sheltered'
  BY DEF SeatsFit, Sheltered
<1>3. EventsFit'
  BY DEF EventsFit
<1>4. PresenceExact'
  BY DEF PresenceExact
<1>5. NoneLost'
  <2> SUFFICES ASSUME NEW c \in room \ (closed' \union missed'), pc'[c] \in {"seen", "live"},
                      NEW v \in 1 .. version
               PROVE  Told(v, c)' \/ UnderWay(v, c)
    BY DEF NoneLost, UnderWay
  <2>1. c \in room \ (closed \union missed) /\ c \in Conn
    BY DEF Typed
  <2>2. pc'[c] = pc[c] /\ snapshot'[c] = snapshot[c] /\ knows[c].news \subseteq knows'[c].news
    BY <2>1
  <2>3. Told(v, c) \/ UnderWay(v, c)
    BY <2>1, <2>2 DEF NoneLost
  <2> QED
    BY <2>2, <2>3 DEF Told
<1> QED
  BY <1>1, <1>2, <1>3, <1>4, <1>5

LEMMA Going ==
    ASSUME Typed, NEW c \in Conn, NEW to \in Stage, Goes(c, to)
    PROVE  /\ pc' \in [Conn -> Stage] /\ pc'[c] = to /\ snapshot' \in [Conn -> Nat]
           /\ \A d \in Conn \ {c} : pc'[d] = pc[d] /\ snapshot'[d] = snapshot[d]
BY DEF Typed, Goes

LEMMA QuietSteps ==
    ASSUME RoomInv, NEW c \in Conn,
           \/ tryAcquire(c) \/ Upgrade(c) \/ writePump(c) \/ readPump(c)
           \/ PumpsEnd(c) \/ release(c) \/ SocketEnds(c)
    PROVE  RoomInv'
<1> USE DEF RoomInv, Typed, SeatsFit, members, send, stages, limiter, Goes
<1>1. CASE tryAcquire(c)
  <2>1. "admitted" \in Stage /\ "ended" \in Stage
    BY DEF Stage
  <2>2. PICK to \in {"admitted", "ended"} : Goes(c, to)
    BY <1>1 DEF tryAcquire
  <2>3. /\ pc' \in [Conn -> Stage] /\ pc'[c] = to /\ snapshot' \in [Conn -> Nat]
        /\ \A d \in Conn \ {c} : pc'[d] = pc[d] /\ snapshot'[d] = snapshot[d]
    BY <2>1, <2>2, Going
  <2> QED
    BY <1>1, <2>3, Quiet DEF tryAcquire
<1>2. CASE Upgrade(c)
  <2>1. /\ pc' \in [Conn -> Stage] /\ pc'[c] \in {"upgraded", "left"} /\ pc[c] = "admitted"
        /\ \A d \in Conn \ {c} : pc'[d] = pc[d] /\ snapshot'[d] = snapshot[d]
        /\ snapshot' \in [Conn -> Nat]
    BY <1>2 DEF Upgrade, Stage
  <2> QED
    BY <1>2, <2>1, Quiet DEF Upgrade
<1>3. CASE writePump(c)
  BY <1>3, Quiet DEF writePump
<1>4. CASE readPump(c)
  <2>1. trySend({c}, News({}))
    BY <1>4 DEF readPump
  <2>2. /\ knows' \in [Conn -> Knowledge]
        /\ \A d \in Conn : /\ knows'[d].present = knows[d].present
                           /\ knows[d].news \subseteq knows'[d].news
    BY <2>1, NewsSent
  <2> QED
    BY <1>4, <2>2, Quiet DEF readPump
<1>5. CASE PumpsEnd(c)
  <2>1. knows' \in [Conn -> Knowledge]
    BY <1>5 DEF PumpsEnd, NothingKnown, Knowledge
  <2> QED
    BY <1>5, <2>1, Quiet DEF PumpsEnd, Stage
<1>6. CASE release(c)
  BY <1>6, Quiet DEF release, Stage
<1>7. CASE SocketEnds(c)
  BY <1>7, Quiet DEF SocketEnds
<1> QED
  BY <1>1, <1>2, <1>3, <1>4, <1>5, <1>6, <1>7

LEMMA RegisterStep ==
    ASSUME RoomInv, NEW c \in Conn, registerClient(c), handleRegister(c)
    PROVE  RoomInv'
<1> USE DEF RoomInv
<1>1. /\ pc[c] = "upgraded" /\ hub # "done" /\ pc' = [pc EXCEPT ![c] = "joined"]
      /\ snapshot' = [snapshot EXCEPT ![c] = 0]
      /\ UNCHANGED <<version, unsent, publish, hub, fanouts, missed>>
  BY DEF handleRegister, registerClient, Looping, Goes
<1>2. c \notin room
  BY <1>1 DEF SeatsFit
<1>3. /\ knows' \in [Conn -> Knowledge]
      /\ closed \subseteq closed'
      /\ room' \subseteq room \union {c} /\ c \in room'
      /\ room \ room' \subseteq closed' /\ room \ room' \subseteq Of(UserOf[c], room)
      /\ knows'[c].present \union {UserOf[c]} = {UserOf[d] : d \in room'}
  BY <1>2, Joins
<1>4. \A d \in Conn \ {c} :
                 /\ knows'[d].news = knows[d].news
                 /\ d \in room' \ closed' =>
                       knows'[d].present = IF UserOf[c] \in {UserOf[e] : e \in room' \ {c}}
                                           THEN knows[d].present
                                           ELSE knows[d].present \union {UserOf[c]}
  BY <1>2, Joins
<1>5. /\ pc' \in [Conn -> Stage] /\ pc'[c] = "joined" /\ \A d \in Conn \ {c} : pc'[d] = pc[d]
      /\ snapshot' \in [Conn -> Nat] /\ \A d \in Conn \ {c} : snapshot'[d] = snapshot[d]
  BY <1>1 DEF Typed, Stage
<1>6. Typed'
  BY <1>1, <1>3, <1>5 DEF Typed
<1>7. SeatsFit'
  BY <1>3, <1>5 DEF SeatsFit, Typed
<1>8. Sheltered'
  BY <1>1, <1>3, <1>5 DEF Sheltered, Typed
<1>9. EventsFit'
  BY <1>1 DEF EventsFit
<1>10. ASSUME NEW d \in room' \ closed', d # c
       PROVE  knows'[d].present \ {UserOf[d]} = {UserOf[e] : e \in room'} \ {UserOf[d]}
  <2>1. d \in room \ closed /\ d \in Conn
    BY <1>3, <1>10 DEF Typed
  <2>2. knows[d].present \ {UserOf[d]} = {UserOf[e] : e \in room} \ {UserOf[d]}
    BY <2>1 DEF PresenceExact
  <2>3. {UserOf[e] : e \in room'} = {UserOf[e] : e \in room' \ {c}} \union {UserOf[c]}
    BY <1>3
  <2>4. {UserOf[e] : e \in room} \ {UserOf[c]} = {UserOf[e] : e \in room' \ {c}} \ {UserOf[c]}
    <3>1. \A e \in room \ room' : UserOf[e] = UserOf[c]
      BY <1>3 DEF Of
    <3>2. room' \ {c} \subseteq room
      BY <1>3
    <3> QED
      BY <1>2, <3>1, <3>2
  <2>5. UserOf[c] \in {UserOf[e] : e \in room' \ {c}} => UserOf[c] \in {UserOf[e] : e \in room}
    BY <1>3
  <2>6. CASE UserOf[c] \in {UserOf[e] : e \in room' \ {c}}
    <3>1. knows'[d].present = knows[d].present
      BY <1>4, <1>10, <2>1, <2>6
    <3>2. {UserOf[e] : e \in room'} = {UserOf[e] : e \in room}
      BY <2>3, <2>4, <2>5, <2>6
    <3> QED
      BY <2>2, <3>1, <3>2
  <2>7. CASE UserOf[c] \notin {UserOf[e] : e \in room' \ {c}}
    <3>1. knows'[d].present = knows[d].present \union {UserOf[c]}
      BY <1>4, <1>10, <2>1, <2>7
    <3>2. UserOf[d] # UserOf[c]
      BY <1>10, <2>7
    <3> QED
      BY <2>2, <2>3, <2>4, <3>1, <3>2
  <2> QED
    BY <2>6, <2>7
<1>11. PresenceExact'
  <2>1. knows'[c].present \ {UserOf[c]} = {UserOf[e] : e \in room'} \ {UserOf[c]}
    BY <1>3
  <2> QED
    BY <1>10, <2>1 DEF PresenceExact
<1>12. NoneLost'
  <2> SUFFICES ASSUME NEW d \in room' \ (closed' \union missed'), pc'[d] \in {"seen", "live"},
                      NEW v \in 1 .. version
               PROVE  Told(v, d)' \/ UnderWay(v, d)
    BY <1>1 DEF NoneLost, UnderWay
  <2>1. d \in room \ (closed \union missed) /\ d \in Conn /\ d # c /\ pc'[d] = pc[d]
    BY <1>1, <1>3, <1>5 DEF Typed
  <2>2. knows'[d].news = knows[d].news /\ snapshot'[d] = snapshot[d]
    BY <1>4, <1>5, <2>1
  <2>3. Told(v, d) \/ UnderWay(v, d)
    BY <2>1 DEF NoneLost
  <2> QED
    BY <2>1, <2>2, <2>3 DEF Told
<1> QED
  BY <1>6, <1>7, <1>8, <1>9, <1>11, <1>12

\* A stopped hub takes nobody in.
LEMMA TurnedAwayStep ==
    ASSUME RoomInv, NEW c \in Conn, registerClient(c), ~handleRegister(c)
    PROVE  RoomInv'
<1>1. /\ pc[c] = "upgraded" /\ Goes(c, "left")
      /\ UNCHANGED <<version, unsent, publish, hub, members, fanouts, closed, send, missed>>
  BY DEF registerClient
<1> QED
  BY <1>1, Quiet DEF RoomInv, Typed, SeatsFit, members, send, Goes, Stage

LEMMA LeaveStep ==
    ASSUME RoomInv, NEW c \in Conn, unregisterClient(c)
    PROVE  RoomInv'
<1> USE DEF RoomInv
<1>1. /\ pc[c] = "leaving" /\ pc' = [pc EXCEPT ![c] = "left"]
      /\ snapshot' = [snapshot EXCEPT ![c] = 0]
      /\ UNCHANGED <<version, unsent, publish, hub, fanouts, missed>>
  BY DEF unregisterClient, Goes
<1>2. /\ pc' \in [Conn -> Stage] /\ pc'[c] = "left" /\ \A d \in Conn \ {c} : pc'[d] = pc[d]
      /\ snapshot' \in [Conn -> Nat] /\ \A d \in Conn \ {c} : snapshot'[d] = snapshot[d]
  BY <1>1 DEF Typed, Stage
<1>3. CASE UNCHANGED <<room, before, send, closed>> /\ c \notin room
  BY <1>1, <1>2, <1>3, Quiet DEF Typed, SeatsFit, send
<1>4. CASE c \in room /\ hub # "done" /\ handleUnregister(c)
  <2>1. room' = room \ {c}
    BY <1>4 DEF handleUnregister
  <2>2. /\ knows' \in [Conn -> Knowledge] /\ closed \subseteq closed'
        /\ \A d \in Conn : knows'[d].news = knows[d].news
        /\ \A d \in room' \ closed' :
              knows'[d].present = IF Of(UserOf[c], room) = {c}
                                  THEN knows[d].present \ {UserOf[c]}
                                  ELSE knows[d].present
    <3>1. CASE Of(UserOf[c], room) = {c}
      <4>1. broadcast(room \ {c}, Disconnected(UserOf[c]))
        BY <1>4, <3>1 DEF handleUnregister
      <4>2. /\ Disconnected(UserOf[c]) \in Frame /\ Disconnected(UserOf[c]).tells = {}
            /\ Disconnected(UserOf[c]).in = {} /\ Disconnected(UserOf[c]).out = {UserOf[c]}
        BY Frames, RealtimeAssumption DEF Disconnected
      <4>3. ASSUME NEW d \in Conn
            PROVE  /\ Hears(knows[d], Disconnected(UserOf[c])).news = knows[d].news
                   /\ Hears(knows[d], Disconnected(UserOf[c])).present
                             = knows[d].present \ {UserOf[c]}
        <5>1. knows[d] \in Knowledge
          BY DEF Typed
        <5>2. /\ Hears(knows[d], Disconnected(UserOf[c])).present
                      = (knows[d].present \ {UserOf[c]}) \union {}
              /\ Hears(knows[d], Disconnected(UserOf[c])).news = knows[d].news \union {}
          BY <4>2, <5>1, Hearing
        <5> QED
          BY <5>2
      <4>4. /\ knows' \in [Conn -> Knowledge] /\ closed \subseteq closed'
            /\ \A d \in Conn : \/ d \notin room \ {c} /\ knows'[d] = knows[d]
                               \/ d \in room \ {c} /\ d \in closed' /\ knows'[d] = knows[d]
                               \/ d \in room \ {c}
                                  /\ knows'[d] = Hears(knows[d], Disconnected(UserOf[c]))
        BY <4>1, <4>2, Broadcast DEF Typed
      <4>5. room' \subseteq Conn
        BY <2>1 DEF Typed
      <4> QED
        BY <2>1, <3>1, <4>3, <4>4, <4>5
    <3>2. CASE Of(UserOf[c], room) # {c}
      BY <1>4, <3>2 DEF handleUnregister, send, Typed
    <3> QED
      BY <3>1, <3>2
  <2>3. Typed' /\ SeatsFit' /\ Sheltered' /\ EventsFit'
    BY <1>1, <1>2, <1>4, <2>1, <2>2 DEF Typed, SeatsFit, Sheltered, EventsFit
  <2>4. PresenceExact'
    <3> SUFFICES ASSUME NEW d \in room' \ closed'
                 PROVE  knows'[d].present \ {UserOf[d]}
                            = {UserOf[e] : e \in room'} \ {UserOf[d]}
      BY DEF PresenceExact
    <3>1. knows[d].present \ {UserOf[d]} = {UserOf[e] : e \in room} \ {UserOf[d]}
      BY <2>1, <2>2 DEF PresenceExact
    <3>2. CASE Of(UserOf[c], room) = {c}
      <4>1. {UserOf[e] : e \in room'} = {UserOf[e] : e \in room} \ {UserOf[c]}
        BY <1>4, <2>1, <3>2 DEF Of
      <4> QED
        BY <2>2, <3>1, <3>2, <4>1
    <3>3. CASE Of(UserOf[c], room) # {c}
      <4>1. {UserOf[e] : e \in room'} = {UserOf[e] : e \in room}
        BY <1>4, <2>1, <3>3 DEF Of
      <4> QED
        BY <2>2, <3>1, <3>3, <4>1
    <3> QED
      BY <3>2, <3>3
  <2>5. NoneLost'
    <3> SUFFICES ASSUME NEW d \in room' \ (closed' \union missed'), pc'[d] \in {"seen", "live"},
                        NEW v \in 1 .. version
                 PROVE  Told(v, d)' \/ UnderWay(v, d)
      BY <1>1 DEF NoneLost, UnderWay
    <3>1. d \in room \ (closed \union missed) /\ d \in Conn /\ d # c /\ pc'[d] = pc[d]
      BY <1>1, <1>2, <2>1, <2>2 DEF Typed
    <3>2. knows'[d].news = knows[d].news /\ snapshot'[d] = snapshot[d]
      BY <1>2, <2>2, <3>1
    <3>3. Told(v, d) \/ UnderWay(v, d)
      BY <3>1 DEF NoneLost
    <3> QED
      BY <3>1, <3>2, <3>3 DEF Told
  <2> QED
    BY <2>3, <2>4, <2>5
<1>5. \/ UNCHANGED <<room, before, send, closed>> /\ c \notin room
      \/ c \in room /\ hub # "done" /\ handleUnregister(c)
  BY DEF unregisterClient, handleUnregister, Looping, Sheltered
<1> QED
  BY <1>3, <1>4, <1>5

\* What is read is all there is to know when it is read, and a failure counts as missed.
LEMMA SnapshotReadsStep ==
    ASSUME RoomInv, NEW c \in Conn, SnapshotReads(c)
    PROVE  RoomInv'
<1> USE DEF RoomInv
<1>1. /\ pc[c] = "joined"
      /\ UNCHANGED <<version, unsent, publish, hub, room, fanouts, closed, knows>>
  BY DEF SnapshotReads, members, send
<1>2. /\ pc' \in [Conn -> Stage] /\ pc'[c] \in {"seen", "live"}
      /\ snapshot' \in [Conn -> Nat]
      /\ \A d \in Conn \ {c} : /\ pc'[d] = pc[d] /\ snapshot'[d] = snapshot[d]
                               /\ d \in missed => d \in missed'
      /\ c \in missed' \/ (pc'[c] = "seen" /\ snapshot'[c] = version)
  <2>1. version \in Nat /\ pc \in [Conn -> Stage] /\ snapshot \in [Conn -> Nat]
    BY DEF Typed
  <2>2. CASE /\ pc' = [pc EXCEPT ![c] = "seen"]
             /\ snapshot' = [snapshot EXCEPT ![c] = version]
             /\ missed' = missed \ {c}
    BY <2>1, <2>2 DEF Stage
  <2>3. CASE /\ pc' = [pc EXCEPT ![c] = "live"]
             /\ snapshot' = [snapshot EXCEPT ![c] = 0]
             /\ missed' = missed \union {c}
    BY <2>1, <2>3 DEF Stage
  <2> QED
    BY <2>2, <2>3 DEF SnapshotReads, Goes
<1>3. Typed' /\ SeatsFit' /\ Sheltered' /\ EventsFit'
  BY <1>1, <1>2 DEF Typed, SeatsFit, Sheltered, EventsFit
<1>4. PresenceExact'
  BY <1>1 DEF PresenceExact
<1>5. NoneLost'
  <2> SUFFICES ASSUME NEW d \in room \ (closed \union missed'), pc'[d] \in {"seen", "live"},
                      NEW v \in 1 .. version
               PROVE  Told(v, d)' \/ UnderWay(v, d)
    BY <1>1 DEF NoneLost, UnderWay
  <2>1. d \in Conn /\ v <= version
    BY DEF Typed
  <2>2. CASE d = c
    BY <1>2, <2>1, <2>2 DEF Told
  <2>3. CASE d # c
    <3>1. pc'[d] = pc[d] /\ snapshot'[d] = snapshot[d] /\ d \notin missed
      BY <1>2, <2>1, <2>3
    <3>2. Told(v, d) \/ UnderWay(v, d)
      BY <3>1 DEF NoneLost
    <3> QED
      BY <1>1, <3>1, <3>2 DEF Told
  <2> QED
    BY <2>2, <2>3
<1> QED
  BY <1>3, <1>4, <1>5

\* The snapshot says what it was read at, or the client counts as missed.
LEMMA SnapshotSendsStep ==
    ASSUME RoomInv, NEW c \in Conn, SnapshotSends(c)
    PROVE  RoomInv'
<1> USE DEF RoomInv
<1>1. /\ pc[c] = "seen" /\ pc' = [pc EXCEPT ![c] = "live"]
      /\ snapshot' = [snapshot EXCEPT ![c] = 0]
      /\ UNCHANGED <<version, unsent, publish, hub, room, fanouts, closed>>
      /\ missed' = missed \union {d \in {c} : Full(d)}
      /\ trySend({c}, News(1 .. snapshot[c]))
  BY DEF SnapshotSends, Goes, members
<1>2. /\ pc' \in [Conn -> Stage] /\ pc'[c] = "live" /\ \A d \in Conn \ {c} : pc'[d] = pc[d]
      /\ snapshot' \in [Conn -> Nat] /\ \A d \in Conn \ {c} : snapshot'[d] = snapshot[d]
  BY <1>1 DEF Typed, Stage
<1>3. /\ knows' \in [Conn -> Knowledge]
      /\ \A d \in Conn : /\ knows'[d].present = knows[d].present
                         /\ knows[d].news \subseteq knows'[d].news
                         /\ d \in {c} \ closed /\ ~Full(d)
                                => 1 .. snapshot[c] \subseteq knows'[d].news
  <2> DEFINE read == 1 .. snapshot[c]
  <2>1. read \in SUBSET Nat /\ knows \in [Conn -> Knowledge] /\ trySend({c}, News(read))
    BY <1>1 DEF Typed
  <2> HIDE DEF read
  <2>2. /\ knows' \in [Conn -> Knowledge]
        /\ \A d \in Conn : /\ knows'[d].present = knows[d].present
                           /\ knows[d].news \subseteq knows'[d].news
                           /\ d \in {c} \ closed /\ ~Full(d) => read \subseteq knows'[d].news
    BY <2>1, NewsSent
  <2> QED
    BY <2>2 DEF read
<1>4. Typed' /\ SeatsFit' /\ Sheltered' /\ EventsFit'
  BY <1>1, <1>2, <1>3 DEF Typed, SeatsFit, Sheltered, EventsFit
<1>5. PresenceExact'
  BY <1>1, <1>3 DEF PresenceExact, Typed
<1>6. NoneLost'
  <2> SUFFICES ASSUME NEW d \in room \ (closed \union missed'), pc'[d] \in {"seen", "live"},
                      NEW v \in 1 .. version
               PROVE  Told(v, d)' \/ UnderWay(v, d)
    BY <1>1 DEF NoneLost, UnderWay
  <2>1. d \in Conn /\ d \notin missed /\ pc[d] \in {"seen", "live"}
    BY <1>1, <1>2 DEF Typed
  <2>2. Told(v, d) \/ UnderWay(v, d)
    BY <2>1 DEF NoneLost
  <2>3. CASE d = c
    <3>1. 1 .. snapshot[c] \subseteq knows'[c].news
      BY <1>1, <1>3, <2>3
    <3>2. v \in Nat \ {0} /\ snapshot[c] \in Nat
      BY DEF Typed
    <3>3. v <= snapshot[c] => v \in knows'[c].news
      BY <3>1, <3>2
    <3> QED
      BY <1>3, <2>2, <2>3, <3>3 DEF Told
  <2>4. CASE d # c
    BY <1>2, <1>3, <2>1, <2>2, <2>4 DEF Told
  <2> QED
    BY <2>3, <2>4
<1> QED
  BY <1>4, <1>5, <1>6

LEMMA ShutdownStep ==
    ASSUME RoomInv, shutdown
    PROVE  RoomInv'
<1> USE DEF RoomInv, shutdown, send, stages
<1>1. Typed' /\ SeatsFit' /\ Sheltered' /\ EventsFit'
  BY DEF Typed, SeatsFit, Sheltered, EventsFit
<1>2. PresenceExact' /\ NoneLost'
  BY DEF PresenceExact, NoneLost, Told
<1> QED
  BY <1>1, <1>2

LEMMA CommitStep ==
    ASSUME RoomInv, NEW k \in Kinds, Commit(k)
    PROVE  RoomInv'
<1> USE DEF RoomInv, Commit, members, send, stages
<1>1. [kind |-> k, version |-> version + 1] \in Event /\ version \in Nat
  BY RealtimeAssumption DEF Event, Typed
<1>2. Typed' /\ SeatsFit' /\ Sheltered'
  BY <1>1 DEF Typed, SeatsFit, Sheltered
<1>3. EventsFit'
  <2>1. \A ev \in unsent \union ToSet(publish) : ev.version \in Nat
    BY SeqElements DEF Typed, Event
  <2>2. \A f \in fanouts : f.ev.version \in Nat
    BY DEF Typed, Fanout, Event
  <2>3. \A n \in Nat : n <= version => n <= version + 1
    BY <1>1
  <2> QED
    BY <1>1, <2>1, <2>2, <2>3 DEF EventsFit
<1>4. PresenceExact'
  BY DEF PresenceExact
<1>5. NoneLost'
  <2> SUFFICES ASSUME NEW d \in room \ (closed \union missed), pc[d] \in {"seen", "live"},
                      NEW v \in 1 .. version + 1
               PROVE  Told(v, d) \/ UnderWay(v, d)'
    BY DEF NoneLost, Told
  <2>1. v = version + 1 \/ v \in 1 .. version
    BY <1>1
  <2>2. CASE v = version + 1
    <3> DEFINE ev == [kind |-> k, version |-> version + 1]
    <3>1. ev \in unsent' /\ ev.version = v
      BY <2>2
    <3> HIDE DEF ev
    <3> QED
      BY <3>1 DEF UnderWay
  <2>3. CASE v \in 1 .. version
    <3>1. Told(v, d) \/ UnderWay(v, d)
      BY <2>3 DEF NoneLost
    <3>2. UnderWay(v, d) => UnderWay(v, d)'
      BY DEF UnderWay
    <3> QED
      BY <3>1, <3>2
  <2> QED
    BY <2>1, <2>2, <2>3
<1> QED
  BY <1>2, <1>3, <1>4, <1>5

LEMMA EnqueueStep ==
    ASSUME RoomInv, NEW ev \in unsent, enqueue(ev)
    PROVE  RoomInv'
<1> USE DEF RoomInv
<1>1. /\ unsent' = unsent \ {ev}
      /\ UNCHANGED <<version, hub, room, fanouts, pc, snapshot, closed, knows>>
  BY DEF enqueue, members, stages, send
<1>2. ev \in Event
  BY DEF Typed
<1>3. \/ publish' \in Seq(Event) /\ ToSet(publish') = ToSet(publish) \union {ev}
         /\ missed' = missed
      \/ publish' = publish /\ room \subseteq missed'
  <2>1. hub = "done" => room = {}
    BY DEF Sheltered
  <2>2. publish \in Seq(Event)
    BY DEF Typed
  <2>3. /\ Append(publish, ev) \in Seq(Event)
        /\ ToSet(Append(publish, ev)) = ToSet(publish) \union {ev}
    BY <1>2, <2>2, AppendedEvents
  <2> QED
    BY <2>1, <2>3 DEF enqueue
<1>4. publish' \in Seq(Event) /\ ToSet(publish') \subseteq ToSet(publish) \union {ev}
  BY <1>3 DEF Typed
<1>5. Typed' /\ SeatsFit' /\ Sheltered' /\ EventsFit'
  BY <1>1, <1>4 DEF Typed, SeatsFit, Sheltered, EventsFit
<1>6. PresenceExact'
  BY <1>1 DEF PresenceExact
<1>7. NoneLost'
  BY <1>1, <1>3 DEF NoneLost, Told, UnderWay
<1> QED
  BY <1>5, <1>6, <1>7

-----------------------------------------------------------------------------
(***************************************************************************)
(* An event reaches the room: at once, or by a fan-out of its own.         *)
(***************************************************************************)
LEMMA PublishStep ==
    ASSUME RoomInv, handlePublish
    PROVE  RoomInv'
<1> USE DEF RoomInv
<1> DEFINE ev   == Head(publish)
           born == [ev |-> ev, left |-> room, viewer |-> Nobody, read |-> 0]
<1>1. /\ publish # <<>> /\ publish' = Tail(publish)
      /\ UNCHANGED <<version, unsent, hub, room, pc, snapshot, missed>>
  BY DEF handlePublish, members, stages
<1>2. /\ ev \in Event /\ publish' \in Seq(Event)
      /\ ToSet(publish) = {ev} \union ToSet(publish')
  BY <1>1, FirstEvent DEF Typed
<1>3. ev.version \in Nat /\ ev.version <= version
  BY <1>2 DEF EventsFit, Event
<1>4. /\ knows' \in [Conn -> Knowledge] /\ closed \subseteq closed'
      /\ \A d \in Conn : /\ knows'[d].present = knows[d].present
                         /\ knows[d].news \subseteq knows'[d].news
      /\ \/ room = {} /\ fanouts' = fanouts
         \/ fanouts' = fanouts /\ \A d \in room \ closed' : ev.version \in knows'[d].news
         \/ fanouts' = fanouts \union {born}
  <2> HIDE DEF ev
  <2>1. CASE room = {} /\ UNCHANGED <<fanouts, send, closed>>
    BY <2>1 DEF Typed, send
  <2>2. CASE broadcast(room, News({ev.version})) /\ UNCHANGED fanouts
    <3>1. {ev.version} \in SUBSET Nat
      BY <1>3
    <3>2. /\ knows' \in [Conn -> Knowledge] /\ closed \subseteq closed'
          /\ \A d \in Conn : /\ knows'[d].present = knows[d].present
                             /\ knows[d].news \subseteq knows'[d].news
                             /\ d \in room \ closed' => {ev.version} \subseteq knows'[d].news
      BY <2>2, <3>1, NewsBroadcast DEF Typed
    <3> QED
      BY <2>2, <3>2 DEF Typed
  <2>3. CASE fanouts' = fanouts \union {born} /\ UNCHANGED <<send, closed>>
    BY <2>3 DEF Typed, send
  <2> QED
    BY <2>1, <2>2, <2>3 DEF handlePublish, ev
<1>5. born \in Fanout /\ born.ev = ev /\ born.left = room /\ born.viewer = Nobody
  BY <1>2 DEF Fanout, Typed
<1> HIDE DEF ev, born
<1>6. fanouts' \subseteq fanouts \union {born}
  BY <1>4
<1>7. Typed' /\ SeatsFit' /\ Sheltered'
  BY <1>1, <1>2, <1>4, <1>5, <1>6 DEF Typed, SeatsFit, Sheltered
<1>8. EventsFit'
  BY <1>1, <1>2, <1>3, <1>5, <1>6 DEF EventsFit
<1>9. PresenceExact'
  BY <1>1, <1>4 DEF PresenceExact, Typed
<1>10. NoneLost'
  <2> SUFFICES ASSUME NEW d \in room \ (closed' \union missed), pc[d] \in {"seen", "live"},
                      NEW v \in 1 .. version
               PROVE  Told(v, d)' \/ UnderWay(v, d)'
    BY <1>1 DEF NoneLost
  <2>1. d \in Conn /\ d \in room \ (closed \union missed)
    BY <1>4 DEF Typed
  <2>2. Told(v, d) \/ UnderWay(v, d)
    BY <2>1 DEF NoneLost
  <2>3. CASE Told(v, d)
    BY <1>1, <1>4, <2>1, <2>3 DEF Told
  <2>4. CASE \E f \in fanouts : f.ev.version = v /\ d \in f.left
    BY <1>4, <2>1, <2>4 DEF UnderWay
  <2>5. CASE \E e \in unsent \union ToSet(publish') : e.version = v
    BY <1>1, <2>5 DEF UnderWay
  <2>6. CASE ev.version = v
    BY <1>4, <1>5, <2>1, <2>6 DEF UnderWay, Told
  <2> QED
    BY <1>2, <2>2, <2>3, <2>4, <2>5, <2>6 DEF UnderWay
<1> QED
  BY <1>7, <1>8, <1>9, <1>10

LEMMA FanoutReadsStep ==
    ASSUME RoomInv, NEW f \in fanouts, FanoutReads(f)
    PROVE  RoomInv'
<1> USE DEF RoomInv
<1>1. /\ f.viewer = Nobody /\ f \in Fanout
      /\ UNCHANGED <<version, unsent, publish, hub, room, pc, snapshot, closed, knows>>
  BY DEF FanoutReads, members, stages, send, Typed
<1>2. PICK u \in {UserOf[c] : c \in f.left} :
          \/ /\ fanouts' = (fanouts \ {f}) \union {[f EXCEPT !.viewer = u, !.read = version]}
             /\ UNCHANGED missed
          \/ /\ fanouts' = (fanouts \ {f})
                    \union {g \in {[f EXCEPT !.left = @ \ Of(u, @)]} : g.left # {}}
             /\ missed' = missed \union Of(u, f.left)
  BY DEF FanoutReads
<1> DEFINE reads == [f EXCEPT !.viewer = u, !.read = version]
           rest  == [f EXCEPT !.left = @ \ Of(u, @)]
<1>3. u \in Player
  BY <1>1, <1>2, RealtimeAssumption DEF Fanout
<1>4. /\ reads \in Fanout /\ reads.ev = f.ev /\ reads.left = f.left /\ reads.read = version
      /\ rest \in Fanout /\ rest.ev = f.ev /\ rest.left = f.left \ Of(u, f.left)
      /\ rest.viewer = Nobody
  BY <1>1, <1>3 DEF Fanout, Typed
<1>5. \/ fanouts' = (fanouts \ {f}) \union {reads} /\ missed' = missed
      \/ /\ fanouts' \subseteq (fanouts \ {f}) \union {rest}
         /\ fanouts \ {f} \subseteq fanouts'
         /\ rest.left # {} => rest \in fanouts'
         /\ missed' = missed \union Of(u, f.left)
  BY <1>2
<1> HIDE DEF reads, rest
<1>6. Typed' /\ SeatsFit' /\ Sheltered'
  BY <1>1, <1>4, <1>5 DEF Typed, SeatsFit, Sheltered
<1>7. EventsFit'
  BY <1>1, <1>4, <1>5 DEF EventsFit
<1>8. PresenceExact'
  BY <1>1 DEF PresenceExact
<1>9. NoneLost'
  <2> SUFFICES ASSUME NEW d \in room \ (closed \union missed'), pc[d] \in {"seen", "live"},
                      NEW v \in 1 .. version
               PROVE  Told(v, d) \/ UnderWay(v, d)'
    BY <1>1 DEF NoneLost, Told
  <2>1. d \in room \ (closed \union missed)
    BY <1>5
  <2>2. Told(v, d) \/ UnderWay(v, d)
    BY <2>1 DEF NoneLost
  <2>3. ASSUME NEW g \in fanouts, g.ev.version = v, d \in g.left
        PROVE  UnderWay(v, d)'
    <3>1. CASE g # f
      <4>1. g \in fanouts'
        BY <1>5, <3>1
      <4> QED
        BY <2>3, <4>1 DEF UnderWay
    <3>2. CASE g = f
      BY <1>4, <1>5, <2>3, <3>2 DEF UnderWay
    <3> QED
      BY <3>1, <3>2
  <2> QED
    BY <1>1, <2>2, <2>3 DEF UnderWay
<1> QED
  BY <1>6, <1>7, <1>8, <1>9

\* What a fan-out has read covers the transition its event announced.
LEMMA FanoutSendsStep ==
    ASSUME RoomInv, NEW f \in fanouts, FanoutSends(f)
    PROVE  RoomInv'
<1> USE DEF RoomInv
<1> DEFINE mine == Of(f.viewer, f.left)
           rest == [f EXCEPT !.left = @ \ mine, !.viewer = Nobody, !.read = 0]
<1>1. /\ f.viewer # Nobody /\ f \in Fanout
      /\ broadcast(mine, News(1 .. f.read))
      /\ fanouts' = (fanouts \ {f}) \union {g \in {rest} : g.left # {}}
      /\ UNCHANGED <<version, unsent, publish, hub, room, pc, snapshot, missed>>
  BY DEF FanoutSends, members, stages, Typed
<1>2. /\ rest \in Fanout /\ rest.ev = f.ev /\ rest.left = f.left \ mine
      /\ rest.viewer = Nobody
  BY <1>1 DEF Fanout
<1>3. /\ fanouts' \subseteq (fanouts \ {f}) \union {rest}
      /\ fanouts \ {f} \subseteq fanouts'
      /\ rest.left # {} => rest \in fanouts'
  BY <1>1
<1> HIDE DEF mine, rest
<1>4. /\ knows' \in [Conn -> Knowledge] /\ closed \subseteq closed'
      /\ \A d \in Conn : /\ knows'[d].present = knows[d].present
                         /\ knows[d].news \subseteq knows'[d].news
                         /\ d \in mine \ closed' => 1 .. f.read \subseteq knows'[d].news
  <2> DEFINE read == 1 .. f.read
  <2>1. read \in SUBSET Nat /\ knows \in [Conn -> Knowledge] /\ broadcast(mine, News(read))
    BY <1>1 DEF Fanout, Typed
  <2> HIDE DEF read
  <2>2. /\ knows' \in [Conn -> Knowledge] /\ closed \subseteq closed'
        /\ \A d \in Conn : /\ knows'[d].present = knows[d].present
                           /\ knows[d].news \subseteq knows'[d].news
                           /\ d \in mine \ closed' => read \subseteq knows'[d].news
    BY <2>1, NewsBroadcast
  <2> QED
    BY <2>2 DEF read
<1>5. Typed' /\ SeatsFit' /\ Sheltered'
  BY <1>1, <1>2, <1>3, <1>4 DEF Typed, SeatsFit, Sheltered
<1>6. EventsFit'
  BY <1>1, <1>2, <1>3 DEF EventsFit
<1>7. PresenceExact'
  BY <1>1, <1>4 DEF PresenceExact, Typed
<1>8. NoneLost'
  <2> SUFFICES ASSUME NEW d \in room \ (closed' \union missed), pc[d] \in {"seen", "live"},
                      NEW v \in 1 .. version
               PROVE  Told(v, d)' \/ UnderWay(v, d)'
    BY <1>1 DEF NoneLost
  <2>1. d \in Conn /\ d \in room \ (closed \union missed)
    BY <1>4 DEF Typed
  <2>2. Told(v, d) \/ UnderWay(v, d)
    BY <2>1 DEF NoneLost
  <2>3. ASSUME NEW g \in fanouts, g.ev.version = v, d \in g.left
        PROVE  Told(v, d)' \/ UnderWay(v, d)'
    <3>1. CASE g # f
      <4>1. g \in fanouts'
        BY <1>3, <3>1
      <4> QED
        BY <2>3, <4>1 DEF UnderWay
    <3>2. CASE g = f /\ d \notin mine
      BY <1>2, <1>3, <2>3, <3>2 DEF UnderWay
    <3>3. CASE g = f /\ d \in mine
      <4>1. f.ev.version <= f.read /\ f.read \in Nat
        BY <1>1 DEF EventsFit, Fanout
      <4>2. v \in 1 .. f.read
        BY <2>3, <3>3, <4>1
      <4> QED
        BY <1>4, <2>1, <3>3, <4>2 DEF Told
    <3> QED
      BY <3>1, <3>2, <3>3
  <2> QED
    BY <1>1, <1>4, <2>1, <2>2, <2>3 DEF UnderWay, Told
<1> QED
  BY <1>5, <1>6, <1>7, <1>8

-----------------------------------------------------------------------------
(***************************************************************************)
(* The invariant, and what it says of every run.                           *)
(***************************************************************************)
LEMMA RoomInvariant == Spec => []RoomInv
<1>1. Init => RoomInv
  <2> SUFFICES ASSUME Init
               PROVE  RoomInv
    OBVIOUS
  <2>1. ToSet(publish) = {} /\ publish \in Seq(Event)
    <3>1. publish = <<>>
      BY DEF Init
    <3>2. <<>> \in Seq(Event)
      OBVIOUS
    <3>3. DOMAIN <<>> = {}
      BY <3>2
    <3> QED
      BY <3>1, <3>2, <3>3 DEF ToSet
  <2>2. [c \in Conn |-> NothingKnown] \in [Conn -> Knowledge]
    BY DEF NothingKnown, Knowledge
  <2>3. Typed
    BY <2>1, <2>2 DEF Init, Typed, Stage
  <2> QED
    BY <2>1, <2>3 DEF Init, RoomInv, SeatsFit, Sheltered, EventsFit, PresenceExact,
                      NoneLost
<1>2. RoomInv /\ [Next]_vars => RoomInv'
  <2> SUFFICES ASSUME RoomInv, [Next]_vars
               PROVE  RoomInv'
    OBVIOUS
  <2>1. CASE UNCHANGED vars
    BY <2>1, Quiet DEF vars, members, stages, limiter, send, RoomInv, Typed, SeatsFit
  <2>2. ASSUME NEW c \in Conn, tryAcquire(c) \/ Connect(c) \/ writePump(c)
                               \/ readPump(c) \/ SocketEnds(c)
        PROVE  RoomInv'
    BY <2>2, QuietSteps, RegisterStep, TurnedAwayStep, SnapshotReadsStep, SnapshotSendsStep,
       LeaveStep DEF Connect
  <2>3. CASE handlePublish \/ shutdown
    BY <2>3, PublishStep, ShutdownStep
  <2>4. CASE Cancel
    BY <2>4, Quiet DEF Cancel, members, stages, limiter, send, RoomInv, Typed, SeatsFit
  <2>5. ASSUME NEW f \in fanouts, FanoutReads(f) \/ FanoutSends(f)
        PROVE  RoomInv'
    BY <2>5, FanoutReadsStep, FanoutSendsStep
  <2>6. ASSUME NEW k \in Kinds, Commit(k)
        PROVE  RoomInv'
    BY <2>6, CommitStep
  <2>7. ASSUME NEW ev \in unsent, enqueue(ev)
        PROVE  RoomInv'
    BY <2>7, EnqueueStep
  <2> QED
    BY <2>1, <2>2, <2>3, <2>4, <2>5, <2>6, <2>7 DEF Next
<1> QED
  BY <1>1, <1>2, PTL DEF Spec

\* However tabs come and go, are evicted for one too many or closed for being
\* slow (hub.go), a client that stays knows exactly which users are there.
THEOREM PresenceStaysExact == Spec => []PresenceExact
<1>1. RoomInv => PresenceExact
  BY DEF RoomInv
<1> QED
  BY <1>1, RoomInvariant, PTL

\* No transition falls between the snapshot Connect reads, and sends behind what came
\* meanwhile, and the fan-outs of the hub, in whatever order these read the database
\* (fanoutPerViewer).
THEOREM NoTransitionSkipped == Spec => []NothingSkipped
<1>1. RoomInv => NothingSkipped
  BY DEF RoomInv, NoneLost, NothingSkipped, Told
<1> QED
  BY <1>1, RoomInvariant, PTL

\* Hub.shutdown closes every socket whose handler had registered it, also one
\* that was evicted just before.
THEOREM StoppingClosesAll == Spec => []StoppedMeansClosed
<1>1. RoomInv => StoppedMeansClosed
  BY DEF RoomInv, Sheltered, StoppedMeansClosed
<1> QED
  BY <1>1, RoomInvariant, PTL
-----------------------------------------------------------------------------
(***************************************************************************)
(* The bounds.  The counters of the limiter count the calls that hold a    *)
(* slot, address by address.  A user's clients came one after the other,   *)
(* so that one of them is the oldest and is evicted when the user has too  *)
(* many: that is why the order of arrival is part of the invariant.        *)
(***************************************************************************)
Held(ip) == {c \in Conn : IPOf[c] = ip /\ Holds(c)}

CountsFit ==
    /\ elsewhere \in [IPs -> Nat] /\ perIP \in [IPs -> Int] /\ total \in Int
    /\ \A ip \in IPs : /\ perIP[ip] = elsewhere[ip] + Cardinality(Held(ip))
                       /\ perIP[ip] <= MaxConnsPerIP
    /\ total = SumFunction(perIP) /\ total <= MaxConns

LoadsFit == load \in [Conn -> 0 .. SendBuffer]

Arrivals ==
    /\ before \in [Conn -> SUBSET Conn]
    /\ \A c \in Conn : /\ c \notin before[c]
                       /\ \A d \in before[c] : /\ pc[d] \notin {"new", "admitted", "upgraded"}
                                               /\ UserOf[d] = UserOf[c]
    /\ \A c, d \in room : d \in before[c] => before[d] \intersect room \subseteq before[c]

UsersFit == \A u \in Player : Cardinality(Of(u, room)) <= MaxConnsPerUser

BoundInv == CountsFit /\ LoadsFit /\ Arrivals /\ UsersFit

(***************************************************************************)
(* The limiter.                                                            *)
(***************************************************************************)
\* Nobody takes a slot and nobody gives one back.
LEMMA CountsStay ==
    ASSUME CountsFit, UNCHANGED limiter, \A c \in Conn : Holds(c)' <=> Holds(c)
    PROVE  CountsFit'
<1>1. \A ip \in IPs : Held(ip)' = Held(ip)
  BY DEF Held
<1> QED
  BY <1>1 DEF CountsFit, limiter

LEMMA HeldFinite ==
    /\ IsFiniteSet(IPs)
    /\ \A ip \in IPs : IsFiniteSet(Held(ip)) /\ Cardinality(Held(ip)) \in Nat
<1>1. IsFiniteSet(IPs)
  <2> DEFINE address == [c \in Conn |-> IPOf[c]]
  <2>1. address \in Surjection(Conn, IPs)
    BY DEF IPs, Surjection
  <2> HIDE DEF address
  <2> QED
    BY <2>1, FS_Surjection, CrowdAssumption
<1>2. ASSUME NEW ip \in IPs
      PROVE  IsFiniteSet(Held(ip))
  <2>1. Held(ip) \in SUBSET Conn /\ IsFiniteSet(Conn)
    BY CrowdAssumption DEF Held
  <2> QED
    BY <2>1, FS_Subset
<1> QED
  BY <1>1, <1>2, FS_CardinalityType

\* One address's counter moves by n, and the total with it.
LEMMA CountMoves ==
    ASSUME CountsFit, NEW ip \in IPs, NEW n \in Int, Count(ip, n)
    PROVE  /\ perIP' \in [IPs -> Int] /\ total' \in Int /\ elsewhere' = elsewhere
           /\ perIP'[ip] = perIP[ip] + n /\ total' = total + n
           /\ \A other \in IPs \ {ip} : perIP'[other] = perIP[other]
           /\ total' = SumFunction(perIP')
<1>1. /\ total' = total + n /\ perIP' = [perIP EXCEPT ![ip] = @ + n]
      /\ elsewhere' = elsewhere
  BY DEF Count
<1>2. /\ perIP \in [IPs -> Int] /\ total \in Int /\ total = SumFunction(perIP)
  BY DEF CountsFit
<1>3. /\ perIP' \in [IPs -> Int] /\ perIP'[ip] = perIP[ip] + n /\ perIP[ip] \in Int
      /\ \A other \in IPs \ {ip} : perIP'[other] = perIP[other]
  BY <1>1, <1>2
<1>4. SumFunction(perIP') = SumFunction(perIP) + perIP'[ip] - perIP[ip]
  BY <1>2, <1>3, HeldFinite, SumChange
<1>5. total' = total + n /\ total' \in Int
  BY <1>1, <1>2
<1> QED
  BY <1>1, <1>2, <1>3, <1>4, <1>5

LEMMA AcquireCounts ==
    ASSUME Typed, CountsFit, NEW c \in Conn, tryAcquire(c)
    PROVE  CountsFit'
<1> DEFINE ip == IPOf[c]
<1>1. ip \in IPs /\ pc[c] = "new" /\ pc \in [Conn -> Stage]
  BY DEF IPs, tryAcquire, Typed
<1>2. CASE ~HasSlot(ip) /\ UNCHANGED limiter /\ Goes(c, "ended")
  <2>1. \A d \in Conn : Holds(d)' <=> Holds(d)
    BY <1>1, <1>2 DEF Goes, Holds
  <2> QED
    BY <1>2, <2>1, CountsStay
<1>3. CASE HasSlot(ip) /\ Count(ip, 1) /\ Goes(c, "admitted")
  <2>1. /\ perIP' \in [IPs -> Int] /\ total' \in Int /\ elsewhere' = elsewhere
        /\ perIP'[ip] = perIP[ip] + 1 /\ total' = total + 1
        /\ \A other \in IPs \ {ip} : perIP'[other] = perIP[other]
        /\ total' = SumFunction(perIP')
    BY <1>1, <1>3, CountMoves
  <2>2. Held(ip)' = Held(ip) \union {c} /\ c \notin Held(ip)
    BY <1>1, <1>3 DEF Held, Holds, Goes
  <2>3. \A other \in IPs \ {ip} : Held(other)' = Held(other)
    BY <1>1, <1>3 DEF Held, Holds, Goes
  <2>4. Cardinality(Held(ip) \union {c}) = Cardinality(Held(ip)) + 1
    BY <1>1, <2>2, HeldFinite, FS_AddElement
  <2>5. total < MaxConns /\ perIP[ip] < MaxConnsPerIP
    BY <1>3 DEF HasSlot
  <2>6. MaxConns \in Nat /\ MaxConnsPerIP \in Nat
    BY RealtimeAssumption
  <2>7. /\ total \in Int /\ elsewhere \in [IPs -> Nat] /\ perIP \in [IPs -> Int]
        /\ \A i \in IPs : /\ perIP[i] = elsewhere[i] + Cardinality(Held(i))
                          /\ perIP[i] <= MaxConnsPerIP
    BY DEF CountsFit
  <2> HIDE DEF ip
  <2>8. total' <= MaxConns /\ perIP'[ip] <= MaxConnsPerIP
    BY <1>1, <2>1, <2>5, <2>6, <2>7
  <2>9. perIP'[ip] = elsewhere[ip] + Cardinality(Held(ip)')
    <3>1. elsewhere[ip] \in Nat /\ Cardinality(Held(ip)) \in Nat
      BY <1>1, <2>7, HeldFinite
    <3>2. perIP[ip] = elsewhere[ip] + Cardinality(Held(ip))
      BY <1>1, <2>7
    <3>3. Cardinality(Held(ip)') = Cardinality(Held(ip)) + 1
      BY <2>2, <2>4
    <3>4. perIP'[ip] = perIP[ip] + 1
      BY <2>1
    <3> QED
      BY <3>1, <3>2, <3>3, <3>4
  <2>10. ASSUME NEW i \in IPs
         PROVE  /\ perIP'[i] = elsewhere'[i] + Cardinality(Held(i)')
                /\ perIP'[i] <= MaxConnsPerIP
    <3>1. CASE i = ip
      BY <2>1, <2>8, <2>9, <3>1
    <3>2. CASE i # ip
      BY <2>1, <2>3, <2>7, <3>2
    <3> QED
      BY <3>1, <3>2
  <2> QED
    BY <2>1, <2>7, <2>8, <2>10 DEF CountsFit
<1> QED
  BY <1>2, <1>3 DEF tryAcquire

\* A slot that is given back was counted: the counters never fall below it.
LEMMA ReleaseCounts ==
    ASSUME Typed, CountsFit, NEW c \in Conn, release(c)
    PROVE  CountsFit'
<1> DEFINE ip == IPOf[c]
<1>1. ip \in IPs /\ pc[c] = "left" /\ pc \in [Conn -> Stage] /\ Goes(c, "ended")
      /\ Count(ip, -1) /\ -1 \in Int
  BY DEF IPs, release, Typed
<1>2. /\ perIP' \in [IPs -> Int] /\ total' \in Int /\ elsewhere' = elsewhere
      /\ perIP'[ip] = perIP[ip] + -1 /\ total' = total + -1
      /\ \A other \in IPs \ {ip} : perIP'[other] = perIP[other]
      /\ total' = SumFunction(perIP')
  BY <1>1, CountMoves
<1>3. Held(ip)' = Held(ip) \ {c} /\ c \in Held(ip)
  BY <1>1 DEF Held, Holds, Goes
<1>4. \A other \in IPs \ {ip} : Held(other)' = Held(other)
  BY <1>1 DEF Held, Holds, Goes
<1>5. Cardinality(Held(ip) \ {c}) = Cardinality(Held(ip)) - 1
  BY <1>1, <1>3, HeldFinite, FS_RemoveElement
<1>6. MaxConns \in Nat /\ MaxConnsPerIP \in Nat
  BY RealtimeAssumption
<1>7. /\ total \in Int /\ elsewhere \in [IPs -> Nat] /\ perIP \in [IPs -> Int]
      /\ total <= MaxConns
      /\ \A i \in IPs : /\ perIP[i] = elsewhere[i] + Cardinality(Held(i))
                        /\ perIP[i] <= MaxConnsPerIP
  BY DEF CountsFit
<1> HIDE DEF ip
<1>8. total' <= MaxConns /\ perIP'[ip] <= MaxConnsPerIP
  BY <1>1, <1>2, <1>6, <1>7
<1>9. perIP'[ip] = elsewhere[ip] + Cardinality(Held(ip)')
  <2>1. elsewhere[ip] \in Nat /\ Cardinality(Held(ip)) \in Nat
    BY <1>1, <1>7, HeldFinite
  <2>2. perIP[ip] = elsewhere[ip] + Cardinality(Held(ip))
    BY <1>1, <1>7
  <2>3. Cardinality(Held(ip)') = Cardinality(Held(ip)) - 1
    BY <1>3, <1>5
  <2>4. perIP'[ip] = perIP[ip] + -1
    BY <1>2
  <2> QED
    BY <2>1, <2>2, <2>3, <2>4
<1>10. ASSUME NEW i \in IPs
       PROVE  /\ perIP'[i] = elsewhere'[i] + Cardinality(Held(i)')
              /\ perIP'[i] <= MaxConnsPerIP
  <2>1. CASE i = ip
    BY <1>2, <1>8, <1>9, <2>1
  <2>2. CASE i # ip
    BY <1>2, <1>4, <1>7, <2>2
  <2> QED
    BY <2>1, <2>2
<1> QED
  BY <1>2, <1>7, <1>8, <1>10 DEF CountsFit

LEMMA CountsStep ==
    ASSUME Typed, CountsFit, [Next]_vars
    PROVE  CountsFit'
<1>1. CASE UNCHANGED vars
  BY <1>1, CountsStay DEF vars, stages, Holds
<1>2. ASSUME NEW c \in Conn, tryAcquire(c)
      PROVE  CountsFit'
  BY <1>2, AcquireCounts
<1>3. ASSUME NEW c \in Conn, release(c)
      PROVE  CountsFit'
  BY <1>3, ReleaseCounts
<1>4. ASSUME NEW c \in Conn, NEW was, NEW goes,
             was \notin {"new", "ended"}, goes \notin {"new", "ended"},
             pc[c] = was, Goes(c, goes), UNCHANGED limiter
      PROVE  CountsFit'
  <2>1. \A d \in Conn : Holds(d)' <=> Holds(d)
    BY <1>4 DEF Holds, Goes, Typed
  <2> QED
    BY <1>4, <2>1, CountsStay
<1>5. ASSUME NEW c \in Conn, Upgrade(c) \/ registerClient(c) \/ SnapshotSends(c)
      PROVE  CountsFit'
  BY <1>4, <1>5 DEF Upgrade, registerClient, handleRegister, SnapshotSends
<1>13. ASSUME NEW c \in Conn, SnapshotReads(c)
       PROVE  CountsFit'
  <2>1. \A d \in Conn : Holds(d)' <=> Holds(d)
    BY <1>13 DEF SnapshotReads, Goes, Holds, Typed
  <2> QED
    BY <1>13, <2>1, CountsStay DEF SnapshotReads
<1>6. ASSUME NEW c \in Conn, PumpsEnd(c) \/ unregisterClient(c)
      PROVE  CountsFit'
  BY <1>4, <1>6 DEF PumpsEnd, unregisterClient
<1>7. ASSUME UNCHANGED <<pc, limiter>>
      PROVE  CountsFit'
  BY <1>7, CountsStay DEF Holds
<1>8. ASSUME NEW c \in Conn, writePump(c) \/ readPump(c) \/ SocketEnds(c)
      PROVE  CountsFit'
  BY <1>7, <1>8 DEF writePump, readPump, SocketEnds, stages
<1>9. CASE handlePublish \/ shutdown \/ Cancel
  BY <1>7, <1>9 DEF handlePublish, shutdown, Cancel, stages
<1>10. ASSUME NEW f \in fanouts, FanoutReads(f) \/ FanoutSends(f)
       PROVE  CountsFit'
  BY <1>7, <1>10 DEF FanoutReads, FanoutSends, stages
<1>11. ASSUME NEW k \in Kinds, Commit(k)
       PROVE  CountsFit'
  BY <1>7, <1>11 DEF Commit, stages
<1>12. ASSUME NEW ev \in unsent, enqueue(ev)
       PROVE  CountsFit'
  BY <1>7, <1>12 DEF enqueue, stages
<1> QED
  BY <1>1, <1>2, <1>3, <1>5, <1>6, <1>8, <1>9, <1>10, <1>11, <1>12, <1>13 DEF Next, Connect

(***************************************************************************)
(* The buffers.                                                            *)
(***************************************************************************)
LEMMA SendFits ==
    ASSUME LoadsFit, NEW clients, NEW f, trySend(clients, f)
    PROVE  LoadsFit'
<1>1. SendBuffer \in Nat
  BY RealtimeAssumption
<1>2. ASSUME NEW c \in Conn
      PROVE  /\ load[c] \in 0 .. SendBuffer
             /\ ~Full(c) => load[c] + 1 \in 0 .. SendBuffer
  BY <1>1 DEF LoadsFit, Full
<1>3. load' = [c \in Conn |-> IF c \in {d \in clients \ closed : ~Full(d)}
                              THEN load[c] + 1 ELSE load[c]]
  BY DEF trySend
<1> QED
  BY <1>2, <1>3 DEF LoadsFit

\* What a newcomer is told at once is at most one frame for each user.
LEMMA NewcomerFits ==
    ASSUME Typed, SeatsFit, LoadsFit, NEW c \in Conn, registerClient(c), handleRegister(c)
    PROVE  LoadsFit'
<1> DEFINE mine    == Of(UserOf[c], room)
           victims == Victims(mine)
           stay    == room \ victims
           first   == Of(UserOf[c], stay) = {}
           hearers == IF first THEN {d \in stay \ closed : ~Full(d)} ELSE {}
           own     == IF first THEN {UserOf[c]} ELSE {}
           seeds   == Seeds(c, stay)
<1>1. load' = [d \in Conn |-> CASE d = c         -> Cardinality(own \union seeds)
                                [] d \in hearers -> load[d] + 1
                                [] OTHER         -> load[d]]
  BY DEF handleRegister
<1>2. own \union seeds \subseteq Player
  BY RealtimeAssumption DEF Seeds, Typed
<1>3. c \notin hearers /\ \A d \in hearers : ~Full(d)
  <2>1. c \notin room
    BY DEF registerClient, SeatsFit
  <2> QED
    BY <2>1
<1> HIDE DEF own, seeds, hearers
<1>4. SendBuffer \in Nat
  BY RealtimeAssumption
<1>5. Cardinality(own \union seeds) \in 0 .. SendBuffer
  <2>1. IsFiniteSet(Player) /\ Cardinality(Player) <= SendBuffer
    BY CrowdAssumption
  <2>2. /\ IsFiniteSet(own \union seeds)
        /\ Cardinality(own \union seeds) <= Cardinality(Player)
    BY <1>2, <2>1, FS_Subset
  <2>3. Cardinality(own \union seeds) \in Nat /\ Cardinality(Player) \in Nat
    BY <2>1, <2>2, FS_CardinalityType
  <2> QED
    BY <1>4, <2>1, <2>2, <2>3
<1>6. ASSUME NEW d \in Conn
      PROVE  /\ load[d] \in 0 .. SendBuffer
             /\ d \in hearers => load[d] + 1 \in 0 .. SendBuffer
  BY <1>3, <1>4 DEF LoadsFit, Full
<1>7. \A d \in Conn : load'[d] \in 0 .. SendBuffer
  <2> TAKE d \in Conn
  <2>1. CASE d = c
    BY <1>1, <1>3, <1>5, <2>1
  <2>2. CASE d # c /\ d \in hearers
    BY <1>1, <1>6, <2>2
  <2>3. CASE d # c /\ d \notin hearers
    BY <1>1, <1>6, <2>3
  <2> QED
    BY <2>1, <2>2, <2>3
<1>8. load' \in [Conn -> 0 .. SendBuffer]
  <2>1. load' = [d \in Conn |-> load'[d]]
    BY <1>1
  <2> QED
    BY <1>7, <2>1
<1> QED
  BY <1>8 DEF LoadsFit

LEMMA LoadsStep ==
    ASSUME Typed, SeatsFit, LoadsFit, [Next]_vars
    PROVE  LoadsFit'
<1>1. ASSUME UNCHANGED load
      PROVE  LoadsFit'
  BY <1>1 DEF LoadsFit
<1>2. CASE UNCHANGED vars
  BY <1>1, <1>2 DEF vars, send
<1>3. ASSUME NEW c \in Conn, Upgrade(c) \/ SnapshotReads(c) \/ release(c)
                             \/ SocketEnds(c) \/ tryAcquire(c)
      PROVE  LoadsFit'
  BY <1>1, <1>3 DEF Upgrade, SnapshotReads, release, SocketEnds, tryAcquire, send
<1>4. ASSUME NEW c \in Conn, registerClient(c)
      PROVE  LoadsFit'
  BY <1>1, <1>4, NewcomerFits DEF registerClient, send
<1>5. ASSUME NEW c \in Conn, SnapshotSends(c) \/ readPump(c) \/ unregisterClient(c)
      PROVE  LoadsFit'
  BY <1>1, <1>5, SendFits
     DEF SnapshotSends, readPump, unregisterClient, handleUnregister, broadcast, send
<1>6. ASSUME NEW c \in Conn, PumpsEnd(c) \/ writePump(c)
      PROVE  LoadsFit'
  <2>1. SendBuffer \in Nat /\ load \in [Conn -> 0 .. SendBuffer]
    BY RealtimeAssumption DEF LoadsFit
  <2>2. \/ load' = [load EXCEPT ![c] = 0]
        \/ load[c] > 0 /\ load' = [load EXCEPT ![c] = @ - 1]
    BY <1>6 DEF PumpsEnd, writePump
  <2>3. 0 \in 0 .. SendBuffer /\ (load[c] > 0 => load[c] - 1 \in 0 .. SendBuffer)
    BY <2>1
  <2> QED
    BY <2>1, <2>2, <2>3 DEF LoadsFit
<1>7. CASE handlePublish \/ shutdown \/ Cancel
  BY <1>1, <1>7, SendFits DEF handlePublish, shutdown, Cancel, broadcast, send
<1>8. ASSUME NEW f \in fanouts, FanoutReads(f) \/ FanoutSends(f)
      PROVE  LoadsFit'
  BY <1>1, <1>8, SendFits DEF FanoutReads, FanoutSends, broadcast, send
<1>9. ASSUME NEW k \in Kinds, Commit(k)
      PROVE  LoadsFit'
  BY <1>1, <1>9 DEF Commit, send
<1>10. ASSUME NEW ev \in unsent, enqueue(ev)
       PROVE  LoadsFit'
  BY <1>1, <1>10 DEF enqueue, send
<1> QED
  BY <1>2, <1>3, <1>4, <1>5, <1>6, <1>7, <1>8, <1>9, <1>10 DEF Next, Connect

(***************************************************************************)
(* The clients of a user.                                                  *)
(***************************************************************************)
\* Of clients that came one after the other one came first: the one with the
\* fewest before it.
LEMMA SomeoneIsOldest ==
    ASSUME Typed, Arrivals, NEW mine \in SUBSET room, mine # {}
    PROVE  oldest(mine) # {}
<1> DEFINE ahead(d) == before[d] \intersect mine
           N == {Cardinality(ahead(d)) : d \in mine}
<1>1. ASSUME NEW d \in mine
      PROVE  IsFiniteSet(ahead(d)) /\ Cardinality(ahead(d)) \in Nat
  <2>1. ahead(d) \in SUBSET Conn /\ IsFiniteSet(Conn)
    BY CrowdAssumption DEF Typed
  <2> QED
    BY <2>1, FS_Subset, FS_CardinalityType
<1>2. N \subseteq Nat /\ N # {}
  BY <1>1
<1>3. PICK n \in N : \A k \in N : n <= k
  <2> HIDE DEF N
  <2> QED
    BY <1>2, LeastNat
<1>4. PICK d \in mine : n = Cardinality(ahead(d))
  BY <1>3
<1>5. ahead(d) = {}
  <2> SUFFICES ASSUME NEW e \in ahead(d)
               PROVE  FALSE
    OBVIOUS
  <2>1. e \in mine /\ d \in room /\ e \in room /\ d \in Conn /\ e \in Conn /\ e \in before[d]
    BY DEF Typed
  <2>2. before[e] \intersect room \subseteq before[d] /\ e \notin before[e]
    BY <2>1 DEF Arrivals
  <2>3. ahead(e) \subseteq ahead(d) /\ ahead(e) # ahead(d)
    BY <2>1, <2>2
  <2>4. /\ Cardinality(ahead(e)) \in Nat /\ Cardinality(ahead(d)) \in Nat
        /\ IsFiniteSet(ahead(d))
    BY <1>1, <2>1
  <2>5. Cardinality(ahead(d)) <= Cardinality(ahead(e))
    BY <1>3, <1>4, <2>1
  <2>6. /\ Cardinality(ahead(e)) <= Cardinality(ahead(d))
        /\ Cardinality(ahead(d)) = Cardinality(ahead(e)) => ahead(d) = ahead(e)
    <3> HIDE DEF ahead
    <3>1. ahead(e) \in SUBSET ahead(d)
      BY <2>3
    <3> QED
      BY <2>4, <3>1, FS_Subset
  <2> HIDE DEF ahead
  <2> QED
    BY <2>3, <2>4, <2>5, <2>6
<1> QED
  BY <1>4, <1>5 DEF oldest

LEMMA ArrivalsStay ==
    ASSUME Arrivals, UNCHANGED before, room' \subseteq room,
           \A c \in Conn : pc'[c] = pc[c] \/ pc'[c] \notin {"new", "admitted", "upgraded"}
    PROVE  Arrivals'
BY DEF Arrivals

LEMMA UsersFinite ==
    ASSUME NEW r \in SUBSET Conn, NEW u
    PROVE  IsFiniteSet(Of(u, r)) /\ Cardinality(Of(u, r)) \in Nat
<1>1. Of(u, r) \in SUBSET Conn /\ IsFiniteSet(Conn)
  BY CrowdAssumption DEF Of
<1> QED
  BY <1>1, FS_Subset, FS_CardinalityType

\* A smaller room holds no more of anybody.
LEMMA UsersStay ==
    ASSUME Typed, UsersFit, room' \subseteq room
    PROVE  UsersFit'
<1> SUFFICES ASSUME NEW u \in Player
             PROVE  Cardinality(Of(u, room')) <= MaxConnsPerUser
  BY DEF UsersFit
<1>1. Of(u, room') \in SUBSET Of(u, room)
  BY DEF Of
<1>2. /\ IsFiniteSet(Of(u, room)) /\ Cardinality(Of(u, room)) \in Nat
      /\ Cardinality(Of(u, room')) \in Nat
  BY UsersFinite DEF Typed
<1>3. Cardinality(Of(u, room')) <= Cardinality(Of(u, room))
  BY <1>1, <1>2, FS_Subset
<1>4. Cardinality(Of(u, room)) <= MaxConnsPerUser /\ MaxConnsPerUser \in Nat
  BY RealtimeAssumption DEF UsersFit
<1> QED
  BY <1>2, <1>3, <1>4

\* A newcomer comes after all who stay, and for it the oldest goes if need be.
LEMMA RegisterKeepsOrder ==
    ASSUME Typed, SeatsFit, Arrivals, UsersFit, NEW c \in Conn, registerClient(c),
           handleRegister(c)
    PROVE  Arrivals' /\ UsersFit'
<1> DEFINE u       == UserOf[c]
           mine    == Of(u, room)
           victims == Victims(mine)
<1>1. /\ pc[c] = "upgraded" /\ pc' = [pc EXCEPT ![c] = "joined"]
      /\ room' = (room \ victims) \union {c}
      /\ before' = [before EXCEPT ![c] = mine \ victims]
  BY DEF handleRegister, registerClient, Goes
<1>2. /\ c \notin room /\ u \in Player /\ mine \subseteq room /\ room \subseteq Conn
      /\ victims \subseteq mine
  BY <1>1, RealtimeAssumption DEF SeatsFit, Typed, Of, Victims, oldest
<1>3. Arrivals'
  <2>1. /\ before' \in [Conn -> SUBSET Conn] /\ before'[c] = mine \ victims
        /\ \A d \in Conn \ {c} : before'[d] = before[d]
    BY <1>1, <1>2 DEF Arrivals
  <2>2. pc' \in [Conn -> Stage] /\ pc'[c] = "joined" /\ \A d \in Conn \ {c} : pc'[d] = pc[d]
    BY <1>1 DEF Typed, Stage
  <2>3. \A d \in room : pc[d] \notin {"new", "admitted", "upgraded"}
    BY DEF SeatsFit
  <2>4. \A d \in Conn : c \notin before[d]
    BY <1>1 DEF Arrivals
  <2>5. mine = {d \in room : UserOf[d] = UserOf[c]}
    BY DEF Of
  <2> HIDE DEF mine, victims, u
  <2>6. ASSUME NEW d \in Conn
        PROVE  /\ d \notin before'[d]
               /\ \A e \in before'[d] : /\ pc'[e] \notin {"new", "admitted", "upgraded"}
                                       /\ UserOf[e] = UserOf[d]
    <3>1. CASE d = c
      BY <1>2, <2>1, <2>2, <2>3, <2>5, <3>1
    <3>2. CASE d # c
      <4>1. before'[d] = before[d] /\ before[d] \subseteq Conn
        BY <2>1, <3>2 DEF Arrivals
      <4> QED
        BY <2>2, <2>4, <4>1 DEF Arrivals
    <3> QED
      BY <3>1, <3>2
  <2>7. ASSUME NEW d \in room', NEW e \in room', e \in before'[d]
        PROVE  before'[e] \intersect room' \subseteq before'[d]
    <3>1. e # c /\ e \in room /\ e \in Conn
      BY <1>1, <1>2, <2>1, <2>4, <2>7
    <3>2. before'[e] = before[e] /\ c \notin before[e]
      BY <2>1, <2>4, <3>1
    <3>3. CASE d = c
      <4>1. room' \ {c} \subseteq room \ victims /\ before'[d] = mine \ victims
        BY <1>1, <2>1, <3>3
      <4>2. \A x \in before[e] : UserOf[x] = UserOf[e]
        BY <3>1 DEF Arrivals
      <4> QED
        BY <1>2, <2>7, <2>5, <3>1, <3>2, <3>3, <4>1, <4>2
    <3>4. CASE d # c
      <4>1. d \in room /\ before'[d] = before[d]
        BY <1>1, <1>2, <2>1, <3>4
      <4>2. before[e] \intersect room \subseteq before[d]
        BY <2>7, <3>1, <4>1 DEF Arrivals
      <4> QED
        BY <1>1, <3>2, <4>1, <4>2
    <3> QED
      BY <3>3, <3>4
  <2> QED
    BY <2>1, <2>6, <2>7 DEF Arrivals
<1>4. UsersFit'
  <2> SUFFICES ASSUME NEW v \in Player
               PROVE  Cardinality(Of(v, room')) <= MaxConnsPerUser
    BY DEF UsersFit
  <2>1. MaxConnsPerUser \in Nat \ {0}
    BY RealtimeAssumption
  <2>2. /\ IsFiniteSet(Of(v, room)) /\ Cardinality(Of(v, room)) \in Nat
        /\ Cardinality(Of(v, room)) <= MaxConnsPerUser
    BY <1>2, UsersFinite DEF UsersFit
  <2>3. CASE v # u
    <3>1. Of(v, room') = Of(v, room)
      BY <1>1, <1>2, <2>3 DEF Of
    <3> QED
      BY <2>2, <3>1
  <2>4. CASE v = u
    <3>1. Of(v, room) = mine
      BY <2>4
    <3>2. Of(v, room') = (mine \ victims) \union {c} /\ c \notin mine \ victims
      BY <1>1, <1>2, <2>4 DEF Of
    <3>3. IsFiniteSet(mine \ victims) /\ Cardinality(mine \ victims) \in Nat
      <4>1. mine \ victims \in SUBSET mine
        OBVIOUS
      <4> QED
        BY <2>2, <3>1, <4>1, FS_Subset, FS_CardinalityType
    <3>4. Cardinality((mine \ victims) \union {c}) = Cardinality(mine \ victims) + 1
      BY <3>2, <3>3, FS_AddElement
    <3>5. Cardinality(mine \ victims) < MaxConnsPerUser
      <4>1. CASE Cardinality(mine) >= MaxConnsPerUser
        <5>1. mine # {}
          BY <2>1, <4>1, FS_EmptySet
        <5>2. oldest(mine) # {} /\ victims = oldest(mine)
          BY <1>2, <4>1, <5>1, SomeoneIsOldest DEF Victims
        <5>3. mine \ victims \in SUBSET mine /\ mine \ victims # mine
          BY <1>2, <5>2
        <5>4. /\ Cardinality(mine \ victims) <= Cardinality(mine)
              /\ Cardinality(mine) # Cardinality(mine \ victims)
          BY <2>2, <3>1, <5>3, FS_Subset
        <5> HIDE DEF mine, victims
        <5> QED
          BY <2>1, <2>2, <3>1, <3>3, <5>4
      <4>2. CASE Cardinality(mine) < MaxConnsPerUser
        <5>1. mine \ victims = mine
          BY <2>1, <2>2, <3>1, <4>2 DEF Victims
        <5> QED
          BY <4>2, <5>1
      <4> HIDE DEF mine, victims
      <4> QED
        BY <2>1, <2>2, <3>1, <4>1, <4>2
    <3> HIDE DEF mine, victims
    <3> QED
      BY <2>1, <3>2, <3>3, <3>4, <3>5
  <2> QED
    BY <2>3, <2>4
<1> QED
  BY <1>3, <1>4

LEMMA OrderStep ==
    ASSUME Typed, SeatsFit, Arrivals, UsersFit, [Next]_vars
    PROVE  Arrivals' /\ UsersFit'
<1>1. ASSUME UNCHANGED <<room, before>>,
             \A c \in Conn : pc'[c] = pc[c] \/ pc'[c] \notin {"new", "admitted", "upgraded"}
      PROVE  Arrivals' /\ UsersFit'
  BY <1>1, ArrivalsStay, UsersStay
<1>2. CASE UNCHANGED vars
  BY <1>1, <1>2 DEF vars, members, stages
<1>4. ASSUME NEW c \in Conn, tryAcquire(c) \/ Upgrade(c)
      PROVE  Arrivals' /\ UsersFit'
  <2>1. /\ pc[c] \in {"new", "admitted"} /\ pc \in [Conn -> Stage]
        /\ pc' = [pc EXCEPT ![c] = pc'[c]]
        /\ UNCHANGED <<room, before>>
    BY <1>4 DEF tryAcquire, Upgrade, Goes, Typed, members
  <2>2. UsersFit'
    BY <2>1, UsersStay
  <2>3. \A d \in Conn : c \notin before[d]
    BY <2>1 DEF Arrivals
  <2>4. \A d \in Conn \ {c} : pc'[d] = pc[d]
    BY <2>1
  <2>5. Arrivals'
    BY <2>1, <2>3, <2>4 DEF Arrivals
  <2> QED
    BY <2>2, <2>5
<1>5. ASSUME NEW c \in Conn, NEW goes, goes \notin {"new", "admitted", "upgraded"}, Goes(c, goes),
             UNCHANGED <<room, before>>
      PROVE  Arrivals' /\ UsersFit'
  <2>1. \A d \in Conn : pc'[d] = pc[d] \/ pc'[d] \notin {"new", "admitted", "upgraded"}
    BY <1>5 DEF Goes, Typed
  <2> QED
    BY <1>1, <1>5, <2>1
<1>3. ASSUME NEW c \in Conn, registerClient(c)
      PROVE  Arrivals' /\ UsersFit'
  BY <1>3, <1>5, RegisterKeepsOrder DEF registerClient, members
<1>6. ASSUME NEW c \in Conn, SnapshotSends(c) \/ PumpsEnd(c) \/ release(c)
      PROVE  Arrivals' /\ UsersFit'
  BY <1>5, <1>6 DEF SnapshotSends, PumpsEnd, release, members
<1>14. ASSUME NEW c \in Conn, SnapshotReads(c)
       PROVE  Arrivals' /\ UsersFit'
  <2>1. UNCHANGED <<room, before>>
    BY <1>14 DEF SnapshotReads, members
  <2>2. \A d \in Conn : pc'[d] = pc[d] \/ pc'[d] \in {"seen", "live"}
    BY <1>14 DEF SnapshotReads, Goes, Typed
  <2>3. \A d \in Conn : pc'[d] = pc[d] \/ pc'[d] \notin {"new", "admitted", "upgraded"}
    BY <2>2
  <2> QED
    BY <1>1, <2>1, <2>3
<1>7. ASSUME NEW c \in Conn, unregisterClient(c)
      PROVE  Arrivals' /\ UsersFit'
  <2>1. CASE UNCHANGED <<room, before>>
    BY <1>5, <1>7, <2>1 DEF unregisterClient
  <2>2. CASE room' = room \ {c} /\ before' = [before EXCEPT ![c] = {}]
    <3>1. UsersFit'
      BY <2>2, UsersStay
    <3>2. /\ before' \in [Conn -> SUBSET Conn] /\ before'[c] = {}
          /\ \A d \in Conn \ {c} : before'[d] = before[d]
      BY <2>2 DEF Arrivals
    <3>3. /\ pc' \in [Conn -> Stage] /\ pc'[c] = "left"
          /\ \A d \in Conn \ {c} : pc'[d] = pc[d]
      BY <1>7 DEF unregisterClient, Goes, Typed, Stage
    <3>4. Arrivals'
      BY <2>2, <3>2, <3>3 DEF Arrivals, Typed
    <3> QED
      BY <3>1, <3>4
  <2> QED
    BY <1>7, <2>1, <2>2 DEF unregisterClient, handleUnregister
<1>8. ASSUME NEW c \in Conn, writePump(c) \/ readPump(c) \/ SocketEnds(c)
      PROVE  Arrivals' /\ UsersFit'
  BY <1>1, <1>8 DEF writePump, readPump, SocketEnds, members, stages
<1>9. CASE handlePublish \/ Cancel
  BY <1>1, <1>9 DEF handlePublish, Cancel, members, stages
<1>10. CASE shutdown
  <2>1. room' = {} /\ before' = [c \in Conn |-> {}]
    BY <1>10 DEF shutdown
  <2> QED
    BY <2>1, UsersStay DEF Arrivals
<1>11. ASSUME NEW f \in fanouts, FanoutReads(f) \/ FanoutSends(f)
       PROVE  Arrivals' /\ UsersFit'
  BY <1>1, <1>11 DEF FanoutReads, FanoutSends, members, stages
<1>12. ASSUME NEW k \in Kinds, Commit(k)
       PROVE  Arrivals' /\ UsersFit'
  BY <1>1, <1>12 DEF Commit, members, stages
<1>13. ASSUME NEW ev \in unsent, enqueue(ev)
       PROVE  Arrivals' /\ UsersFit'
  BY <1>1, <1>13 DEF enqueue, members, stages
<1> QED
  BY <1>2, <1>3, <1>4, <1>6, <1>7, <1>8, <1>9, <1>10, <1>11, <1>12, <1>13, <1>14
     DEF Next, Connect

(***************************************************************************)
(* All of them together.                                                   *)
(***************************************************************************)
LEMMA BoundInvariant == Spec => []BoundInv
<1>1. Init => BoundInv
  <2> SUFFICES ASSUME Init
               PROVE  BoundInv
    OBVIOUS
  <2>1. elsewhere \in Elsewhere /\ perIP = elsewhere
    BY DEF Init
  <2>2. elsewhere \in [IPs -> Nat] /\ \A ip \in IPs : elsewhere[ip] <= MaxConnsPerIP
    BY <2>1, RealtimeAssumption, CrowdAssumption
  <2>3. SumFunction(elsewhere) = FoldFunction(+, 0, elsewhere)
    BY DEF SumFunction, SumFunctionOnSet, FoldFunction
  <2>4. total = SumFunction(perIP) /\ total <= MaxConns
    BY <2>1, <2>3, CrowdAssumption DEF Init
  <2>5. total \in Int
    <3>1. elsewhere \in [IPs -> Int] /\ total = SumFunction(elsewhere) /\ IsFiniteSet(IPs)
      BY <2>1, <2>2, <2>4, HeldFinite
    <3>2. CASE IPs = {}
      <4>1. \A ip \in IPs : elsewhere[ip] = 0
        BY <3>2
      <4>2. SumFunction(elsewhere) = 0
        BY <3>1, <4>1, SumOfNothing
      <4> QED
        BY <3>1, <4>2
    <3>3. CASE IPs # {}
      <4>1. PICK ip \in IPs : TRUE
        BY <3>3
      <4> QED
        BY <3>1, <4>1, SumChange
    <3> QED
      BY <3>2, <3>3
  <2>6. \A ip \in IPs : Held(ip) = {}
    BY DEF Held, Holds, Init
  <2>7. Cardinality({}) = 0
    BY FS_EmptySet
  <2>8. CountsFit
    <3>1. \A ip \in IPs : elsewhere[ip] \in Nat /\ elsewhere[ip] = elsewhere[ip] + 0
      BY <2>2
    <3>2. \A ip \in IPs : elsewhere[ip] = elsewhere[ip] + Cardinality(Held(ip))
      BY <2>6, <2>7, <3>1
    <3>3. elsewhere \in [IPs -> Int]
      BY <2>2
    <3> QED
      BY <2>1, <2>2, <2>4, <2>5, <3>2, <3>3 DEF CountsFit
  <2>9. LoadsFit
    <3>1. 0 \in 0 .. SendBuffer
      BY RealtimeAssumption
    <3>2. load = [c \in Conn |-> 0]
      BY DEF Init
    <3> QED
      BY <3>1, <3>2 DEF LoadsFit
  <2>10. Arrivals
    BY DEF Arrivals, Init
  <2>11. UsersFit
    <3>1. \A u \in Player : Of(u, room) = {}
      BY DEF Of, Init
    <3>2. 0 <= MaxConnsPerUser
      BY RealtimeAssumption
    <3> QED
      BY <2>7, <3>1, <3>2 DEF UsersFit
  <2> QED
    BY <2>8, <2>9, <2>10, <2>11 DEF BoundInv
<1>2. RoomInv /\ BoundInv /\ [Next]_vars => BoundInv'
  BY CountsStep, LoadsStep, OrderStep DEF RoomInv, BoundInv
<1> QED
  BY <1>1, <1>2, RoomInvariant, PTL DEF Spec

\* The limiter counts exactly the calls that hold a slot and keeps to its caps
\* (limiter.go), no user has more clients in the room than the hub allows, since
\* one is always the oldest and goes, and no buffer is overrun (hub.go, conn.go).
THEOREM NothingOverflows == Spec => []Bounded
<1>1. RoomInv /\ BoundInv => Bounded
  <2> SUFFICES ASSUME RoomInv, BoundInv
               PROVE  Bounded
    OBVIOUS
  <2>1. SumFunction(perIP) = FoldFunction(+, 0, perIP)
    BY DEF SumFunction, SumFunctionOnSet, FoldFunction
  <2> QED
    BY <2>1 DEF RoomInv, SeatsFit, BoundInv, CountsFit, Held, LoadsFit, UsersFit, Bounded
<1> QED
  BY <1>1, RoomInvariant, BoundInvariant, PTL
=============================================================================
