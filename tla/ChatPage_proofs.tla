----------------------------- MODULE ChatPage_proofs ----------------------------
(***************************************************************************)
(* Proofs about ChatPage: PageInv is inductive for any number of sockets,  *)
(* clicks, renames, rooms and messages, and the safety properties of the   *)
(* page follow from it.                                                    *)
(***************************************************************************)
EXTENDS ChatPage, FiniteSetTheorems, TLAPS

USE PageAssumption

(***************************************************************************)
(* Sockets.                                                                *)
(***************************************************************************)

ReadyStates == {"unused", "connecting", "open", "closing", "closed"}

\* Sockets that can still close.
AliveIn(states) == {s \in Socks : states[s] \in {"connecting", "open", "closing"}}

LEMMA AliveFinite ==
    ASSUME NEW states
    PROVE  IsFiniteSet(AliveIn(states)) /\ Cardinality(AliveIn(states)) \in Nat
<1>1. IsFiniteSet(Socks)
  BY FS_Interval DEF Socks
<1>2. AliveIn(states) \subseteq Socks
  BY DEF AliveIn
<1>3. QED BY <1>1, <1>2, FS_Subset, FS_CardinalityType

\* A socket that opens is one more that can close, one that closes one less.
LEMMA AliveMore ==
    ASSUME NEW states, NEW s \in Socks, s \notin AliveIn(states), NEW states2,
           AliveIn(states2) = AliveIn(states) \cup {s}
    PROVE  Cardinality(AliveIn(states2)) = Cardinality(AliveIn(states)) + 1
BY AliveFinite, FS_AddElement

LEMMA AliveLess ==
    ASSUME NEW states, NEW s \in AliveIn(states), NEW states2,
           AliveIn(states2) = AliveIn(states) \ {s}
    PROVE  Cardinality(AliveIn(states2)) = Cardinality(AliveIn(states)) - 1
BY AliveFinite, FS_RemoveElement

LEMMA BoundedShape ==
    SocketsBounded <=> Cardinality(AliveIn(readyState)) + timers \in 1 .. 1 + reconnects
BY DEF SocketsBounded, Alive, AliveIn

\* A step that keeps the number of sockets and timers, or adds one more for a
\* reconnection, keeps the bounds.
LEMMA BoundedKept ==
    ASSUME TypeOK, SocketsBounded, reconnects' \in Nat, timers' \in Nat,
           NEW n \in {0, 1},
           reconnects' = reconnects + n,
           Cardinality(AliveIn(readyState')) + timers' =
               Cardinality(AliveIn(readyState)) + timers + n
    PROVE  SocketsBounded'
<1>1. /\ Cardinality(AliveIn(readyState)) \in Nat
      /\ Cardinality(AliveIn(readyState')) \in Nat
  BY AliveFinite
<1>2. Cardinality(AliveIn(readyState)) + timers \in 1 .. 1 + reconnects
  BY BoundedShape
<1>3. Cardinality(AliveIn(readyState')) + timers' \in 1 .. 1 + reconnects'
  BY <1>1, <1>2 DEF TypeOK
<1>4. QED BY <1>3 DEF SocketsBounded, Alive, AliveIn

\* connectWebSocket takes the first socket that has not been used.
LEMMA NextSocketFirst ==
    ASSUME TypeOK, SocketsSound, Unused # {}
    PROVE  /\ NextSocket \in Socks
           /\ readyState[NextSocket] = "unused"
           /\ Unused = NextSocket .. MaxSockets
           /\ NextSocket > 1
<1>1. PICK n \in 2 .. MaxSockets + 1 : Unused = n .. MaxSockets
  BY DEF SocketsSound
<1>2. n \in Unused /\ \A t \in Unused : n <= t
  BY <1>1
<1>3. \A t \in Unused : (\A u \in Unused : t <= u) => t = n
  BY <1>1, <1>2
<1>4. NextSocket = n
  BY <1>2, <1>3 DEF NextSocket
<1>5. QED BY <1>1, <1>2, <1>4 DEF Unused

\* What connectWebSocket does to the sockets, when those before it are in states.
LEMMA Connects ==
    ASSUME TypeOK, SocketsSound, NEW states \in [Socks -> ReadyStates],
           \A s \in Socks : states[s] = "unused" <=> readyState[s] = "unused",
           ConnectWebSocket(states), UNCHANGED <<requests, rowName>>,
           \A s \in Socks : states[s] = "open" => readyState[s] = "open"
    PROVE  /\ SocketsSound'
           /\ ws' \in Socks /\ readyState' \in [Socks -> ReadyStates]
           /\ rowName[ws'] = None
           /\ \A s \in Socks : readyState'[s] # "closed" => states[s] # "closed"
           /\ Cardinality(AliveIn(readyState')) = Cardinality(AliveIn(states)) + 1
<1>1. PICK c \in Socks : /\ c = NextSocket /\ c > 1
                         /\ readyState[c] = "unused"
                         /\ Unused = c .. MaxSockets
  BY NextSocketFirst DEF ConnectWebSocket
<1>2. ws' = c /\ readyState' = [states EXCEPT ![c] = "connecting"]
  BY <1>1 DEF ConnectWebSocket
<1>3. Unused' = Unused \ {c}
  BY <1>1, <1>2 DEF Unused
<1>4. Unused' = c + 1 .. MaxSockets /\ c + 1 \in 2 .. MaxSockets + 1
  BY <1>1, <1>3 DEF Socks
<1>5. SocketsSound'
  BY <1>1, <1>2, <1>4 DEF SocketsSound
<1>6. AliveIn(readyState') = AliveIn(states) \cup {c} /\ c \notin AliveIn(states)
  BY <1>1, <1>2 DEF AliveIn
<1>7. Cardinality(AliveIn(readyState')) = Cardinality(AliveIn(states)) + 1
  BY <1>6, AliveMore
<1>8. readyState' \in [Socks -> ReadyStates] /\ ws' \in Socks
  BY <1>2 DEF ReadyStates
<1>9. rowName[ws'] = None
  BY <1>1, <1>2 DEF SocketsSound
<1>10. \A s \in Socks : readyState'[s] # "closed" => states[s] # "closed"
  BY <1>1, <1>2
<1>11. QED BY <1>5, <1>7, <1>8, <1>9, <1>10

(***************************************************************************)
(* What the steps that leave the screen alone leave of the invariant.      *)
(***************************************************************************)

\* No socket that was closed is open again.
NoneReopens == \A s \in Socks : readyState'[s] # "closed" => readyState[s] # "closed"

\* What PageInv says of the screen.
ScreenSound == LoadsSound /\ NothingMissed /\ LiveFramesOfRoom /\ StraysAreLate

\* A step that leaves the screen, and the frames of the sockets that stay, alone.
LEMMA ScreenKept ==
    ASSUME ScreenSound, UNCHANGED <<screen, posted>>, NoneReopens,
           \A s \in Socks : readyState'[s] # "closed" => frames'[s] = frames[s]
    PROVE  ScreenSound'
<1>1. LoadsSound' /\ LiveFramesOfRoom' /\ StraysAreLate'
  BY DEF ScreenSound, LoadsSound, LiveFramesOfRoom, StraysAreLate, screen
<1>2. \A r, m : Shown(r, m)' = Shown(r, m)
  BY DEF Shown, screen
<1>3. NothingMissed'
  BY <1>2 DEF ScreenSound, NothingMissed, NoneReopens, screen
<1>4. QED BY <1>1, <1>3 DEF ScreenSound

LEMMA NamesKept ==
    ASSUME NamesSound, UNCHANGED <<ws, shownName, saving, saved, name, rowName, requests>>
    PROVE  NamesSound'
BY DEF NamesSound

LEMMA SocketsKept ==
    ASSUME SocketsSound, SocketsBounded,
           UNCHANGED <<ws, readyState, timers, reconnects, rowName>>,
           \A s \in Socks : requests'[s] # {} => requests[s] # {} \/ rowName[s] # None
    PROVE  SocketsSound' /\ SocketsBounded'
BY DEF SocketsSound, SocketsBounded, Alive, Unused

(***************************************************************************)
(* The steps of the sockets.                                               *)
(***************************************************************************)

LEMMA OpenStep ==
    ASSUME PageInv, NEW s \in Socks, Open(s)
    PROVE  PageInv'
<1> USE DEF PageInv, ScreenSound
<1>1. /\ readyState[s] = "connecting" /\ rowName[s] # None
      /\ readyState' = [readyState EXCEPT ![s] = "open"]
      /\ UNCHANGED <<ws, timers, screen, naming, network, server>>
  BY DEF Open
<1>2. TypeOK'
  BY <1>1 DEF TypeOK, screen, naming, network, server
<1>3. SocketsSound'
  <2>1. Unused' = Unused
    BY <1>1 DEF Unused, TypeOK
  <2>2. QED BY <1>1, <2>1 DEF SocketsSound, TypeOK, network, server
<1>4. SocketsBounded'
  <2>1. AliveIn(readyState') = AliveIn(readyState)
    BY <1>1 DEF AliveIn, TypeOK
  <2>2. reconnects' = reconnects /\ timers' = timers
    BY <1>1 DEF naming
  <2>3. QED BY <2>1, <2>2 DEF SocketsBounded, Alive, AliveIn
<1>5. ScreenSound'
  <2>1. NoneReopens
    BY <1>1 DEF NoneReopens, TypeOK
  <2>2. QED BY <1>1, <2>1, ScreenKept DEF network, server
<1>6. NamesSound' /\ NewMessagesUseName'
  BY <1>1, NamesKept DEF naming, network, server, NewMessagesUseName
<1>7. QED BY <1>2, <1>3, <1>4, <1>5, <1>6

LEMMA CloseStep ==
    ASSUME PageInv, NEW s \in Socks, Close(s)
    PROVE  PageInv'
<1> USE DEF PageInv, ScreenSound
<1>1. /\ readyState[s] \in {"connecting", "open", "closing"}
      /\ readyState' = [readyState EXCEPT ![s] = "closed"]
      /\ timers' = timers + 1
      /\ frames' = [frames EXCEPT ![s] = {}]
      /\ UNCHANGED <<ws, screen, naming, requests, server>>
  BY DEF Close
<1>2. TypeOK'
  BY <1>1 DEF TypeOK, screen, naming, server
<1>3. SocketsSound'
  <2>1. Unused' = Unused
    BY <1>1 DEF Unused, TypeOK
  <2>2. QED BY <1>1, <2>1 DEF SocketsSound, TypeOK, server
<1>4. SocketsBounded'
  <2>1. AliveIn(readyState') = AliveIn(readyState) \ {s} /\ s \in AliveIn(readyState)
    BY <1>1 DEF AliveIn, TypeOK
  <2>2. Cardinality(AliveIn(readyState')) = Cardinality(AliveIn(readyState)) - 1
    BY <2>1, AliveLess
  <2>3. Cardinality(AliveIn(readyState')) + timers' =
           Cardinality(AliveIn(readyState)) + timers + 0
    BY <1>1, <2>2, AliveFinite DEF TypeOK
  <2>4. reconnects' = reconnects + 0 /\ reconnects' \in Nat /\ timers' \in Nat
    BY <1>1, <1>2 DEF naming, TypeOK
  <2>5. QED BY <2>3, <2>4, BoundedKept
<1>5. ScreenSound'
  <2>1. NoneReopens /\ \A t \in Socks : readyState'[t] # "closed" => frames'[t] = frames[t]
    BY <1>1 DEF NoneReopens, TypeOK
  <2>2. QED BY <1>1, <2>1, ScreenKept DEF server
<1>6. NamesSound' /\ NewMessagesUseName'
  BY <1>1, NamesKept DEF naming, server, NewMessagesUseName
<1>7. QED BY <1>2, <1>3, <1>4, <1>5, <1>6

LEMMA TimeoutStep ==
    ASSUME PageInv, Timeout
    PROVE  PageInv'
<1> USE DEF PageInv, ScreenSound
<1>1. /\ timers > 0 /\ timers' = timers - 1
      /\ ConnectWebSocket(readyState)
      /\ UNCHANGED <<screen, naming, network, server>>
  BY DEF Timeout
<1>2. /\ SocketsSound'
      /\ ws' \in Socks /\ readyState' \in [Socks -> ReadyStates]
      /\ rowName[ws'] = None
      /\ NoneReopens
      /\ Cardinality(AliveIn(readyState')) = Cardinality(AliveIn(readyState)) + 1
  BY <1>1, Connects DEF TypeOK, ReadyStates, NoneReopens, network, server
<1>3. TypeOK'
  BY <1>1, <1>2 DEF TypeOK, ReadyStates, screen, naming, network, server
<1>4. SocketsBounded'
  <2>1. Cardinality(AliveIn(readyState')) + timers' =
           Cardinality(AliveIn(readyState)) + timers + 0
    BY <1>1, <1>2, AliveFinite DEF TypeOK
  <2>2. reconnects' = reconnects + 0 /\ reconnects' \in Nat /\ timers' \in Nat
    BY <1>1, <1>3 DEF naming, TypeOK
  <2>3. QED BY <2>1, <2>2, BoundedKept
<1>5. NamesSound'
  BY <1>1, <1>2 DEF NamesSound, naming, network, server
<1>6. ScreenSound' /\ NewMessagesUseName'
  BY <1>1, <1>2, ScreenKept DEF network, server, NewMessagesUseName
<1>7. QED BY <1>2, <1>3, <1>4, <1>5, <1>6

LEMMA DisplayNameSavedStep ==
    ASSUME PageInv, NEW n \in saved, DisplayNameSaved(n)
    PROVE  PageInv'
<1> USE DEF PageInv, ScreenSound
<1>1. /\ saved' = saved \ {n} /\ shownName' = n /\ reconnects' = reconnects + 1
      /\ ConnectWebSocket(Disconnected(readyState, ws))
      /\ UNCHANGED <<timers, screen, saving, network, server>>
  BY DEF DisplayNameSaved
<1>2. PICK states : states = Disconnected(readyState, ws)
  OBVIOUS
<1>3. /\ states \in [Socks -> ReadyStates]
      /\ \A s \in Socks : /\ states[s] = "unused" <=> readyState[s] = "unused"
                          /\ states[s] = "open" => readyState[s] = "open"
                          /\ states[s] = "closed" <=> readyState[s] = "closed"
      /\ AliveIn(states) = AliveIn(readyState)
  BY <1>2 DEF Disconnected, TypeOK, ReadyStates, SocketsSound, AliveIn
<1>4. /\ SocketsSound'
      /\ ws' \in Socks /\ readyState' \in [Socks -> ReadyStates]
      /\ rowName[ws'] = None
      /\ NoneReopens
      /\ Cardinality(AliveIn(readyState')) = Cardinality(AliveIn(readyState)) + 1
  BY <1>1, <1>2, <1>3, Connects DEF NoneReopens, network, server
<1>5. TypeOK'
  BY <1>1, <1>4 DEF TypeOK, ReadyStates, screen, network, server
<1>6. SocketsBounded'
  <2>1. Cardinality(AliveIn(readyState')) + timers' =
           Cardinality(AliveIn(readyState)) + timers + 1
    BY <1>1, <1>4, AliveFinite DEF TypeOK
  <2>2. reconnects' = reconnects + 1 /\ reconnects' \in Nat /\ timers' \in Nat
    BY <1>1, <1>5 DEF TypeOK
  <2>3. QED BY <2>1, <2>2, BoundedKept
<1>7. NamesSound'
  BY <1>1, <1>4 DEF NamesSound, network, server
<1>8. ScreenSound' /\ NewMessagesUseName'
  BY <1>1, <1>4, ScreenKept DEF network, server, NewMessagesUseName
<1>9. QED BY <1>4, <1>5, <1>6, <1>7, <1>8

\* The name the connection gets is at least as new as the one on screen.
LEMMA ServerConnectsStep ==
    ASSUME PageInv, NEW s \in Socks, ServerConnects(s)
    PROVE  PageInv'
<1> USE DEF PageInv, ScreenSound
<1>1. /\ readyState[s] = "connecting" /\ rowName[s] = None
      /\ rowName' = [rowName EXCEPT ![s] = name]
      /\ UNCHANGED <<sockets, screen, naming, network, listed, posted, name, log>>
  BY DEF ServerConnects
<1>2. TypeOK'
  BY <1>1 DEF TypeOK, sockets, screen, naming, network
<1>3. name # None
  BY DEF TypeOK, Names
<1>4. SocketsSound'
  BY <1>1, <1>3 DEF SocketsSound, TypeOK, Unused, sockets, network
<1>5. SocketsBounded'
  BY <1>1 DEF SocketsBounded, Alive, sockets, naming
<1>6. NamesSound'
  <2>1. rowName'[ws] # None => shownName <= rowName'[ws]
    BY <1>1 DEF NamesSound, TypeOK
  <2>2. \A t \in Socks : requests[t] # {} => rowName'[t] = rowName[t]
    BY <1>1 DEF SocketsSound, TypeOK
  <2>3. QED BY <1>1, <2>1, <2>2 DEF NamesSound, sockets, naming, network
<1>7. NoneReopens
  BY <1>1 DEF NoneReopens, sockets
<1>8. ScreenSound' /\ NewMessagesUseName'
  BY <1>1, <1>7, ScreenKept DEF network, NewMessagesUseName
<1>9. QED BY <1>2, <1>4, <1>5, <1>6, <1>8

(***************************************************************************)
(* The steps of the rooms and messages.                                    *)
(***************************************************************************)

\* The click empties the area, and no frame has been sent since.
LEMMA SelectRoomStep ==
    ASSUME PageInv, NEW r \in Rooms, SelectRoom(r)
    PROVE  PageInv'
<1> USE DEF PageInv, ScreenSound
<1>1. PICK k \in Selections : k = selection + 1
  BY DEF SelectRoom, TypeOK, Selections
<1>2. PICK q \in Request :
         q = [action |-> "joinRoom", room |-> r, msg |-> None, asked |-> 0]
  <2>1. [action |-> "joinRoom", room |-> r, msg |-> None, asked |-> 0] \in Request
    BY DEF Request, Names
  <2>2. QED BY <2>1
<1>3. PICK l \in Load : /\ l = [NoLoad EXCEPT !.state = "sent", !.room = r]
                       /\ l.state = "sent" /\ l.room = r
  <2> DEFINE l == [NoLoad EXCEPT !.state = "sent", !.room = r]
  <2>1. 0 \in 0 .. MaxSelections
    OBVIOUS
  <2>2. NoLoad \in Load
    BY <2>1 DEF NoLoad, Load
  <2>3. l \in Load /\ l.state = "sent" /\ l.room = r
    BY <2>2 DEF Load
  <2> HIDE DEF l
  <2>4. \E x \in Load : x = l /\ x.state = "sent" /\ x.room = r
    BY <2>3
  <2>5. QED BY <2>4 DEF l
<1>4. /\ selection' = k /\ area' = {} /\ currentRoomId' = r
      /\ load' = [load EXCEPT ![k] = l]
      /\ WsSend(q)
      /\ UNCHANGED <<sockets, naming, frames, server>>
  BY <1>1, <1>2, <1>3 DEF SelectRoom
<1>5. /\ requests' \in [Socks -> SUBSET Request]
      /\ \A s \in Socks : /\ requests[s] \subseteq requests'[s]
                          /\ \A p \in requests'[s] : p \in requests[s] \/ p = q
                          /\ requests'[s] # {} => requests[s] # {} \/ rowName[s] # None
  BY <1>4 DEF WsSend, TypeOK, SocketsSound
<1>6. TypeOK'
  BY <1>1, <1>4, <1>5 DEF TypeOK, sockets, naming, server, Selections
<1>7. SocketsSound' /\ SocketsBounded'
  BY <1>4, <1>5, SocketsKept DEF sockets, naming, server
<1>8. NamesSound'
  BY <1>2, <1>4, <1>5 DEF NamesSound, sockets, naming, server
<1>9. /\ load'[k] = l /\ \A j \in Selections \ {k} : load'[j] = load[j]
      /\ posted' = posted /\ selection \in Nat
      /\ \A s \in Socks : \A p \in posted[s] : p.click <= selection /\ p.click \in Nat
  BY <1>4 DEF TypeOK, LoadsSound, Post, server
<1>10. LoadsSound'
  <2>1. \A j \in Selections : (j <= selection' <=> load'[j].state # "none")
                             /\ (j <= selection' => load'[j].room \in Rooms)
                             /\ (j = selection' => load'[j].room = r)
    <3>1. TAKE j \in Selections
    <3>2. CASE j = k
      <4>1. selection' = k /\ k <= k
        BY <1>4 DEF Selections
      <4>2. load'[j].state # "none" /\ load'[j].room = r
        BY <1>3, <1>9, <3>2
      <4>3. QED BY <4>1, <4>2, <3>2
    <3>3. CASE j # k
      BY <1>1, <1>4, <1>9, <3>3 DEF LoadsSound, Selections
    <3>4. QED BY <3>2, <3>3
  <2>2. \A s \in Socks : \A p \in posted'[s] : p.click <= selection'
    BY <1>1, <1>4, <1>9 DEF Selections
  <2>3. QED BY <1>4, <2>1, <2>2 DEF LoadsSound
<1>11. NothingMissed'
  <2>1. \A s \in Socks : \A p \in posted'[s] : p.click # selection'
    BY <1>1, <1>4, <1>9
  <2>2. load'[k].state # "shown"
    BY <1>3, <1>9
  <2>3. QED BY <1>4, <2>1, <2>2 DEF NothingMissed
<1>12. LiveFramesOfRoom' /\ StraysAreLate' /\ NewMessagesUseName'
  BY <1>4 DEF LiveFramesOfRoom, StraysAreLate, NewMessagesUseName, server
<1>13. QED BY <1>6, <1>7, <1>8, <1>10, <1>11, <1>12

\* A history for another room than the one on screen is of an earlier click.
LEMMA HistoryArrivesStep ==
    ASSUME PageInv, NEW k \in Selections, HistoryArrives(k)
    PROVE  PageInv'
<1> USE DEF PageInv, ScreenSound
<1>1. /\ load[k] \in Load /\ load[k].state = "answered"
      /\ load' = [load EXCEPT ![k].state = "shown", ![k].at = selection]
      /\ area' = area \cup [via : {"history"}, room : {load[k].room}, msg : load[k].msgs]
      /\ UNCHANGED <<sockets, currentRoomId, selection, naming, network, server>>
  BY DEF HistoryArrives, TypeOK
<1>2. /\ k <= selection /\ load[k].room \in Rooms
      /\ selection \in 0 .. MaxSelections
  BY <1>1 DEF LoadsSound, TypeOK
<1>3. \A j \in Selections :
         /\ load'[j].room = load[j].room /\ load'[j].msgs = load[j].msgs
         /\ j # k => load'[j] = load[j]
         /\ j = k => load'[j].state = "shown" /\ load'[j].at = selection
  BY <1>1 DEF TypeOK, Load
<1>4. TypeOK'
  <2>1. load' \in [Selections -> Load]
    BY <1>1, <1>2 DEF TypeOK, Load
  <2>2. area' \subseteq Entry
    BY <1>1, <1>2 DEF TypeOK, Entry, Load
  <2>3. QED BY <1>1, <2>1, <2>2 DEF TypeOK, sockets, naming, network, server
<1>5. SocketsSound' /\ SocketsBounded' /\ NamesSound'
  BY <1>1, SocketsKept, NamesKept DEF sockets, naming, network, server
<1>6. LoadsSound'
  BY <1>1, <1>2, <1>3 DEF LoadsSound, server
<1>7. NothingMissed'
  <2>1. \A r, m : Shown(r, m) => Shown(r, m)'
    <3>1. area \subseteq area'
      BY <1>1
    <3>2. QED BY <3>1 DEF Shown
  <2>2. \A m \in load[k].msgs : Shown(load[k].room, m)'
    <3>1. \A m \in load[k].msgs :
             [via |-> "history", room |-> load[k].room, msg |-> m] \in area'
      BY <1>1
    <3>2. QED BY <1>3, <3>1 DEF Shown
  <2>3. ASSUME NEW j \in Selections, j = selection, load'[j].state = "shown",
               NEW m \in load'[j].msgs
        PROVE  Shown(load[j].room, m)'
    <3>1. CASE j = k
      BY <1>3, <2>2, <2>3, <3>1
    <3>2. CASE j # k
      BY <1>3, <2>1, <2>3, <3>2 DEF NothingMissed
    <3>3. QED BY <3>1, <3>2
  <2>4. \A s \in Socks : readyState[s] # "closed" =>
           \A p \in posted[s] : p.room = currentRoomId /\ p.click = selection =>
              Shown(p.room, p.msg)' \/ [room |-> p.room, msg |-> p.msg] \in frames[s]
    BY <2>1 DEF NothingMissed
  <2>5. (\A j \in Selections : j = selection /\ load[j].state = "shown" =>
            \A m \in load[j].msgs : Shown(load[j].room, m))'
    BY <1>1, <1>3, <2>3 DEF Shown
  <2>6. QED BY <1>1, <2>4, <2>5 DEF NothingMissed, sockets, network, server, Shown
<1>8. StraysAreLate'
  <2> SUFFICES ASSUME NEW e \in area', e.room # currentRoomId
               PROVE  /\ e.via = "history"
                      /\ \E j \in Selections :
                            j < selection /\ load'[j].room = e.room /\ load'[j].at = selection
    BY <1>1 DEF StraysAreLate
  <2>1. CASE e \in area
    <3>1. PICK j \in Selections :
             j < selection /\ load[j].room = e.room /\ load[j].at = selection
      BY <2>1 DEF StraysAreLate
    <3>2. load'[j].room = e.room /\ load'[j].at = selection
      BY <1>3, <3>1
    <3>3. QED BY <2>1, <3>1, <3>2 DEF StraysAreLate
  <2>2. CASE e \notin area
    <3>1. e.via = "history" /\ e.room = load[k].room
      BY <1>1, <2>2
    <3>2. k # selection
      BY <3>1 DEF LoadsSound
    <3>3. k < selection
      BY <1>2, <3>2 DEF Selections
    <3>4. load'[k].room = e.room /\ load'[k].at = selection
      BY <1>3, <3>1
    <3>5. QED BY <3>1, <3>3, <3>4
  <2>3. QED BY <2>1, <2>2
<1>9. LiveFramesOfRoom' /\ NewMessagesUseName'
  BY <1>1 DEF LiveFramesOfRoom, NewMessagesUseName, server
<1>10. QED BY <1>4, <1>5, <1>6, <1>7, <1>8, <1>9

\* What the server, or the network, does to a request for a history puts nothing on
\* screen, and takes nothing away.
LEMMA LoadMoves ==
    ASSUME PageInv, NEW k \in Selections, NEW l \in Load,
           load[k].state \in {"sent", "answered"}, l.state \in {"answered", "failed"},
           l.room = load[k].room, l.at = load[k].at,
           load' = [load EXCEPT ![k] = l],
           UNCHANGED <<sockets, currentRoomId, area, selection, naming, network, server>>
    PROVE  PageInv'
<1> USE DEF PageInv, ScreenSound
<1>1. /\ \A j \in Selections : /\ load'[j].room = load[j].room
                               /\ load'[j].at = load[j].at
                               /\ load'[j].state # "none" <=> load[j].state # "none"
                               /\ load'[j].state = "shown" => load'[j] = load[j]
      /\ load' \in [Selections -> Load]
  BY DEF TypeOK
<1>2. TypeOK'
  BY <1>1 DEF TypeOK, sockets, naming, network, server
<1>3. SocketsSound' /\ SocketsBounded' /\ NamesSound'
  BY SocketsKept, NamesKept DEF sockets, naming, network, server
<1>4. LoadsSound' /\ StraysAreLate'
  BY <1>1 DEF LoadsSound, StraysAreLate, server
<1>5. NothingMissed'
  BY <1>1 DEF NothingMissed, Shown, sockets, network, server
<1>6. LiveFramesOfRoom' /\ NewMessagesUseName'
  BY DEF LiveFramesOfRoom, NewMessagesUseName, server
<1>7. QED BY <1>2, <1>3, <1>4, <1>5, <1>6

LEMMA HistoryFailsStep ==
    ASSUME PageInv, NEW k \in Selections, HistoryFails(k)
    PROVE  PageInv'
<1>1. load[k] \in Load
  BY DEF PageInv, TypeOK
<1>2. PICK l \in Load : /\ l = [load[k] EXCEPT !.state = "failed"]
                       /\ l.state = "failed" /\ l.room = load[k].room /\ l.at = load[k].at
  <2> DEFINE l == [load[k] EXCEPT !.state = "failed"]
  <2>1. l \in Load /\ l.state = "failed" /\ l.room = load[k].room /\ l.at = load[k].at
    BY <1>1 DEF Load
  <2> HIDE DEF l
  <2>2. \E x \in Load : /\ x = l /\ x.state = "failed"
                       /\ x.room = load[k].room /\ x.at = load[k].at
    BY <2>1
  <2>3. QED BY <2>2 DEF l
<1>3. /\ load[k].state \in {"sent", "answered"}
      /\ load' = [load EXCEPT ![k] = l]
      /\ UNCHANGED <<sockets, currentRoomId, area, selection, naming, network, server>>
  BY <1>2 DEF HistoryFails
<1>4. QED BY <1>2, <1>3, LoadMoves

LEMMA ServerReadsStep ==
    ASSUME PageInv, NEW k \in Selections, ServerReads(k)
    PROVE  PageInv'
<1>1. load[k] \in Load
  BY DEF PageInv, TypeOK
<1>2. PICK page \in SUBSET MessagesOf(load[k].room) :
         load' = [load EXCEPT ![k].state = "answered", ![k].msgs = page]
  BY DEF ServerReads
<1>3. page \subseteq Msgs
  BY DEF MessagesOf, PageInv, TypeOK, Message
<1>4. PICK l \in Load : /\ l = [load[k] EXCEPT !.state = "answered", !.msgs = page]
                       /\ l.state = "answered" /\ l.room = load[k].room /\ l.at = load[k].at
  <2> DEFINE l == [load[k] EXCEPT !.state = "answered", !.msgs = page]
  <2>1. l \in Load /\ l.state = "answered" /\ l.room = load[k].room /\ l.at = load[k].at
    BY <1>1, <1>3 DEF Load
  <2> HIDE DEF l
  <2>2. \E x \in Load : /\ x = l /\ x.state = "answered"
                       /\ x.room = load[k].room /\ x.at = load[k].at
    BY <2>1
  <2>3. QED BY <2>2 DEF l
<1>5. /\ load[k].state = "sent"
      /\ load' = [load EXCEPT ![k] = l]
      /\ UNCHANGED <<sockets, currentRoomId, area, selection, naming, network, server>>
  BY <1>2, <1>4 DEF ServerReads
<1>6. QED BY <1>4, <1>5, LoadMoves

\* The name on screen is no newer than the one in the connection of ws.
LEMMA SendMessageStep ==
    ASSUME PageInv, NEW m \in Msgs, SendMessage(m)
    PROVE  PageInv'
<1> USE DEF PageInv, ScreenSound
<1>1. PICK q \in Request :
         q = [action |-> "sendMessage", room |-> currentRoomId, msg |-> m,
              asked |-> shownName]
  <2>1. [action |-> "sendMessage", room |-> currentRoomId, msg |-> m,
         asked |-> shownName] \in Request
    BY DEF SendMessage, TypeOK, Request
  <2>2. QED BY <2>1
<1>2. WsSend(q) /\ UNCHANGED <<sockets, screen, naming, frames, server>>
  BY <1>1 DEF SendMessage
<1>3. /\ requests' \in [Socks -> SUBSET Request]
      /\ \A s \in Socks : \A p \in requests'[s] :
            p \in requests[s] \/ (p = q /\ s = ws /\ rowName[s] # None)
  BY <1>2 DEF WsSend, TypeOK, SocketsSound
<1>4. TypeOK'
  BY <1>2, <1>3 DEF TypeOK, sockets, screen, naming, server
<1>5. SocketsSound' /\ SocketsBounded'
  BY <1>2, <1>3, SocketsKept DEF sockets, naming, server
<1>6. NamesSound'
  <2>1. \A s \in Socks : \A p \in requests'[s] :
           p.action = "sendMessage" => p.msg # None /\ p.asked <= rowName[s]
    BY <1>1, <1>3 DEF NamesSound
  <2>2. QED BY <1>2, <2>1 DEF NamesSound, sockets, naming, server
<1>7. NoneReopens
  BY <1>2 DEF NoneReopens, sockets
<1>8. ScreenSound' /\ NewMessagesUseName'
  BY <1>2, <1>7, ScreenKept DEF server, NewMessagesUseName
<1>9. QED BY <1>4, <1>5, <1>6, <1>8

LEMMA OthersSayStep ==
    ASSUME PageInv, NEW m \in Msgs, NEW r \in Rooms, OthersSay(m, r)
    PROVE  PageInv'
<1> USE DEF PageInv, ScreenSound
<1>1. PICK x \in Message : /\ x = [id |-> m, room |-> r, name |-> 0, asked |-> 0]
                          /\ x.asked <= x.name
  <2>1. [id |-> m, room |-> r, name |-> 0, asked |-> 0] \in Message
    BY DEF Message, Names
  <2>2. QED BY <2>1
<1>2. /\ log' = log \cup {x}
      /\ UNCHANGED <<sockets, screen, naming, network, listed, posted, rowName, name>>
  BY <1>1 DEF OthersSay
<1>3. TypeOK'
  BY <1>2 DEF TypeOK, sockets, screen, naming, network
<1>4. SocketsSound' /\ SocketsBounded' /\ NamesSound'
  BY <1>2, SocketsKept, NamesKept DEF sockets, naming, network
<1>5. NoneReopens
  BY <1>2 DEF NoneReopens, sockets
<1>6. ScreenSound' /\ NewMessagesUseName'
  BY <1>1, <1>2, <1>5, ScreenKept DEF network, NewMessagesUseName
<1>7. QED BY <1>3, <1>4, <1>6

\* The name in the connection is at least the one that was on screen.
LEMMA ServerSendsStep ==
    ASSUME PageInv, NEW s \in Socks, NEW q \in requests[s], ServerSends(s, q)
    PROVE  PageInv'
<1> USE DEF PageInv, ScreenSound
<1>1. /\ q \in Request /\ q.action = "sendMessage" /\ q.msg \in Msgs
      /\ rowName[s] \in Names /\ q.asked <= rowName[s]
  BY DEF ServerSends, TypeOK, Request, SocketsSound, NamesSound
<1>2. PICK x \in Message : /\ x = [id |-> q.msg, room |-> q.room, name |-> rowName[s],
                                  asked |-> q.asked]
                          /\ x.asked <= x.name
  <2>1. [id |-> q.msg, room |-> q.room, name |-> rowName[s], asked |-> q.asked] \in Message
    BY <1>1 DEF Message, Request
  <2>2. QED BY <1>1, <2>1
<1>3. /\ requests' = [requests EXCEPT ![s] = @ \ {q}]
      /\ log' \in {log, log \cup {x}}
      /\ UNCHANGED <<sockets, screen, naming, frames, listed, posted, rowName, name>>
  BY <1>2 DEF ServerSends
<1>4. /\ \A t \in Socks : requests'[t] \subseteq requests[t]
      /\ requests' \in [Socks -> SUBSET Request]
  BY <1>3 DEF TypeOK
<1>5. TypeOK'
  <2>1. log' \subseteq Message
    BY <1>3 DEF TypeOK
  <2>2. QED BY <1>3, <1>4, <2>1 DEF TypeOK, sockets, screen, naming
<1>6. SocketsSound' /\ SocketsBounded'
  BY <1>3, <1>4, SocketsKept DEF sockets, naming
<1>7. NamesSound'
  BY <1>3, <1>4 DEF NamesSound, sockets, naming
<1>8. NoneReopens
  BY <1>3 DEF NoneReopens, sockets
<1>9. ScreenSound' /\ NewMessagesUseName'
  BY <1>2, <1>3, <1>8, ScreenKept DEF NewMessagesUseName
<1>10. QED BY <1>5, <1>6, <1>7, <1>9

LEMMA ServerJoinsStep ==
    ASSUME PageInv, NEW s \in Socks, NEW q \in requests[s], ServerJoins(s, q)
    PROVE  PageInv'
<1> USE DEF PageInv, ScreenSound
<1>1. /\ q \in Request /\ q.room \in Rooms
      /\ requests' = [requests EXCEPT ![s] = @ \ {q}]
      /\ listed' \in {listed, [listed EXCEPT ![s] = @ \cup {q.room}]}
      /\ UNCHANGED <<sockets, screen, naming, frames, posted, rowName, name, log>>
  BY DEF ServerJoins, TypeOK, Request
<1>2. \A t \in Socks : requests'[t] \subseteq requests[t]
  BY <1>1 DEF TypeOK
<1>3. TypeOK'
  <2>1. requests' \in [Socks -> SUBSET Request] /\ listed' \in [Socks -> SUBSET Rooms]
    BY <1>1 DEF TypeOK
  <2>2. QED BY <1>1, <2>1 DEF TypeOK, sockets, screen, naming
<1>4. SocketsSound' /\ SocketsBounded'
  BY <1>1, <1>2, SocketsKept DEF sockets, naming
<1>5. NamesSound'
  BY <1>1, <1>2 DEF NamesSound, sockets, naming
<1>6. NoneReopens
  BY <1>1 DEF NoneReopens, sockets
<1>7. ScreenSound' /\ NewMessagesUseName'
  BY <1>1, <1>6, ScreenKept DEF NewMessagesUseName
<1>8. QED BY <1>3, <1>4, <1>5, <1>7

\* What the server sends is under way until the page, or the close event, takes it.
LEMMA ServerPostsStep ==
    ASSUME PageInv, NEW s \in Socks, NEW m \in log, ServerPosts(s, m)
    PROVE  PageInv'
<1> USE DEF PageInv, ScreenSound
<1>1. PICK f \in Frame : f = [room |-> m.room, msg |-> m.id]
  <2>1. [room |-> m.room, msg |-> m.id] \in Frame
    BY DEF TypeOK, Message, Frame
  <2>2. QED BY <2>1
<1>2. PICK p \in Post : /\ p = [room |-> m.room, msg |-> m.id, click |-> selection]
                       /\ p.click = selection /\ f = [room |-> p.room, msg |-> p.msg]
  <2>1. [room |-> m.room, msg |-> m.id, click |-> selection] \in Post
    BY DEF TypeOK, Message, Post
  <2>2. QED BY <1>1, <2>1
<1>3. /\ frames' = [frames EXCEPT ![s] = @ \cup {f}]
      /\ posted' = [posted EXCEPT ![s] = @ \cup {p}]
      /\ UNCHANGED <<sockets, screen, naming, requests, listed, rowName, name, log>>
  BY <1>1, <1>2 DEF ServerPosts
<1>4. \A t \in Socks : /\ frames[t] \subseteq frames'[t]
                       /\ \A x \in posted'[t] : x \in posted[t] \/ (x = p /\ f \in frames'[t])
  BY <1>3 DEF TypeOK
<1>5. TypeOK'
  <2>1. frames' \in [Socks -> SUBSET Frame] /\ posted' \in [Socks -> SUBSET Post]
    BY <1>3 DEF TypeOK
  <2>2. QED BY <1>3, <2>1 DEF TypeOK, sockets, screen, naming
<1>6. SocketsSound' /\ SocketsBounded' /\ NamesSound'
  BY <1>3, SocketsKept, NamesKept DEF sockets, naming
<1>7. LoadsSound' /\ LiveFramesOfRoom' /\ StraysAreLate' /\ NewMessagesUseName'
  <2>1. selection \in Nat
    BY DEF TypeOK
  <2>2. QED BY <1>2, <1>3, <1>4, <2>1
            DEF LoadsSound, LiveFramesOfRoom, StraysAreLate, NewMessagesUseName, screen
<1>8. NothingMissed'
  <2>1. \A x, y : Shown(x, y)' = Shown(x, y)
    BY <1>3 DEF Shown, screen
  <2>2. QED BY <1>2, <1>3, <1>4, <2>1 DEF NothingMissed, sockets, screen
<1>9. QED BY <1>5, <1>6, <1>7, <1>8

\* A frame of the room on screen moves from the socket to the screen.
LEMMA HandleWSMessageStep ==
    ASSUME PageInv, NEW s \in Socks, NEW f \in frames[s], HandleWSMessage(s, f)
    PROVE  PageInv'
<1> USE DEF PageInv, ScreenSound
<1>1. /\ f \in Frame
      /\ frames' = [frames EXCEPT ![s] = @ \ {f}]
      /\ area' = IF f.room = currentRoomId
                 THEN area \cup {[via |-> "live", room |-> f.room, msg |-> f.msg]}
                 ELSE area
      /\ UNCHANGED <<sockets, currentRoomId, selection, load, naming, requests, server>>
  BY DEF HandleWSMessage, Shows, TypeOK
<1>2. TypeOK'
  <2>1. frames' \in [Socks -> SUBSET Frame]
    BY <1>1 DEF TypeOK
  <2>2. area' \subseteq Entry
    BY <1>1 DEF TypeOK, Entry, Frame
  <2>3. QED BY <1>1, <2>1, <2>2 DEF TypeOK, sockets, naming, server
<1>3. SocketsSound' /\ SocketsBounded' /\ NamesSound'
  BY <1>1, SocketsKept, NamesKept DEF sockets, naming, server
<1>4. LoadsSound' /\ LiveFramesOfRoom' /\ StraysAreLate' /\ NewMessagesUseName'
  BY <1>1 DEF LoadsSound, LiveFramesOfRoom, StraysAreLate, NewMessagesUseName, server
<1>5. NothingMissed'
  <2>1. \A r, m : Shown(r, m) => Shown(r, m)'
    BY <1>1 DEF Shown
  <2>2. f.room = currentRoomId => Shown(f.room, f.msg)'
    <3> SUFFICES ASSUME f.room = currentRoomId
                 PROVE  Shown(f.room, f.msg)'
      OBVIOUS
    <3>1. PICK e \in area' : e = [via |-> "live", room |-> f.room, msg |-> f.msg]
      BY <1>1
    <3>2. e.room = f.room /\ e.msg = f.msg
      BY <3>1
    <3>3. QED BY <3>2 DEF Shown
  <2>3. ASSUME NEW t \in Socks, readyState[t] # "closed", NEW p \in posted[t],
               p.room = currentRoomId, p.click = selection
        PROVE  Shown(p.room, p.msg)' \/ [room |-> p.room, msg |-> p.msg] \in frames'[t]
    <3>1. CASE f = [room |-> p.room, msg |-> p.msg]
      BY <2>2, <2>3, <3>1
    <3>2. CASE f # [room |-> p.room, msg |-> p.msg]
      <4>1. [room |-> p.room, msg |-> p.msg] \in frames[t] =>
               [room |-> p.room, msg |-> p.msg] \in frames'[t]
        BY <1>1, <3>2 DEF TypeOK
      <4>2. QED BY <2>1, <2>3, <4>1 DEF NothingMissed
    <3>3. QED BY <3>1, <3>2
  <2>4. (\A k \in Selections : k = selection /\ load[k].state = "shown" =>
            \A m \in load[k].msgs : Shown(load[k].room, m))'
    BY <1>1, <2>1 DEF NothingMissed, Shown
  <2>5. (\A t \in Socks : readyState[t] # "closed" =>
            \A p \in posted[t] : p.room = currentRoomId /\ p.click = selection =>
               Shown(p.room, p.msg) \/ [room |-> p.room, msg |-> p.msg] \in frames[t])'
    BY <1>1, <2>3 DEF Shown, sockets, server
  <2>6. QED BY <2>4, <2>5 DEF NothingMissed
<1>6. QED BY <1>2, <1>3, <1>4, <1>5

(***************************************************************************)
(* The steps of the display name.                                          *)
(***************************************************************************)

LEMMA SaveDisplayNameStep ==
    ASSUME PageInv, SaveDisplayName
    PROVE  PageInv'
<1> USE DEF PageInv, ScreenSound
<1>1. /\ saving + name < MaxRenames /\ saving' = saving + 1
      /\ UNCHANGED <<sockets, screen, shownName, saved, reconnects, network, server>>
  BY DEF SaveDisplayName
<1>2. TypeOK'
  BY <1>1 DEF TypeOK, sockets, screen, network, server
<1>3. SocketsSound' /\ SocketsBounded'
  BY <1>1, SocketsKept DEF sockets, network, server
<1>4. NamesSound'
  BY <1>1 DEF NamesSound, TypeOK, Names, sockets, network, server
<1>5. NoneReopens
  BY <1>1 DEF NoneReopens, sockets
<1>6. ScreenSound' /\ NewMessagesUseName'
  BY <1>1, <1>5, ScreenKept DEF network, server, NewMessagesUseName
<1>7. QED BY <1>2, <1>3, <1>4, <1>6

LEMMA ServerSavesStep ==
    ASSUME PageInv, ServerSaves
    PROVE  PageInv'
<1> USE DEF PageInv, ScreenSound
<1>1. /\ saving > 0 /\ saving' = saving - 1
      /\ name' \in {name, name + 1}
      /\ saved' \subseteq saved \cup {name'}
      /\ UNCHANGED <<sockets, screen, shownName, reconnects, network, listed, posted,
                     rowName, log>>
  BY DEF ServerSaves
<1>2. name' \in Names /\ name <= name' /\ name' + saving' <= MaxRenames /\ saving' \in Nat
  BY <1>1 DEF TypeOK, NamesSound, Names
<1>3. TypeOK'
  BY <1>1, <1>2 DEF TypeOK, sockets, screen, network
<1>4. SocketsSound' /\ SocketsBounded'
  BY <1>1, SocketsKept DEF sockets, network
<1>5. NamesSound'
  <2>1. shownName <= name' /\ \A n \in saved' : n <= name'
    <3>1. /\ shownName \in Nat /\ shownName <= name
          /\ \A n \in saved : n \in Nat /\ n <= name
      BY DEF NamesSound, TypeOK, Names
    <3>2. name \in Nat /\ name' \in Nat
      BY <1>2 DEF TypeOK, Names
    <3>3. QED BY <1>1, <1>2, <3>1, <3>2
  <2>2. QED BY <1>1, <1>2, <2>1 DEF NamesSound, sockets, network
<1>6. NoneReopens
  BY <1>1 DEF NoneReopens, sockets
<1>7. ScreenSound' /\ NewMessagesUseName'
  BY <1>1, <1>6, ScreenKept DEF network, NewMessagesUseName
<1>8. QED BY <1>3, <1>4, <1>5, <1>7

(***************************************************************************)
(* The theorems.                                                           *)
(***************************************************************************)

LEMMA InitInvariant ==
    Init => PageInv
<1> SUFFICES ASSUME Init
             PROVE  PageInv
  OBVIOUS
<1> USE DEF Init
<1>1. 1 \in Socks /\ 0 \in Names
  BY DEF Socks, Names
<1>2. TypeOK
  BY <1>1 DEF TypeOK, NoLoad, Load
<1>3. Unused = 2 .. MaxSockets
  BY <1>1 DEF Unused, Socks
<1>4. SocketsSound
  BY <1>1, <1>3 DEF SocketsSound
<1>5. SocketsBounded
  <2>1. AliveIn(readyState) = {1}
    BY <1>1 DEF AliveIn
  <2>2. Cardinality(AliveIn(readyState)) = 1
    BY <2>1, FS_Singleton
  <2>3. QED BY <2>2 DEF SocketsBounded, Alive, AliveIn
<1>6. NamesSound /\ NewMessagesUseName /\ LiveFramesOfRoom /\ StraysAreLate
  <2>1. rowName[ws] = None /\ \A s \in Socks : requests[s] = {}
    BY <1>1
  <2>2. QED BY <2>1 DEF NamesSound, NewMessagesUseName, LiveFramesOfRoom, StraysAreLate
<1>7. LoadsSound /\ NothingMissed
  <2>1. \A k \in Selections : load[k].state = "none" /\ k > 0
    BY DEF NoLoad, Selections
  <2>2. \A s \in Socks : posted[s] = {}
    OBVIOUS
  <2>3. LoadsSound
    BY <2>1, <2>2 DEF LoadsSound, Selections
  <2>4. NothingMissed
    <3> HIDE DEF Init
    <3>1. QED BY <2>1, <2>2 DEF NothingMissed
  <2>5. QED BY <2>3, <2>4
<1>8. QED BY <1>2, <1>4, <1>5, <1>6, <1>7 DEF PageInv

LEMMA NextInvariant ==
    PageInv /\ [Next]_vars => PageInv'
<1> SUFFICES ASSUME PageInv, [Next]_vars
             PROVE  PageInv'
  OBVIOUS
<1>1. ASSUME NEW s \in Socks, Open(s) \/ Close(s) \/ ServerConnects(s)
      PROVE  PageInv'
  BY <1>1, OpenStep, CloseStep, ServerConnectsStep
<1>2. ASSUME NEW r \in Rooms, SelectRoom(r)
      PROVE  PageInv'
  BY <1>2, SelectRoomStep
<1>3. ASSUME NEW k \in Selections, HistoryArrives(k) \/ HistoryFails(k) \/ ServerReads(k)
      PROVE  PageInv'
  BY <1>3, HistoryArrivesStep, HistoryFailsStep, ServerReadsStep
<1>4. ASSUME NEW m \in FreshMsgs, SendMessage(m) \/ \E r \in Rooms : OthersSay(m, r)
      PROVE  PageInv'
  BY <1>4, SendMessageStep, OthersSayStep DEF FreshMsgs
<1>5. ASSUME NEW s \in Socks, NEW f \in frames[s], HandleWSMessage(s, f)
      PROVE  PageInv'
  BY <1>5, HandleWSMessageStep
<1>6. ASSUME NEW s \in Socks, NEW q \in requests[s], ServerJoins(s, q) \/ ServerSends(s, q)
      PROVE  PageInv'
  BY <1>6, ServerJoinsStep, ServerSendsStep
<1>7. ASSUME NEW s \in Socks, NEW m \in log, ServerPosts(s, m)
      PROVE  PageInv'
  BY <1>7, ServerPostsStep
<1>8. CASE Timeout \/ SaveDisplayName \/ ServerSaves
  BY <1>8, TimeoutStep, SaveDisplayNameStep, ServerSavesStep
<1>9. ASSUME NEW n \in saved, DisplayNameSaved(n)
      PROVE  PageInv'
  BY <1>9, DisplayNameSavedStep
<1>10. CASE UNCHANGED vars
  <2> USE DEF PageInv, ScreenSound, vars, sockets, screen, naming, network, server
  <2>1. TypeOK' /\ SocketsSound' /\ SocketsBounded' /\ NamesSound'
    BY <1>10, SocketsKept, NamesKept DEF TypeOK
  <2>2. ScreenSound' /\ NewMessagesUseName'
    BY <1>10, ScreenKept DEF NoneReopens, NewMessagesUseName
  <2>3. QED BY <2>1, <2>2
<1>11. QED BY <1>1, <1>2, <1>3, <1>4, <1>5, <1>6, <1>7, <1>8, <1>9, <1>10 DEF Next

\* The inductive invariant holds in every reachable state, for any number of
\* sockets, clicks, renames, rooms and messages.
THEOREM PageInvariance == Spec => []PageInv
BY InitInvariant, NextInvariant, PTL DEF Spec

\* Type correctness of the page: it never sends a message to no room.
THEOREM PageTypeCorrectness == Spec => []TypeOK
<1>1. PageInv => TypeOK
  BY DEF PageInv
<1>2. QED BY <1>1, PageInvariance, PTL

\* handleWSMessage: what is shown live is of the room on screen.
THEOREM LiveFramesAreOfRoom == Spec => []LiveFramesOfRoom
<1>1. PageInv => LiveFramesOfRoom
  BY DEF PageInv
<1>2. QED BY <1>1, PageInvariance, PTL

\* selectRoom empties the area: only a history that was under way at the click can
\* be of another room than the one on screen.
THEOREM StraysAreLateOnes == Spec => []StraysAreLate
<1>1. PageInv => StraysAreLate
  BY DEF PageInv
<1>2. QED BY <1>1, PageInvariance, PTL

\* selectRoom and handleWSMessage: the page shows all that it is given of the room
\* on screen, in whichever order history and live frames arrive.
THEOREM NothingIsMissed == Spec => []NothingMissed
<1>1. PageInv => NothingMissed
  BY DEF PageInv
<1>2. QED BY <1>1, PageInvariance, PTL

\* connectWebSocket and its close listener: the page never stops reconnecting, and
\* has at most one socket or timer, and one more for each reconnection it asked for.
THEOREM SocketsAreBounded == Spec => []SocketsBounded
<1>1. PageInv => SocketsBounded
  BY DEF PageInv
<1>2. QED BY <1>1, PageInvariance, PTL

\* saveDisplayName reconnects: no message is stored under an older name than the
\* one on screen when it was sent.
THEOREM NamesAreUsed == Spec => []NewMessagesUseName
<1>1. PageInv => NewMessagesUseName
  BY DEF PageInv
<1>2. QED BY <1>1, PageInvariance, PTL
=================================================================================
