-------------------------------- MODULE ChatPage --------------------------------
(***************************************************************************)
(* frontend/app.js, the chat page: its WebSockets and the timers that      *)
(* reopen them, the room on screen, and the message area, which is filled  *)
(* by the history request of a selected room and by live frames.  Handlers *)
(* of the page run one at a time; between them the server (external, kept  *)
(* to what a page can tell: LambdaGateway has the mechanism) acts on what  *)
(* is under way, and requests and frames overtake one another.             *)
(***************************************************************************)
EXTENDS Naturals, FiniteSets

CONSTANTS
    Rooms,          \* rooms in the list
    Msgs,           \* message ids: bounds the messages
    MaxSockets,     \* bound on the sockets the page opens
    MaxSelections,  \* bound on the clicks on a room
    MaxRenames,     \* bound on the display names saved
    HistoryLimit,   \* messages in a history at most: 50
    None            \* no room, no socket

ASSUME PageAssumption ==
    /\ {MaxSockets, MaxSelections, MaxRenames, HistoryLimit} \subseteq Nat
    /\ MaxSockets > 0
    /\ None \notin Rooms \cup Msgs \cup Nat

Socks == 1 .. MaxSockets
Selections == 1 .. MaxSelections
Names == 0 .. MaxRenames    \* the display name, as the number of its change

VARIABLES
    ws,             \* the socket in the variable ws
    readyState,     \* readyState[s], "unused" before s is opened
    timers,         \* pending setTimeout(connectWebSocket, 3000)
    currentRoomId,
    area,           \* what the message area shows
    selection,      \* number of clicks on a room so far
    load,           \* load[k]: the history request of the k-th click
    shownName,      \* the display name on screen
    saving,         \* PUT /users/me requests under way
    saved,          \* answers of them under way: the names that were saved
    reconnects,     \* history: how often saveDisplayName reconnected
    requests,       \* requests[s]: frames under way to the server
    frames,         \* frames[s]: frames under way to the page
    listed,         \* listed[s]: the rooms in which reads may list s, see ServerJoins
    posted,         \* posted[s]: the message frames the server has sent to s
    rowName,        \* rowName[s]: the name in the connection of s
    name,           \* the user's display name in the users table
    log             \* the messages table

sockets == <<ws, readyState, timers>>
screen  == <<currentRoomId, area, selection, load>>
naming  == <<shownName, saving, saved, reconnects>>
server  == <<listed, posted, rowName, name, log>>
network == <<requests, frames>>
vars    == <<sockets, screen, naming, network, server>>

\* asked is the name on screen when the request was sent.
Request == [action : {"joinRoom", "sendMessage"}, room : Rooms,
            msg : Msgs \cup {None}, asked : Names]

Message == [id : Msgs, room : Rooms, name : Names, asked : Names]

\* A message frame; the others change no more than lines of text.
Frame == [room : Rooms, msg : Msgs]

\* click: how many clicks there had been when the frame was sent.  It is there
\* for the properties only.
Post == [room : Rooms, msg : Msgs, click : 0 .. MaxSelections]

Entry == [via : {"live", "history"}, room : Rooms, msg : Msgs]

\* at: how many clicks there had been when the history was shown, for the
\* properties only.
Load == [state : {"none", "sent", "answered", "shown", "failed"},
         room : Rooms \cup {None}, msgs : SUBSET Msgs, at : 0 .. MaxSelections]

NoLoad == [state |-> "none", room |-> None, msgs |-> {}, at |-> 0]

MessagesOf(r) == {m.id : m \in {x \in log : x.room = r}}

\* initChatPage has got as far as connectWebSocket and the list of rooms.
Init ==
    /\ ws = 1
    /\ readyState = [s \in Socks |-> IF s = 1 THEN "connecting" ELSE "unused"]
    /\ timers = 0
    /\ currentRoomId = None
    /\ area = {}
    /\ selection = 0
    /\ load = [k \in Selections |-> NoLoad]
    /\ shownName = 0
    /\ saving = 0
    /\ saved = {}
    /\ reconnects = 0
    /\ requests = [s \in Socks |-> {}]
    /\ frames = [s \in Socks |-> {}]
    /\ listed = [s \in Socks |-> {}]
    /\ posted = [s \in Socks |-> {}]
    /\ rowName = [s \in Socks |-> None]
    /\ name = 0
    /\ log = {}

(***************************************************************************)
(* Sockets.                                                                *)
(***************************************************************************)
Unused == {s \in Socks : readyState[s] = "unused"}

NextSocket == CHOOSE s \in Unused : \A t \in Unused : s <= t

\* connectWebSocket, when the sockets before it are in the states given.
ConnectWebSocket(states) ==
    /\ Unused # {}
    /\ ws' = NextSocket
    /\ readyState' = [states EXCEPT ![NextSocket] = "connecting"]

\* disconnectWebSocket: ws.onclose = null leaves the listeners alone.
Disconnected(states, s) ==
    [states EXCEPT ![s] = IF @ = "closed" THEN @ ELSE "closing"]

Open(s) ==
    /\ readyState[s] = "connecting"
    /\ rowName[s] # None
    /\ readyState' = [readyState EXCEPT ![s] = "open"]
    /\ UNCHANGED <<ws, timers, screen, naming, network, server>>

\* Mutant: the error event, which comes before the close event of a socket that
\* could not connect, starts a timer as well.
CloseAndError(s) ==
    /\ readyState[s] \in {"connecting", "open", "closing"}
    /\ readyState' = [readyState EXCEPT ![s] = "closed"]
    /\ timers' = IF readyState[s] = "connecting" THEN timers + 2 ELSE timers + 1
    /\ frames' = [frames EXCEPT ![s] = {}]
    /\ UNCHANGED <<ws, screen, naming, requests, server>>

\* The close event, also of a socket that was refused or closed by the page:
\* the listener starts a timer, whatever ws is by now.
Close(s) ==
    /\ readyState[s] \in {"connecting", "open", "closing"}
    /\ readyState' = [readyState EXCEPT ![s] = "closed"]
    /\ timers' = timers + 1
    /\ frames' = [frames EXCEPT ![s] = {}]
    /\ UNCHANGED <<ws, screen, naming, requests, server>>

Timeout ==
    /\ timers > 0
    /\ timers' = timers - 1
    /\ ConnectWebSocket(readyState)
    /\ UNCHANGED <<screen, naming, network, server>>

\* wsSend: dropped without a word unless ws is open.
WsSend(request) ==
    requests' = IF readyState[ws] = "open"
                THEN [requests EXCEPT ![ws] = @ \cup {request}]
                ELSE requests

(***************************************************************************)
(* Rooms and messages.                                                     *)
(***************************************************************************)

\* Mutant: the area is not emptied.
SelectKeepsArea(r) ==
    /\ selection < MaxSelections
    /\ selection' = selection + 1
    /\ currentRoomId' = r
    /\ WsSend([action |-> "joinRoom", room |-> r, msg |-> None, asked |-> 0])
    /\ load' = [load EXCEPT ![selection + 1] =
                  [NoLoad EXCEPT !.state = "sent", !.room = r]]
    /\ UNCHANGED <<sockets, area, naming, frames, server>>

\* selectRoom up to its await: the area is emptied, joinRoom and the request for
\* the history are sent, neither waiting for the other.
SelectRoom(r) ==
    /\ selection < MaxSelections
    /\ selection' = selection + 1
    /\ area' = {}
    /\ currentRoomId' = r
    /\ WsSend([action |-> "joinRoom", room |-> r, msg |-> None, asked |-> 0])
    /\ load' = [load EXCEPT ![selection + 1] =
                  [NoLoad EXCEPT !.state = "sent", !.room = r]]
    /\ UNCHANGED <<sockets, naming, frames, server>>

\* Mutant: the area is emptied when the history arrives, not at the click.
HistoryReplacesArea(k) ==
    /\ load[k].state = "answered"
    /\ load' = [load EXCEPT ![k].state = "shown", ![k].at = selection]
    /\ area' = [via : {"history"}, room : {load[k].room}, msg : load[k].msgs]
    /\ UNCHANGED <<sockets, currentRoomId, selection, naming, network, server>>

\* selectRoom after its await: the messages are appended whatever room is on
\* screen by now.
HistoryArrives(k) ==
    /\ load[k].state = "answered"
    /\ load' = [load EXCEPT ![k].state = "shown", ![k].at = selection]
    /\ area' = area \cup [via : {"history"}, room : {load[k].room}, msg : load[k].msgs]
    /\ UNCHANGED <<sockets, currentRoomId, selection, naming, network, server>>

HistoryFails(k) ==
    /\ load[k].state \in {"sent", "answered"}
    /\ load' = [load EXCEPT ![k].state = "failed"]
    /\ UNCHANGED <<sockets, currentRoomId, area, selection, naming, network, server>>

\* Ids that no message, stored or under way, has.
FreshMsgs ==
    Msgs \ ({m.id : m \in log} \cup UNION {{q.msg : q \in requests[s]} : s \in Socks})

\* Mutant: no test of currentRoomId.
SendBeforeRoom(m) ==
    /\ WsSend([action |-> "sendMessage", room |-> currentRoomId, msg |-> m,
               asked |-> shownName])
    /\ UNCHANGED <<sockets, screen, naming, frames, server>>

\* sendMessage of a body that is not blank.
SendMessage(m) ==
    /\ currentRoomId # None
    /\ WsSend([action |-> "sendMessage", room |-> currentRoomId, msg |-> m,
               asked |-> shownName])
    /\ UNCHANGED <<sockets, screen, naming, frames, server>>

\* Mutant: a frame is shown whatever room it is of.
ShowsAny(f) == TRUE

Shows(f) == f.room = currentRoomId

\* handleWSMessage of a message, called by the listener of any open socket.
HandleWSMessage(s, f) ==
    /\ readyState[s] = "open"
    /\ frames' = [frames EXCEPT ![s] = @ \ {f}]
    /\ area' = IF Shows(f) THEN area \cup {[via |-> "live", room |-> f.room, msg |-> f.msg]}
                           ELSE area
    /\ UNCHANGED <<sockets, currentRoomId, selection, load, naming, requests, server>>

(***************************************************************************)
(* The display name.                                                       *)
(***************************************************************************)

\* Mutant: the name is shown before the answer to the request.
SaveShown ==
    /\ saving + name < MaxRenames
    /\ saving' = saving + 1
    /\ shownName' = name + saving + 1
    /\ UNCHANGED <<sockets, screen, saved, reconnects, network, server>>

\* saveDisplayName up to its await; Enter calls it again while one is under way.
SaveDisplayName ==
    /\ saving + name < MaxRenames
    /\ saving' = saving + 1
    /\ UNCHANGED <<sockets, screen, shownName, saved, reconnects, network, server>>

\* Mutant: the name is shown, but the page keeps its socket.
SavedWithoutReconnect(n) ==
    /\ saved' = saved \ {n}
    /\ shownName' = n
    /\ UNCHANGED <<sockets, screen, saving, reconnects, network, server>>

\* saveDisplayName after its await: show the name, disconnect and connect, so
\* that new messages use it.
DisplayNameSaved(n) ==
    /\ saved' = saved \ {n}
    /\ shownName' = n
    /\ reconnects' = reconnects + 1
    /\ ConnectWebSocket(Disconnected(readyState, ws))
    /\ UNCHANGED <<timers, screen, saving, network, server>>

(***************************************************************************)
(* The server, as far as a page can tell.                                  *)
(***************************************************************************)

\* $connect: HandleConnect copies the name into the connection.
ServerConnects(s) ==
    /\ readyState[s] = "connecting"
    /\ rowName[s] = None
    /\ rowName' = [rowName EXCEPT ![s] = name]
    /\ UNCHANGED <<sockets, screen, naming, network, listed, posted, name, log>>

\* HandleJoinRoom, if no call of it fails.  Reads of the row and of the room index
\* may lag behind it, so that they list s in any room it has been put in.
ServerJoins(s, q) ==
    /\ q.action = "joinRoom"
    /\ requests' = [requests EXCEPT ![s] = @ \ {q}]
    /\ listed' \in {listed, [listed EXCEPT ![s] = @ \cup {q.room}]}
    /\ UNCHANGED <<sockets, screen, naming, frames, posted, rowName, name, log>>

\* HandleSendMessage up to InsertMessage: refused unless the row says that s is in
\* the room, and ended by any call that fails.
ServerSends(s, q) ==
    /\ q.action = "sendMessage"
    /\ requests' = [requests EXCEPT ![s] = @ \ {q}]
    /\ \/ UNCHANGED log
       \/ /\ q.room \in listed[s]
          /\ log' = log \cup {[id |-> q.msg, room |-> q.room, name |-> rowName[s],
                               asked |-> q.asked]}
    /\ UNCHANGED <<sockets, screen, naming, frames, listed, posted, rowName, name>>

\* Somebody else says something.
OthersSay(m, r) ==
    /\ log' = log \cup {[id |-> m, room |-> r, name |-> 0, asked |-> 0]}
    /\ UNCHANGED <<sockets, screen, naming, network, listed, posted, rowName, name>>

\* BroadcastToRoom gets to s, in its own time.  It need not: the insert may have
\* been reported as failed, the room query may fail or not list s, the send too.
ServerPosts(s, m) ==
    /\ m.room \in listed[s] /\ readyState[s] # "closed"
    /\ \A p \in posted[s] : p.msg # m.id
    /\ frames' = [frames EXCEPT ![s] = @ \cup {[room |-> m.room, msg |-> m.id]}]
    /\ posted' = [posted EXCEPT ![s] = @ \cup
                    {[room |-> m.room, msg |-> m.id, click |-> selection]}]
    /\ UNCHANGED <<sockets, screen, naming, requests, listed, rowName, name, log>>

\* The history of a room is read: a page of what the read, which need not be
\* consistent, sees of its messages.
ServerReads(k) ==
    /\ load[k].state = "sent"
    /\ \E page \in SUBSET MessagesOf(load[k].room) :
          /\ Cardinality(page) <= HistoryLimit
          /\ load' = [load EXCEPT ![k].state = "answered", ![k].msgs = page]
    /\ UNCHANGED <<sockets, currentRoomId, area, selection, naming, network, server>>

\* PUT /users/me is refused, or done; the answer may be lost.
ServerSaves ==
    /\ saving > 0
    /\ saving' = saving - 1
    /\ \/ UNCHANGED <<name, saved>>
       \/ name' = name + 1 /\ saved' \in {saved, saved \cup {name + 1}}
    /\ UNCHANGED <<sockets, screen, shownName, reconnects, network, listed, posted, rowName, log>>

(***************************************************************************)
(* The specification.                                                      *)
(***************************************************************************)
Next ==
    \/ \E s \in Socks : Open(s) \/ Close(s) \/ ServerConnects(s)
    \/ Timeout
    \/ \E r \in Rooms : SelectRoom(r)
    \/ \E k \in Selections : HistoryArrives(k) \/ HistoryFails(k) \/ ServerReads(k)
    \/ \E m \in FreshMsgs : SendMessage(m) \/ \E r \in Rooms : OthersSay(m, r)
    \/ \E s \in Socks : \E f \in frames[s] : HandleWSMessage(s, f)
    \/ \E s \in Socks : \E q \in requests[s] : ServerJoins(s, q) \/ ServerSends(s, q)
    \/ \E s \in Socks : \E m \in log : ServerPosts(s, m)
    \/ SaveDisplayName \/ ServerSaves
    \/ \E n \in saved : DisplayNameSaved(n)

Spec == Init /\ [][Next]_vars

(***************************************************************************)
(* Properties.                                                             *)
(***************************************************************************)
TypeOK ==
    /\ ws \in Socks
    /\ readyState \in [Socks -> {"unused", "connecting", "open", "closing", "closed"}]
    /\ timers \in Nat
    /\ currentRoomId \in Rooms \cup {None}
    /\ area \subseteq Entry
    /\ selection \in 0 .. MaxSelections
    /\ load \in [Selections -> Load]
    /\ shownName \in Names
    /\ saving \in Nat
    /\ saved \subseteq Names
    /\ reconnects \in Nat
    /\ requests \in [Socks -> SUBSET Request]
    /\ frames \in [Socks -> SUBSET Frame]
    /\ listed \in [Socks -> SUBSET Rooms]
    /\ posted \in [Socks -> SUBSET Post]
    /\ rowName \in [Socks -> Names \cup {None}]
    /\ name \in Names
    /\ log \subseteq Message

\* What was shown live is of the room on screen, however late its frame and
\* whichever socket it came from; a late history may be of another room.
LiveFramesOfRoom ==
    \A e \in area : e.via = "live" => e.room = currentRoomId

\* The only thing on screen that is not of its room is a history that was still
\* under way when the user clicked on that room, after a click on another.
StraysAreLate ==
    \A e \in area : e.room # currentRoomId =>
        /\ e.via = "history"
        /\ \E k \in Selections :
              k < selection /\ load[k].room = e.room /\ load[k].at = selection

Shown(r, m) == \E e \in area : e.room = r /\ e.msg = m

\* The page loses nothing that it is given, in whichever order history and live
\* frames arrive: the history of the last click, once it has arrived, is on screen,
\* and so is every message of the room that was sent to a socket since that click,
\* unless it is still under way or the socket has closed.
NothingMissed ==
    /\ \A k \in Selections : k = selection /\ load[k].state = "shown" =>
          \A m \in load[k].msgs : Shown(load[k].room, m)
    /\ \A s \in Socks : readyState[s] # "closed" =>
          \A p \in posted[s] : p.room = currentRoomId /\ p.click = selection =>
             Shown(p.room, p.msg) \/ [room |-> p.room, msg |-> p.msg] \in frames[s]

Alive == {s \in Socks : readyState[s] \in {"connecting", "open", "closing"}}

\* The page never stops reconnecting, and its retries do not multiply: there is a
\* socket that can still close, or a timer that will open one, and no more of them
\* than the page has itself asked for, by loading and by saving display names.
SocketsBounded ==
    Cardinality(Alive) + timers \in 1 .. 1 + reconnects

\* "Reconnect WS so new messages use updated display name": a message sent with
\* a name on screen is never stored under an older one, although the name is
\* copied into the connection at $connect and sockets overlap.
NewMessagesUseName ==
    \A m \in log : m.asked <= m.name

\* "suppress auto-reconnect": the close event of a socket that the page closed
\* by disconnectWebSocket starts no timer.
NoReconnectAfterDisconnect ==
    [][\A s \in Socks :
          readyState[s] = "closing" /\ readyState'[s] = "closed" => timers' = timers]_vars

(***************************************************************************)
(* Why the safety properties hold: an inductive invariant.                 *)
(***************************************************************************)

\* Sockets are opened one after the other and never become new again; what is
\* said over one comes after its $connect.
SocketsSound ==
    /\ \E n \in 2 .. MaxSockets + 1 : Unused = n .. MaxSockets
    /\ readyState[ws] # "unused"
    /\ \A s \in Socks :
          /\ readyState[s] = "unused" => rowName[s] = None
          /\ readyState[s] = "open" \/ requests[s] # {} => rowName[s] # None

\* A name on screen has been saved before the socket in ws was connected, and
\* what was sent under it went over that socket.
NamesSound ==
    /\ name + saving <= MaxRenames
    /\ shownName <= name
    /\ \A n \in saved : n <= name
    /\ rowName[ws] # None => shownName <= rowName[ws]
    /\ \A s \in Socks : \A q \in requests[s] :
          q.action = "sendMessage" => q.msg # None /\ q.asked <= rowName[s]

\* The requests for histories are those of the clicks so far, the last of them for
\* the room on screen; no frame was sent after more clicks than there were.
LoadsSound ==
    /\ \A k \in Selections : k <= selection <=> load[k].state # "none"
    /\ \A k \in Selections : k <= selection => load[k].room \in Rooms
    /\ \A k \in Selections : k = selection => load[k].room = currentRoomId
    /\ \A s \in Socks : \A p \in posted[s] : p.click <= selection

\* The inductive invariant: the safety properties follow from it.
PageInv ==
    /\ TypeOK
    /\ SocketsSound /\ SocketsBounded
    /\ NamesSound /\ NewMessagesUseName
    /\ LoadsSound /\ NothingMissed
    /\ LiveFramesOfRoom /\ StraysAreLate
================================================================================
