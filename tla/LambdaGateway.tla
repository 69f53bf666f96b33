----------------------------- MODULE LambdaGateway -----------------------------
(***************************************************************************)
(* The deployed WebSocket side: API Gateway (external) turns what clients  *)
(* do into invocations of cmd/ws-handler, any number of them at a time and *)
(* in no promised order, and carries the frames the handlers post back.    *)
(***************************************************************************)
EXTENDS WsHandlers

CONSTANT
    SdkErrors   \* shapes in which PostToConnection may return an HTTP error

\* "bare": the response error itself; "wrapped": inside an operation error.
ASSUME SdkErrorsAssumption == SdkErrors \subseteq {"bare", "wrapped"} /\ SdkErrors # {}

VARIABLE
    socket      \* socket[c]: the client's socket, as API Gateway has it

vars == <<users, connections, readable, messages, inv, joined, heard, socket>>

\* "closing": closed, and its $disconnect event has not been delivered yet.
SocketStates == {"new", "connecting", "open", "closing", "closed"}

Past == {"closing", "closed"}
Admitted == {"open"} \cup Past

Init ==
    /\ HandlersInit
    /\ socket = [c \in Conns |-> "new"]

(***************************************************************************)
(* Invocations begin.                                                      *)
(***************************************************************************)
Idle(i) == inv[i].pc = "idle"

\* The authorizer accepted the token of a new connection: route $connect.
Connect(i, c) ==
    /\ Idle(i)
    /\ socket[c] = "new"
    /\ socket' = [socket EXCEPT ![c] = "connecting"]
    /\ inv' = [inv EXCEPT ![i] = Invocation("connect", c, None, "upsert_user")]
    /\ UNCHANGED <<users, connections, readable, messages, joined, heard>>

\* Route joinRoom with a room id.
JoinRequest(i, c, r) ==
    /\ Idle(i)
    /\ socket[c] = "open"
    /\ inv' = [inv EXCEPT ![i] = Invocation("join", c, r, "get_room")]
    /\ UNCHANGED <<users, connections, readable, messages, joined, heard, socket>>

\* Route sendMessage with a room id and a body; the ids in Msgs bound how many.
SendRequest(i, c, r) ==
    /\ Idle(i)
    /\ socket[c] = "open"
    /\ MessagesLeft
    /\ inv' = [inv EXCEPT ![i] = Invocation("send", c, r, "get_conn")]
    /\ UNCHANGED <<users, connections, readable, messages, joined, heard, socket>>

\* The client closes its socket, or the idle or two-hour limit does.
Close(c) ==
    /\ socket[c] = "open"
    /\ socket' = [socket EXCEPT ![c] = "closing"]
    /\ UNCHANGED <<users, connections, readable, messages, inv, joined, heard>>

\* Route $disconnect, while requests of the same connection may be running.
Disconnect(i, c) ==
    /\ Idle(i)
    /\ socket[c] = "closing"
    /\ socket' = [socket EXCEPT ![c] = "closed"]
    /\ inv' = [inv EXCEPT ![i] = Invocation("disconnect", c, None, "get_conn")]
    /\ UNCHANGED <<users, connections, readable, messages, joined, heard>>

\* $disconnect is delivered on a best-effort basis.
DropDisconnect(c) ==
    /\ "drop" \in Faults
    /\ socket[c] = "closing"
    /\ socket' = [socket EXCEPT ![c] = "closed"]
    /\ UNCHANGED <<users, connections, readable, messages, inv, joined, heard>>

(***************************************************************************)
(* Invocations send, and end.                                              *)
(***************************************************************************)
Delivered == [form |-> "none", status |-> 200, arrived |-> TRUE]

\* What PostToConnection may return for d: 410 when its socket is not open, and
\* under "post" an error although the frame may have arrived.
PostResults(d) ==
    (IF socket[d] = "open" THEN {Delivered}
     ELSE [form : SdkErrors, status : {410}, arrived : {FALSE}])
    \cup (IF "post" \in Faults
          THEN [form : SdkErrors, status : {500}, arrived : {FALSE, socket[d] = "open"}]
          ELSE {})

\* Mutant: every error is taken for a 410.
AnyError(err) == err.status # 200

\* The type assertion looks at the outermost error only.
IsGone(err) == err.form = "bare" /\ err.status = 410

\* Mutant: the loop returns at the first error instead of logging it.
PostOrGiveUp(i, d, err) ==
    /\ heard' = IF err.arrived /\ inv[i].frame.type = "message"
                THEN heard \cup {<<d, inv[i].frame.msg>>} ELSE heard
    /\ inv' = [inv EXCEPT ![i] =
                 Continue(@, IF err = Delivered THEN @.targets \ {d} ELSE {})]

\* One turn of the loop of BroadcastToRoom: frame was posted to d, with this
\* result; only a 410 that isGone recognises leads to a deletion.
Post(i, d, err) ==
    LET v == inv[i]
        left == v.targets \ {d}
    IN  /\ heard' = IF err.arrived /\ v.frame.type = "message"
                    THEN heard \cup {<<d, v.frame.msg>>} ELSE heard
        /\ inv' = [inv EXCEPT ![i] =
                     IF IsGone(err)
                     THEN [v EXCEPT !.pc = "delete_stale", !.targets = left, !.stale = d]
                     ELSE Continue(v, left)]

PostToConnection(i) ==
    /\ inv[i].pc = "post"
    /\ \E d \in inv[i].targets : \E err \in PostResults(d) : Post(i, d, err)
    /\ UNCHANGED <<users, connections, readable, messages, joined, socket>>

\* $connect has returned.  Success opens the socket; a failure refuses it, and
\* the gateway may or may not send a $disconnect for it.
Respond(i) ==
    /\ inv[i].pc \in {"ok", "failed"}
    /\ \E s \in IF inv[i].pc = "ok" THEN {"open"} ELSE {"closing", "closed"} :
          socket' = [socket EXCEPT ![inv[i].conn] = s]
    /\ inv' = [inv EXCEPT ![i] = IdleInvocation]
    /\ UNCHANGED <<users, connections, readable, messages, joined, heard>>

\* The function times out, or its container fails, between two calls.
Kill(i) ==
    /\ "kill" \in Faults
    /\ inv[i].pc \notin {"idle", "ok", "failed"}
    /\ Return(i, "failed")
    /\ UNCHANGED <<users, connections, readable, messages, joined, heard, socket>>

(***************************************************************************)
(* The specification.                                                      *)
(***************************************************************************)
HandlerNext(i) == HandlerStep(i) /\ UNCHANGED socket

SettleNext(c) == Settle(c) /\ UNCHANGED socket

Next ==
    \/ \E i \in Invs : HandlerNext(i) \/ PostToConnection(i) \/ Respond(i) \/ Kill(i)
    \/ \E i \in Invs, c \in Conns : Connect(i, c) \/ Disconnect(i, c)
    \/ \E i \in Invs, c \in Conns, r \in RoomIds :
          JoinRequest(i, c, r) \/ SendRequest(i, c, r)
    \/ \E c \in Conns : Close(c) \/ DropDisconnect(c) \/ SettleNext(c)

Spec == Init /\ [][Next]_vars

\* A running invocation goes on and returns (Lambda runs it), and a $disconnect
\* that is not dropped is delivered.  Strong fairness because the slots, which
\* only bound the model, are busy now and then; Lambda starts a new container.
FairSpec ==
    /\ Spec
    /\ \A i \in Invs : WF_vars(HandlerNext(i) \/ PostToConnection(i)) /\ WF_vars(Respond(i))
    /\ \A c \in Conns : SF_vars(\E i \in Invs : Disconnect(i, c))

(***************************************************************************)
(* Safety.                                                                 *)
(***************************************************************************)

\* Every variable keeps its type; in particular no broadcast frame is built
\* from a row that is in no room (the RoomID != nil tests of the handlers).
TypeOK ==
    /\ HandlersTypeOK
    /\ socket \in [Conns -> SocketStates]

OwnedRow(c) ==
    /\ connections[c] # NoRow
    /\ connections[c].user = Owner[c]
    /\ Owner[c] \in users

\* The row of an open connection is there and names its owner, whatever stale
\* removals (BroadcastToRoom), lost answers and late $disconnects do around it.
LiveConnectionKept ==
    \A c \in Conns : socket[c] = "open" => OwnedRow(c)

\* A stored message names the owner of the connection that sent it, or nobody
\* when the row had been deleted and brought back by a join (SetConnectionRoom
\* is an upsert), which only happens to a connection that has been closed.
MessagesAttributed ==
    \A m \in messages :
        \/ m.user = Owner[m.from]
        \/ m.user = None /\ socket[m.from] \in Past

\* A frame under way tells the truth: its subject was let into the room before
\* anybody is told it joined or left, and a chat message in flight is stored.
FramesTruthful ==
    \A i \in Invs : LET f == inv[i].frame IN f # NoFrame =>
        /\ <<inv[i].conn, f.room>> \in joined
        /\ f.type = "message" =>
              \E m \in messages : m.id = f.msg /\ m.room = f.room /\ m.user = f.user

\* What a client observes is what the chat promises: the server implements
\* ChatRooms (NOT_IN_ROOM check, store before broadcast, room-index audience).
Promise == INSTANCE ChatRooms WITH log <- messages

PromiseKept == Promise!Spec

(***************************************************************************)
(* Why the safety properties hold: an inductive invariant.                 *)
(***************************************************************************)

\* What any version of a row says of the connection c it belongs to.
RowSound(c, row) ==
    row # NoRow =>
        /\ row.user \in {Owner[c], None}
        /\ row.user = None => socket[c] \in Past
        /\ row.room # None => <<c, row.room>> \in joined

RowsSound ==
    \A c \in Conns :
        /\ connections[c] \in readable[c]
        /\ \A row \in readable[c] : RowSound(c, row)

JoinedSound ==
    \A c \in Conns, r \in RoomIds :
        <<c, r>> \in joined => socket[c] \in Admitted /\ r \in Rooms

Broadcasting == {"query", "post", "delete_stale"}

\* What an invocation has established by the time it gets to its next call.
ConnectSound(v) ==
    /\ v.pc \in {"upsert_user", "insert_conn", "ok", "failed"}
    /\ socket[v.conn] = "connecting"
    /\ v.pc = "insert_conn" => Owner[v.conn] \in users
    /\ v.pc = "ok" => OwnedRow(v.conn)

DisconnectSound(v) ==
    /\ v.pc \in {"get_conn", "delete_conn"} \cup Broadcasting
    /\ socket[v.conn] = "closed"

JoinSound(v) ==
    /\ v.pc \in {"get_room", "get_conn", "set_room", "ack", "send_error"} \cup Broadcasting
    /\ socket[v.conn] \in Admitted
    /\ v.room \in RoomIds
    /\ v.pc \notin {"get_room", "send_error"} => v.room \in Rooms
    /\ v.pc = "ack" => <<v.conn, v.room>> \in joined

SendSound(v) ==
    /\ v.pc \in {"get_conn", "get_room", "insert_msg", "send_error"} \cup Broadcasting
    /\ socket[v.conn] \in Admitted
    /\ v.room \in RoomIds
    /\ v.pc \in {"get_room", "insert_msg"} =>
          /\ <<v.conn, v.room>> \in joined
          /\ v.user \in {Owner[v.conn], None}
          /\ v.user = None => socket[v.conn] \in Past

\* A broadcast under way is truthful, goes to connections let into its room, and
\* deletes only connections that are gone.
BroadcastSound(v) ==
    IF v.pc \in Broadcasting
    THEN /\ v.frame \in Frame
         /\ <<v.conn, v.frame.room>> \in joined
         /\ v.frame.type = "message" =>
               \E m \in messages : /\ m.id = v.frame.msg
                                   /\ m.room = v.frame.room
                                   /\ m.user = v.frame.user
         /\ \A d \in v.targets : <<d, v.frame.room>> \in joined
         /\ v.pc = "delete_stale" => v.stale \in Conns /\ socket[v.stale] \in Past
    ELSE v.frame = NoFrame /\ v.targets = {}

Sound(v) ==
    /\ v.op = "none" => v = IdleInvocation
    /\ v.op # "none" => v.conn \in Conns
    /\ v.op = "connect" => ConnectSound(v)
    /\ v.op = "disconnect" => DisconnectSound(v)
    /\ v.op = "join" => JoinSound(v)
    /\ v.op = "send" => SendSound(v)
    /\ BroadcastSound(v)

\* A connection is opened by one invocation.
ConnectsUnique ==
    \A i, j \in Invs :
        inv[i].op = "connect" /\ inv[j].op = "connect" /\ inv[i].conn = inv[j].conn
            => i = j

\* The inductive invariant: the safety properties follow from it.
IInv ==
    /\ TypeOK
    /\ LiveConnectionKept
    /\ MessagesAttributed
    /\ RowsSound
    /\ JoinedSound
    /\ \A i \in Invs : Sound(inv[i])
    /\ ConnectsUnique

(***************************************************************************)
(* Liveness, under FairSpec and without the faults that forbid it.         *)
(***************************************************************************)

\* Connection d is settled in room r: open, and every reader sees it there.
SettledIn(d, r) ==
    socket[d] = "open" /\ \A row \in readable[d] : Listed(row, r)

\* A message about to be broadcast reaches every connection settled in its room,
\* unless that connection closes or moves first: one failed send does not end the
\* loop.
MessageReachesMembers ==
    \A d \in Conns, m \in Msgs, r \in RoomIds :
        (/\ SettledIn(d, r)
         /\ \E i \in Invs : /\ inv[i].pc = "query"
                            /\ inv[i].frame.msg = m /\ inv[i].frame.room = r)
            ~> (<<d, m>> \in heard \/ ~SettledIn(d, r))

\* Once a connection has closed with no join of it still running, its row goes
\* away for good, in a room or not (HandleDisconnect).
ClosedRowsGo ==
    \A c \in Conns :
        (/\ socket[c] = "closing"
         /\ \A i \in Invs : ~(inv[i].conn = c /\ inv[i].op = "join"))
            ~> [](connections[c] = NoRow)

\* Stale connections (410 Gone) are removed: a connection that is gone when a
\* broadcast comes to it is without a row sooner or later.
StaleConnectionsRemoved ==
    \A i \in Invs, d \in Conns :
        (inv[i].pc = "post" /\ d \in inv[i].targets /\ socket[d] \in Past)
            ~> (connections[d] = NoRow)
================================================================================
