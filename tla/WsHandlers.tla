------------------------------ MODULE WsHandlers -------------------------------
(***************************************************************************)
(* internal/ws (HandleConnect, HandleDisconnect, HandleJoinRoom,           *)
(* HandleSendMessage, BroadcastToRoom) and the queries of internal/db they *)
(* call.  An invocation of a handler is a record that walks through its    *)
(* database calls and sends; every call is one action, so that other       *)
(* invocations run between any two of them.  How invocations begin and end *)
(* and what a send does belongs to the deployment that extends this module.*)
(*                                                                         *)
(* DynamoDB is external.  UpdateItem, PutItem and DeleteItem act on the    *)
(* item itself (connections); GetItem and the room-index query are         *)
(* eventually consistent and may return any version in readable.           *)
(***************************************************************************)
EXTENDS Naturals, FiniteSets

CONSTANTS
    Conns,      \* connection ids
    Users,      \* users (Cognito subs)
    Owner,      \* Owner[c]: the user whose token opened connection c
    RoomIds,    \* room ids a client may name
    Rooms,      \* those of them that are in the rooms table
    Msgs,       \* message ids uuid.NewString may return: bounds the messages
    Invs,       \* invocation slots: bounds the invocations in flight
    PageLimit,  \* connections that fit in one page of a Query (1 MB)
    Faults,     \* what may go wrong: see FaultKinds
    None,       \* an absent attribute
    NoRow       \* an absent item of the connections table

\* "db": a call fails, or succeeds and reports an error; "post": a send to an
\* open connection fails; "kill": an invocation is cut short (30 s timeout);
\* "drop": a $disconnect event is lost; "stale": reads lag behind writes.
FaultKinds == {"db", "post", "kill", "drop", "stale"}

\* An item of the connections table.
Row == [user : Users \cup {None}, room : RoomIds \cup {None}]

ASSUME ConstantsAssumption ==
    /\ Owner \in [Conns -> Users]
    /\ Rooms \subseteq RoomIds
    /\ PageLimit \in Nat \ {0}
    /\ Faults \subseteq FaultKinds
    /\ None \notin Conns \cup Users \cup RoomIds \cup Msgs
    /\ NoRow \notin Row

VARIABLES
    users,        \* the users table: subs that have a row
    connections,  \* the connections table
    readable,     \* readable[c]: versions of the item of c that a read may see
    messages,     \* the messages table; from is the sender, for the properties
    inv,          \* inv[i]: the invocation running in slot i
    joined,       \* history: <<c, r>> when the row of c was moved into r
    heard         \* history: <<c, m>> when message m was delivered to c

(***************************************************************************)
(* Frames and invocations.                                                 *)
(***************************************************************************)
NoFrame == [type |-> "none", room |-> None, user |-> None, msg |-> None]

Frame ==
    [type : {"user_joined", "user_left", "message"}, room : RoomIds,
     user : Users \cup {None}, msg : Msgs \cup {None}]

UserEvent(type, room, user) ==
    [type |-> type, room |-> room, user |-> user, msg |-> None]

ChatMessage(room, user, id) ==
    [type |-> "message", room |-> room, user |-> user, msg |-> id]

\* An invocation of op on behalf of conn, about to make the call pc.  user is
\* the name read from the connection's item and left the old room a join tells;
\* targets are the connections a broadcast has still to send frame to, stale is
\* the one it is deleting.
Invocation(op, conn, room, pc) ==
    [pc |-> pc, op |-> op, conn |-> conn, room |-> room, user |-> None,
     left |-> None, frame |-> NoFrame, targets |-> {}, stale |-> None]

IdleInvocation == Invocation("none", None, None, "idle")

Ops == {"none", "connect", "disconnect", "join", "send"}

PCs == {"idle", "upsert_user", "insert_conn", "get_conn", "delete_conn",
        "get_room", "set_room", "ack", "insert_msg", "query", "post",
        "delete_stale", "send_error", "ok", "failed"}

InvocationType ==
    [pc : PCs, op : Ops, conn : Conns \cup {None}, room : RoomIds \cup {None},
     user : Users \cup {None}, left : RoomIds \cup {None},
     frame : Frame \cup {NoFrame}, targets : SUBSET Conns, stale : Conns \cup {None}]

MessageType ==
    [id : Msgs, room : RoomIds, user : Users \cup {None}, from : Conns]

HandlersTypeOK ==
    /\ users \subseteq Users
    /\ connections \in [Conns -> Row \cup {NoRow}]
    /\ readable \in [Conns -> SUBSET (Row \cup {NoRow})]
    /\ messages \subseteq MessageType
    /\ inv \in [Invs -> InvocationType]
    /\ joined \subseteq Conns \X RoomIds
    /\ heard \subseteq Conns \X Msgs

HandlersInit ==
    /\ users = {}
    /\ connections = [c \in Conns |-> NoRow]
    /\ readable = [c \in Conns |-> {NoRow}]
    /\ messages = {}
    /\ inv = [i \in Invs |-> IdleInvocation]
    /\ joined = {}
    /\ heard = {}

At(i, op, pc) == inv[i].op = op /\ inv[i].pc = pc

Goto(i, pc) == inv' = [inv EXCEPT ![i].pc = pc]

\* The invocation v has returned.  The gateway acts on the result of $connect
\* only; the slot of any other invocation is free at once.
Returned(v, result) ==
    IF v.op = "connect" THEN Invocation("connect", v.conn, None, result)
                        ELSE IdleInvocation

Return(i, result) == inv' = [inv EXCEPT ![i] = Returned(@, result)]

(***************************************************************************)
(* DynamoDB as the queries use it.                                         *)
(***************************************************************************)

\* A write happens and is confirmed; under "db" it may be refused, or happen
\* and yet be reported as an error (the answer is lost).
WriteOutcomes ==
    {"ok"} \cup (IF "db" \in Faults THEN {"refused", "unconfirmed"} ELSE {})

\* The item of c becomes row; a reader may go on seeing the older versions.
PutRow(c, row, outcome) ==
    IF outcome = "refused"
    THEN UNCHANGED <<connections, readable>>
    ELSE /\ connections' = [connections EXCEPT ![c] = row]
         /\ readable' = [readable EXCEPT
                           ![c] = {row} \cup (IF "stale" \in Faults THEN @ ELSE {})]

\* What GetConnection returns: NoRow stands for every error, "not found" and a
\* failed call alike, which the handlers do not tell apart.
GetConnection(c) ==
    readable[c] \cup (IF "db" \in Faults THEN {NoRow} ELSE {})

\* The possible answers of GetRoomByID; rooms are never deleted.
GetRoomByID(r) ==
    {r \in Rooms} \cup (IF "db" \in Faults THEN {FALSE} ELSE {})

\* Mutant: the query does not look at the room.
ListedAnywhere(row, r) == row # NoRow

Listed(row, r) == row # NoRow /\ row.room = r

\* What GetConnectionsByRoom may return: every connection that all readable
\* versions put in the room and some that only an old version puts there, unless
\* the page is full, since the query reads one page only.
GetConnectionsByRoom(r) ==
    LET sure == {c \in Conns : \A row \in readable[c] : Listed(row, r)}
        some == {c \in Conns : \E row \in readable[c] : Listed(row, r)}
    IN  {page \in SUBSET some :
            \/ sure \subseteq page /\ Cardinality(page) <= PageLimit
            \/ Cardinality(page) = PageLimit}

\* Replication catches up: every reader sees the current item of c.
Settle(c) ==
    /\ readable[c] # {connections[c]}
    /\ readable' = [readable EXCEPT ![c] = {connections[c]}]
    /\ UNCHANGED <<users, connections, messages, inv, joined, heard>>

(***************************************************************************)
(* BroadcastToRoom.                                                        *)
(***************************************************************************)

Resume(v, pc) ==
    [v EXCEPT !.pc = pc, !.frame = NoFrame, !.targets = {}, !.stale = None]

\* Where the handler goes on once its broadcast has returned, with or without
\* an error: errors of a broadcast are only logged.
AfterBroadcast(v) ==
    CASE v.op = "disconnect"                         -> Resume(v, "delete_conn")
      [] v.op = "join" /\ v.frame.type = "user_left" -> Resume(v, "set_room")
      [] OTHER                                       -> Returned(v, "ok")

\* The loop over the connections found: send to the ones left, or return.
Continue(v, left) ==
    IF left = {}
    THEN AfterBroadcast(v)
    ELSE [v EXCEPT !.pc = "post", !.targets = left, !.stale = None]

\* The invocation v starts to broadcast frame to the frame's room.
Broadcast(v, frame) == [v EXCEPT !.pc = "query", !.frame = frame]

\* GetConnectionsByRoom; when it fails, or the API client cannot be made, the
\* broadcast returns without having sent anything.
QueryRoom(i) ==
    /\ inv[i].pc = "query"
    /\ \/ \E found \in GetConnectionsByRoom(inv[i].frame.room) :
             inv' = [inv EXCEPT ![i] = Continue(@, found)]
       \/ /\ Faults \cap {"db", "post"} # {}
          /\ inv' = [inv EXCEPT ![i] = Continue(@, {})]
    /\ UNCHANGED <<users, connections, readable, messages, joined, heard>>

\* DeleteConnection of a connection whose send answered 410 Gone; its error is
\* only logged, and the loop goes on.
DeleteStale(i) ==
    /\ inv[i].pc = "delete_stale"
    /\ \E outcome \in WriteOutcomes : PutRow(inv[i].stale, NoRow, outcome)
    /\ inv' = [inv EXCEPT ![i] = Continue(@, @.targets)]
    /\ UNCHANGED <<users, messages, joined, heard>>

(***************************************************************************)
(* HandleConnect.                                                          *)
(***************************************************************************)
UpsertUser(i) ==
    /\ At(i, "connect", "upsert_user")
    /\ \E outcome \in WriteOutcomes :
          /\ users' = IF outcome = "refused" THEN users
                      ELSE users \cup {Owner[inv[i].conn]}
          /\ IF outcome = "ok" THEN Goto(i, "insert_conn") ELSE Return(i, "failed")
    /\ UNCHANGED <<connections, readable, messages, joined, heard>>

\* Mutant: an error of the insertion is ignored.
InsertConnectionUnchecked(i) ==
    /\ At(i, "connect", "insert_conn")
    /\ \E outcome \in WriteOutcomes :
          PutRow(inv[i].conn, [user |-> Owner[inv[i].conn], room |-> None], outcome)
    /\ Return(i, "ok")
    /\ UNCHANGED <<users, messages, joined, heard>>

InsertConnection(i) ==
    /\ At(i, "connect", "insert_conn")
    /\ \E outcome \in WriteOutcomes :
          /\ PutRow(inv[i].conn,
                    [user |-> Owner[inv[i].conn], room |-> None], outcome)
          /\ Return(i, IF outcome = "ok" THEN "ok" ELSE "failed")
    /\ UNCHANGED <<users, messages, joined, heard>>

(***************************************************************************)
(* HandleDisconnect.                                                       *)
(***************************************************************************)

\* Mutant: the handler does not test RoomID for nil.
DisconnectWithoutNilTest(i) ==
    /\ At(i, "disconnect", "get_conn")
    /\ \E row \in GetConnection(inv[i].conn) :
          \/ row = NoRow /\ Return(i, "ok")
          \/ /\ row # NoRow
             /\ inv' = [inv EXCEPT ![i] = Broadcast([@ EXCEPT !.room = row.room],
                          UserEvent("user_left", row.room, row.user))]
    /\ UNCHANGED <<users, connections, readable, messages, joined, heard>>

\* Mutant: the handler returns at once for a connection in no room.
DisconnectOnlyFromRoom(i) ==
    /\ At(i, "disconnect", "get_conn")
    /\ \E row \in GetConnection(inv[i].conn) :
          \/ /\ row = NoRow \/ row.room = None
             /\ Return(i, "ok")
          \/ /\ row # NoRow
             /\ row.room # None
             /\ inv' = [inv EXCEPT ![i] = Broadcast([@ EXCEPT !.room = row.room],
                          UserEvent("user_left", row.room, row.user))]
    /\ UNCHANGED <<users, connections, readable, messages, joined, heard>>

\* Mutant: the row is deleted without a word to its room.
DisconnectUntold(i) ==
    /\ At(i, "disconnect", "get_conn")
    /\ \E row \in GetConnection(inv[i].conn) :
          IF row = NoRow THEN Return(i, "ok") ELSE Goto(i, "delete_conn")
    /\ UNCHANGED <<users, connections, readable, messages, joined, heard>>

\* The read decides which room is told; an error of it ends the handler with
\* success and leaves the row.
DisconnectGetConnection(i) ==
    /\ At(i, "disconnect", "get_conn")
    /\ \E row \in GetConnection(inv[i].conn) :
          \/ /\ row = NoRow
             /\ Return(i, "ok")
          \/ /\ row # NoRow
             /\ row.room = None
             /\ Goto(i, "delete_conn")
          \/ /\ row # NoRow
             /\ row.room # None
             /\ inv' = [inv EXCEPT ![i] = Broadcast([@ EXCEPT !.room = row.room],
                          UserEvent("user_left", row.room, row.user))]
    /\ UNCHANGED <<users, connections, readable, messages, joined, heard>>

DeleteConnection(i) ==
    /\ At(i, "disconnect", "delete_conn")
    /\ \E outcome \in WriteOutcomes :
          /\ PutRow(inv[i].conn, NoRow, outcome)
          /\ Return(i, IF outcome = "ok" THEN "ok" ELSE "failed")
    /\ UNCHANGED <<users, messages, joined, heard>>

(***************************************************************************)
(* HandleJoinRoom.                                                         *)
(***************************************************************************)
JoinGetRoom(i) ==
    /\ At(i, "join", "get_room")
    /\ \E found \in GetRoomByID(inv[i].room) :
          Goto(i, IF found THEN "get_conn" ELSE "send_error")
    /\ UNCHANGED <<users, connections, readable, messages, joined, heard>>

\* Mutant: user_left is addressed to the room that is joined.
LeaveNewRoom(i) ==
    /\ At(i, "join", "get_conn")
    /\ \E row \in GetConnection(inv[i].conn) :
          \/ row = NoRow /\ Return(i, "failed")
          \/ /\ row # NoRow
             /\ inv' = [inv EXCEPT ![i] = Broadcast([@ EXCEPT !.user = row.user],
                          UserEvent("user_left", inv[i].room, row.user))]
    /\ UNCHANGED <<users, connections, readable, messages, joined, heard>>

\* Mutant: the old room is not told.
JoinUntold(i) ==
    /\ At(i, "join", "get_conn")
    /\ \E row \in GetConnection(inv[i].conn) :
          IF row = NoRow
          THEN Return(i, "failed")
          ELSE inv' = [inv EXCEPT ![i].pc = "set_room", ![i].user = row.user]
    /\ UNCHANGED <<users, connections, readable, messages, joined, heard>>

\* The room the connection was in, as the read shows it, is told it left.
JoinGetConnection(i) ==
    /\ At(i, "join", "get_conn")
    /\ \E row \in GetConnection(inv[i].conn) :
          \/ /\ row = NoRow
             /\ Return(i, "failed")
          \/ /\ row # NoRow
             /\ row.room \in {None, inv[i].room}
             /\ inv' = [inv EXCEPT ![i].pc = "set_room", ![i].user = row.user]
          \/ /\ row # NoRow
             /\ row.room \notin {None, inv[i].room}
             /\ inv' = [inv EXCEPT ![i] =
                          Broadcast([@ EXCEPT !.user = row.user, !.left = row.room],
                                    UserEvent("user_left", row.room, row.user))]
    /\ UNCHANGED <<users, connections, readable, messages, joined, heard>>

\* Mutant: the item is replaced (PutItem) instead of updated.
ReplaceRow(row, r) == [user |-> None, room |-> r]

\* UpdateItem with SET room_id: an upsert.  An item that has been deleted since
\* it was read comes back with nothing but its key and the room.
SetRoom(row, r) ==
    IF row = NoRow THEN [user |-> None, room |-> r] ELSE [row EXCEPT !.room = r]

SetConnectionRoom(i) ==
    /\ At(i, "join", "set_room")
    /\ LET c == inv[i].conn
           r == inv[i].room
       IN  \E outcome \in WriteOutcomes :
              /\ PutRow(c, SetRoom(connections[c], r), outcome)
              /\ joined' = IF outcome = "refused" THEN joined
                           ELSE joined \cup {<<c, r>>}
              /\ IF outcome = "ok" THEN Goto(i, "ack") ELSE Return(i, "failed")
    /\ UNCHANGED <<users, messages, heard>>

\* The joined ack is sent to the requester, its error only logged; then the new
\* room is told, in the name read before the move.
SendAck(i) ==
    /\ At(i, "join", "ack")
    /\ inv' = [inv EXCEPT ![i] = Broadcast(@, UserEvent("user_joined", @.room, @.user))]
    /\ UNCHANGED <<users, connections, readable, messages, joined, heard>>

(***************************************************************************)
(* HandleSendMessage.                                                      *)
(***************************************************************************)

\* Sends that have still to store their message.
PendingSends == {i \in Invs : inv[i].op = "send"
                              /\ inv[i].pc \in {"get_conn", "get_room", "insert_msg"}}

\* The bound on messages: each send under way may need an id of its own.
MessagesLeft == Cardinality(PendingSends) + Cardinality(messages) < Cardinality(Msgs)

\* Mutant: no NOT_IN_ROOM test.
SendFromAnywhere(i) ==
    /\ At(i, "send", "get_conn")
    /\ \E row \in GetConnection(inv[i].conn) :
          \/ row = NoRow /\ Return(i, "failed")
          \/ /\ row # NoRow
             /\ inv' = [inv EXCEPT ![i].pc = "get_room", ![i].user = row.user]
    /\ UNCHANGED <<users, connections, readable, messages, joined, heard>>

SendGetConnection(i) ==
    /\ At(i, "send", "get_conn")
    /\ \E row \in GetConnection(inv[i].conn) :
          \/ /\ row = NoRow
             /\ Return(i, "failed")
          \/ /\ row # NoRow
             /\ row.room # inv[i].room
             /\ Goto(i, "send_error")
          \/ /\ row # NoRow
             /\ row.room = inv[i].room
             /\ inv' = [inv EXCEPT ![i].pc = "get_room", ![i].user = row.user]
    /\ UNCHANGED <<users, connections, readable, messages, joined, heard>>

SendGetRoom(i) ==
    /\ At(i, "send", "get_room")
    /\ \E found \in GetRoomByID(inv[i].room) :
          Goto(i, IF found THEN "insert_msg" ELSE "send_error")
    /\ UNCHANGED <<users, connections, readable, messages, joined, heard>>

\* Mutant: the message is broadcast although it was not stored.
InsertMessageUnchecked(i) ==
    /\ At(i, "send", "insert_msg")
    /\ \E id \in Msgs, outcome \in WriteOutcomes :
          LET v == inv[i] IN
          /\ \A m \in messages : m.id # id
          /\ messages' = IF outcome = "refused" THEN messages
                         ELSE messages \cup {[id |-> id, room |-> v.room,
                                              user |-> v.user, from |-> v.conn]}
          /\ inv' = [inv EXCEPT ![i] = Broadcast(v, ChatMessage(v.room, v.user, id))]
    /\ UNCHANGED <<users, connections, readable, joined, heard>>

\* The message is stored under a fresh id; it is broadcast only when the write
\* was confirmed.
InsertMessage(i) ==
    /\ At(i, "send", "insert_msg")
    /\ \E id \in Msgs, outcome \in WriteOutcomes :
          LET v == inv[i] IN
          /\ \A m \in messages : m.id # id
          /\ messages' = IF outcome = "refused" THEN messages
                         ELSE messages \cup {[id |-> id, room |-> v.room,
                                              user |-> v.user, from |-> v.conn]}
          /\ inv' = [inv EXCEPT ![i] =
                       IF outcome = "ok"
                       THEN Broadcast(v, ChatMessage(v.room, v.user, id))
                       ELSE Returned(v, "failed")]
    /\ UNCHANGED <<users, connections, readable, joined, heard>>

\* sendError: an error frame to the requester, then the handler returns nil.
SendError(i) ==
    /\ inv[i].pc = "send_error"
    /\ Return(i, "ok")
    /\ UNCHANGED <<users, connections, readable, messages, joined, heard>>

(***************************************************************************)
(* The handlers.                                                           *)
(***************************************************************************)
HandleConnect(i) == UpsertUser(i) \/ InsertConnection(i)

HandleDisconnect(i) == DisconnectGetConnection(i) \/ DeleteConnection(i)

HandleJoinRoom(i) ==
    JoinGetRoom(i) \/ JoinGetConnection(i) \/ SetConnectionRoom(i) \/ SendAck(i)

HandleSendMessage(i) == SendGetConnection(i) \/ SendGetRoom(i) \/ InsertMessage(i)

\* Every step of an invocation but the sends of its broadcasts.
HandlerStep(i) ==
    \/ HandleConnect(i) \/ HandleDisconnect(i)
    \/ HandleJoinRoom(i) \/ HandleSendMessage(i)
    \/ QueryRoom(i) \/ DeleteStale(i) \/ SendError(i)

(***************************************************************************)
(* What comments and schema say of the connections table: true of a server *)
(* that runs the requests of a connection one after the other, broken      *)
(* where they overlap.                                                     *)
(***************************************************************************)

\* Every row of the connections table belongs to a user (SetConnectionRoom
\* "updates" a connection; the SQL schema has user_id NOT NULL).
RowsHaveOwner ==
    \A c \in Conns : connections[c] # NoRow => connections[c].user # None

\* HandleDisconnect notifies the room if the user was in one: when it deletes a
\* row, the room that row is in has been told.
DepartureAnnounced ==
    [][\A i \in Invs :
          At(i, "disconnect", "delete_conn") /\ inv'[i] # inv[i] =>
             LET row == connections[inv[i].conn]
             IN  row = NoRow \/ row.room \in {None, inv[i].room}]_<<connections, inv>>

\* HandleJoinRoom leaves the old room: when it moves a row, the room that row is
\* in has been told.
MovesAnnounced ==
    [][\A i \in Invs :
          At(i, "join", "set_room") /\ inv'[i] # inv[i] =>
             LET row == connections[inv[i].conn]
             IN  \/ row = NoRow
                 \/ row.room \in {None, inv[i].room, inv[i].left}]_<<connections, inv>>
================================================================================
