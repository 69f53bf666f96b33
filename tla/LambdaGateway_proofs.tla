-------------------------- MODULE LambdaGateway_proofs -------------------------
(***************************************************************************)
(* Proofs about LambdaGateway: IInv is inductive, the safety properties    *)
(* follow from it, and every behaviour of the gateway is one of ChatRooms. *)
(***************************************************************************)
EXTENDS LambdaGateway, WsHandlers_proofs

USE ConstantsAssumption, SdkErrorsAssumption

(***************************************************************************)
(* What every step leaves in place for the invocations it does not move.   *)
(***************************************************************************)

\* Sockets only ever advance from open to closing to closed.
SocketAdvances(c) ==
    /\ socket[c] \in Admitted => socket'[c] \in Admitted
    /\ socket[c] \in Past => socket'[c] \in Past
    /\ socket[c] = "closed" => socket'[c] = "closed"

\* Histories and the users and messages tables only grow.
RecordsGrow ==
    /\ joined \subseteq joined'
    /\ messages \subseteq messages'
    /\ users \subseteq users'

\* What an invocation has established stays true while others take steps.
LEMMA SoundKept ==
    ASSUME NEW v \in InvocationType, Sound(v), RecordsGrow,
           \A c \in Conns : SocketAdvances(c),
           v.op = "connect" => socket'[v.conn] = socket[v.conn],
           v.op = "connect" /\ OwnedRow(v.conn) => OwnedRow(v.conn)'
    PROVE  Sound(v)'
<1>1. v.op = "connect" => ConnectSound(v)'
  BY DEF Sound, ConnectSound, RecordsGrow
<1>2. v.op = "disconnect" => DisconnectSound(v)'
  BY DEF Sound, DisconnectSound, SocketAdvances
<1>3. v.op = "join" => JoinSound(v)'
  BY DEF Sound, JoinSound, SocketAdvances, RecordsGrow
<1>4. v.op = "send" => SendSound(v)'
  BY DEF Sound, SendSound, SocketAdvances, RecordsGrow
<1>5. BroadcastSound(v)'
  BY DEF Sound, BroadcastSound, SocketAdvances, RecordsGrow, InvocationType
<1>6. QED BY <1>1, <1>2, <1>3, <1>4, <1>5 DEF Sound

\* A step that moves one invocation and touches no table and no socket keeps the
\* invariant when the invocation it leaves behind is typed and sound.
LEMMA InvocationStep ==
    ASSUME IInv, NEW i \in Invs, NEW w \in InvocationType, Sound(w),
           w.op = "connect" => inv[i].op = "connect" /\ w.conn = inv[i].conn,
           inv' = [inv EXCEPT ![i] = w],
           heard' = heard \/ heard' \in SUBSET (Conns \X Msgs),
           UNCHANGED <<users, connections, readable, messages, joined, socket>>
    PROVE  IInv'
<1>1. TypeOK'
  BY DEF IInv, TypeOK, HandlersTypeOK
<1>2. LiveConnectionKept' /\ MessagesAttributed' /\ RowsSound' /\ JoinedSound'
  BY DEF IInv, LiveConnectionKept, OwnedRow, MessagesAttributed, RowsSound, RowSound,
         JoinedSound
<1>3. ASSUME NEW j \in Invs
      PROVE  Sound(inv[j])'
  <2>1. PICK v \in InvocationType : v = inv'[j] /\ Sound(v)
    BY DEF IInv, TypeOK, HandlersTypeOK
  <2>2. Sound(v)'
    BY <2>1 DEF Sound, ConnectSound, DisconnectSound, JoinSound, SendSound,
               BroadcastSound, OwnedRow
  <2>3. QED BY <2>1, <2>2
<1>4. ConnectsUnique'
  BY DEF IInv, ConnectsUnique, TypeOK, HandlersTypeOK
<1>5. QED BY <1>1, <1>2, <1>3, <1>4 DEF IInv

(***************************************************************************)
(* Steps that read, or send, and move their invocation only.               *)
(***************************************************************************)

LEMMA InvocationSound ==
    ASSUME IInv, NEW i \in Invs
    PROVE  inv[i] \in InvocationType /\ Sound(inv[i])
BY DEF IInv, TypeOK, HandlersTypeOK

\* An idle invocation is typed and sound, and so is a $connect that failed.
LEMMA IdleSound ==
    IdleInvocation \in InvocationType /\ Sound(IdleInvocation)
BY DEF IdleInvocation, Invocation, InvocationType, PCs, Ops, Sound, BroadcastSound,
       Broadcasting

LEMMA FailedSound ==
    ASSUME NEW v \in InvocationType, Sound(v)
    PROVE  /\ Returned(v, "failed") \in InvocationType
           /\ Sound(Returned(v, "failed"))
           /\ Returned(v, "failed").op = "connect" =>
                 v.op = "connect" /\ Returned(v, "failed").conn = v.conn
<1>1. Returned(v, "failed") \in InvocationType
  BY ReturnedShape
<1>2. CASE v.op = "connect"
  <2>1. Returned(v, "failed") = Invocation("connect", v.conn, None, "failed")
    BY <1>2, ReturnedShape
  <2>2. Sound(Invocation("connect", v.conn, None, "failed"))
    BY <1>2 DEF Sound, Invocation, ConnectSound, BroadcastSound, Broadcasting
  <2>3. Invocation("connect", v.conn, None, "failed").conn = v.conn
    BY DEF Invocation
  <2>4. QED BY <1>1, <1>2, <2>1, <2>2, <2>3
<1>3. CASE v.op # "connect"
  <2>1. Returned(v, "failed") = IdleInvocation
    BY <1>3, ReturnedShape
  <2>2. IdleInvocation.op # "connect"
    BY DEF IdleInvocation, Invocation
  <2>3. QED BY <1>1, <2>1, <2>2, IdleSound
<1>4. QED BY <1>2, <1>3

\* A read of the connections table (GetConnection) returns a sound row.
LEMMA ReadSound ==
    ASSUME IInv, NEW c \in Conns, NEW row \in GetConnection(c)
    PROVE  row \in Row \cup {NoRow} /\ RowSound(c, row)
<1>1. row \in readable[c] \/ row = NoRow
  BY DEF GetConnection
<1>2. QED BY <1>1 DEF IInv, TypeOK, HandlersTypeOK, RowsSound, RowSound

\* A broadcast of a truthful frame (Broadcast) starts sound.
LEMMA BroadcastStart ==
    ASSUME NEW v \in InvocationType, NEW f \in Frame,
           v.pc \notin Broadcasting, Sound(v), v.op \in {"disconnect", "join", "send"},
           v.op = "join" => v.room \in Rooms,
           <<v.conn, f.room>> \in joined, f.type # "message"
    PROVE  Broadcast(v, f) \in InvocationType /\ Sound(Broadcast(v, f))
<1>1. Broadcast(v, f) \in InvocationType
  BY DEF Broadcast, InvocationType, PCs
<1>2. QED
  BY <1>1 DEF Sound, Broadcast, BroadcastSound, Broadcasting, DisconnectSound, JoinSound,
         SendSound, InvocationType

LEMMA JoinGetRoomStep ==
    ASSUME IInv, NEW i \in Invs, JoinGetRoom(i), UNCHANGED socket
    PROVE  IInv'
<1>1. PICK found \in GetRoomByID(inv[i].room) :
         Goto(i, IF found THEN "get_conn" ELSE "send_error")
  BY DEF JoinGetRoom
<1>2. /\ inv[i] \in InvocationType
      /\ Sound(inv[i])
      /\ inv[i].op = "join"
      /\ inv[i].pc = "get_room"
  BY InvocationSound DEF JoinGetRoom, At
<1>3. found => inv[i].room \in Rooms
  BY DEF GetRoomByID
<1> DEFINE w == [inv[i] EXCEPT !.pc = IF found THEN "get_conn" ELSE "send_error"]
<1>4. w \in InvocationType
  BY <1>2 DEF InvocationType, PCs
<1>5. Sound(w)
  BY <1>2, <1>3 DEF InvocationType, Sound, JoinSound, BroadcastSound, Broadcasting
<1>6. inv' = [inv EXCEPT ![i] = w]
  BY <1>1 DEF Goto
<1>7. w.op = "connect" => inv[i].op = "connect" /\ w.conn = inv[i].conn
  BY <1>2 DEF InvocationType
<1> HIDE DEF w
<1>8. QED BY <1>4, <1>5, <1>6, <1>7, InvocationStep DEF JoinGetRoom

LEMMA JoinGetConnectionStep ==
    ASSUME IInv, NEW i \in Invs, JoinGetConnection(i), UNCHANGED socket
    PROVE  IInv'
<1>1. /\ inv[i] \in InvocationType
      /\ Sound(inv[i])
      /\ inv[i].op = "join"
      /\ inv[i].pc = "get_conn"
  BY InvocationSound DEF JoinGetConnection, At
<1>2. inv[i].conn \in Conns /\ inv[i].room \in Rooms
  BY <1>1 DEF Sound, JoinSound
<1>3. PICK row \in GetConnection(inv[i].conn) :
         \/ row = NoRow /\ Return(i, "failed")
         \/ /\ row # NoRow
            /\ row.room \in {None, inv[i].room}
            /\ inv' = [inv EXCEPT ![i].pc = "set_room", ![i].user = row.user]
         \/ /\ row # NoRow
            /\ row.room \notin {None, inv[i].room}
            /\ inv' = [inv EXCEPT ![i] =
                          Broadcast([@ EXCEPT !.user = row.user, !.left = row.room],
                                    UserEvent("user_left", row.room, row.user))]
  BY DEF JoinGetConnection
<1>4. row \in Row \cup {NoRow} /\ RowSound(inv[i].conn, row)
  BY <1>2, <1>3, ReadSound
<1> DEFINE v == [inv[i] EXCEPT !.user = row.user]
           f == UserEvent("user_left", row.room, row.user)
<1>5. CASE row = NoRow /\ Return(i, "failed")
  <2>1. inv' = [inv EXCEPT ![i] = Returned(inv[i], "failed")]
    BY <1>5 DEF Return
  <2>2. QED BY <1>1, <2>1, FailedSound, InvocationStep DEF JoinGetConnection
<1>6. ASSUME row # NoRow
      PROVE  v \in InvocationType /\ Sound(v) /\ v.op = "join"
  BY <1>1, <1>4, <1>6
     DEF Row, InvocationType, Sound, JoinSound, BroadcastSound, Broadcasting
<1>7. CASE /\ row # NoRow
           /\ inv' = [inv EXCEPT ![i].pc = "set_room", ![i].user = row.user]
  <2> DEFINE w == [v EXCEPT !.pc = "set_room"]
  <2>1. inv' = [inv EXCEPT ![i] = w]
    BY <1>7, <1>1 DEF InvocationType, IInv, TypeOK, HandlersTypeOK
  <2>2. w \in InvocationType /\ w.op = "join"
    BY <1>6, <1>7 DEF InvocationType, PCs
  <2>3. Sound(w)
    BY <1>1, <1>2, <1>6, <1>7
       DEF InvocationType, Sound, JoinSound, BroadcastSound, Broadcasting
  <2> HIDE DEF w, v
  <2>4. QED BY <2>1, <2>2, <2>3, InvocationStep DEF JoinGetConnection
<1>8. CASE /\ row # NoRow
           /\ row.room \notin {None, inv[i].room}
           /\ inv' = [inv EXCEPT ![i] =
                         Broadcast([@ EXCEPT !.user = row.user, !.left = row.room],
                                   UserEvent("user_left", row.room, row.user))]
  <2>1. f \in Frame /\ f.type # "message" /\ f.room = row.room
    BY <1>4, <1>8 DEF Row, Frame, UserEvent
  <2>2. /\ v.room \in Rooms
        /\ v.conn = inv[i].conn
        /\ v.pc \notin Broadcasting
        /\ <<v.conn, f.room>> \in joined
        /\ row.room \in RoomIds
    BY <1>1, <1>2, <1>4, <1>8, <2>1 DEF Row, RowSound, InvocationType, Broadcasting
  <2> DEFINE u == [v EXCEPT !.left = row.room]
  <2>3. inv' = [inv EXCEPT ![i] = Broadcast(u, f)]
    BY <1>8
  <2>4. v \in InvocationType /\ Sound(v) /\ v.op = "join"
    BY <1>6, <1>8
  <2> HIDE DEF v, f
  <2>5. /\ u \in InvocationType
        /\ u.op = "join" /\ u.pc = v.pc
        /\ u.conn = v.conn /\ u.room = v.room
    BY <2>2, <2>4 DEF InvocationType
  <2>6. Sound(u)
    BY <2>2, <2>4, <2>5 DEF InvocationType, Sound, JoinSound, BroadcastSound, Broadcasting
  <2>7. Broadcast(u, f).op = "join"
    BY <2>5 DEF Broadcast, InvocationType
  <2> HIDE DEF u
  <2>8. Broadcast(u, f) \in InvocationType /\ Sound(Broadcast(u, f))
    BY <2>1, <2>2, <2>5, <2>6, BroadcastStart
  <2>9. QED BY <2>3, <2>7, <2>8, InvocationStep DEF JoinGetConnection
<1>9. QED BY <1>3, <1>5, <1>7, <1>8

LEMMA DisconnectGetConnectionStep ==
    ASSUME IInv, NEW i \in Invs, DisconnectGetConnection(i), UNCHANGED socket
    PROVE  IInv'
<1>1. /\ inv[i] \in InvocationType
      /\ Sound(inv[i])
      /\ inv[i].op = "disconnect"
      /\ inv[i].pc = "get_conn"
  BY InvocationSound DEF DisconnectGetConnection, At
<1>2. inv[i].conn \in Conns
  BY <1>1 DEF Sound
<1>3. PICK row \in GetConnection(inv[i].conn) :
         \/ row = NoRow /\ Return(i, "ok")
         \/ /\ row # NoRow
            /\ row.room = None
            /\ Goto(i, "delete_conn")
         \/ /\ row # NoRow
            /\ row.room # None
            /\ inv' = [inv EXCEPT ![i] = Broadcast([@ EXCEPT !.room = row.room],
                          UserEvent("user_left", row.room, row.user))]
  BY DEF DisconnectGetConnection
<1>4. row \in Row \cup {NoRow} /\ RowSound(inv[i].conn, row)
  BY <1>2, <1>3, ReadSound
<1>5. CASE row = NoRow /\ Return(i, "ok")
  <2>1. inv' = [inv EXCEPT ![i] = IdleInvocation]
    BY <1>1, <1>5, ReturnedShape DEF Return
  <2>2. IdleInvocation.op # "connect"
    BY DEF IdleInvocation, Invocation
  <2>3. QED BY <2>1, <2>2, IdleSound, InvocationStep DEF DisconnectGetConnection
<1>6. CASE Goto(i, "delete_conn")
  <2> DEFINE w == [inv[i] EXCEPT !.pc = "delete_conn"]
  <2>1. inv' = [inv EXCEPT ![i] = w]
    BY <1>6 DEF Goto
  <2>2. w \in InvocationType /\ w.op = "disconnect"
    BY <1>1 DEF InvocationType, PCs
  <2>3. Sound(w)
    BY <1>1 DEF InvocationType, Sound, DisconnectSound, BroadcastSound, Broadcasting
  <2> HIDE DEF w
  <2>4. QED BY <2>1, <2>2, <2>3, InvocationStep DEF DisconnectGetConnection
<1>7. CASE /\ row # NoRow
           /\ row.room # None
           /\ inv' = [inv EXCEPT ![i] = Broadcast([@ EXCEPT !.room = row.room],
                          UserEvent("user_left", row.room, row.user))]
  <2> DEFINE v == [inv[i] EXCEPT !.room = row.room]
             f == UserEvent("user_left", row.room, row.user)
  <2>1. v \in InvocationType /\ Sound(v) /\ v.op = "disconnect"
    BY <1>1, <1>4, <1>7
       DEF Row, InvocationType, Sound, DisconnectSound, BroadcastSound, Broadcasting
  <2>2. f \in Frame /\ f.type # "message" /\ f.room = row.room
    BY <1>4, <1>7 DEF Row, Frame, UserEvent
  <2>3. v.conn = inv[i].conn /\ v.pc \notin Broadcasting /\ <<v.conn, f.room>> \in joined
    BY <1>1, <1>4, <1>7, <2>2 DEF RowSound, InvocationType, Broadcasting
  <2>4. inv' = [inv EXCEPT ![i] = Broadcast(v, f)]
    BY <1>7
  <2>5. Broadcast(v, f).op = "disconnect"
    BY <2>1 DEF Broadcast, InvocationType
  <2> HIDE DEF v, f
  <2>6. Broadcast(v, f) \in InvocationType /\ Sound(Broadcast(v, f))
    BY <2>1, <2>2, <2>3, BroadcastStart
  <2>7. QED BY <2>4, <2>5, <2>6, InvocationStep DEF DisconnectGetConnection
<1>8. QED BY <1>3, <1>5, <1>6, <1>7

LEMMA SendAckStep ==
    ASSUME IInv, NEW i \in Invs, SendAck(i), UNCHANGED socket
    PROVE  IInv'
<1>1. /\ inv[i] \in InvocationType
      /\ Sound(inv[i])
      /\ inv[i].op = "join"
      /\ inv[i].pc = "ack"
  BY InvocationSound DEF SendAck, At
<1> DEFINE f == UserEvent("user_joined", inv[i].room, inv[i].user)
<1>2. f \in Frame /\ f.type # "message" /\ f.room = inv[i].room
  BY <1>1 DEF Frame, UserEvent, InvocationType, Sound, JoinSound
<1>3. /\ inv[i].room \in Rooms
      /\ <<inv[i].conn, f.room>> \in joined
      /\ inv[i].pc \notin Broadcasting
  BY <1>1, <1>2 DEF Sound, JoinSound, Broadcasting
<1>4. inv' = [inv EXCEPT ![i] = Broadcast(inv[i], f)]
  BY DEF SendAck
<1>5. Broadcast(inv[i], f).op = "join"
  BY <1>1 DEF Broadcast, InvocationType
<1> HIDE DEF f
<1>6. Broadcast(inv[i], f) \in InvocationType /\ Sound(Broadcast(inv[i], f))
  BY <1>1, <1>2, <1>3, BroadcastStart
<1>7. QED BY <1>4, <1>5, <1>6, InvocationStep DEF SendAck

LEMMA SendGetConnectionStep ==
    ASSUME IInv, NEW i \in Invs, SendGetConnection(i), UNCHANGED socket
    PROVE  IInv'
<1>1. /\ inv[i] \in InvocationType
      /\ Sound(inv[i])
      /\ inv[i].op = "send"
      /\ inv[i].pc = "get_conn"
  BY InvocationSound DEF SendGetConnection, At
<1>2. inv[i].conn \in Conns /\ inv[i].room \in RoomIds
  BY <1>1 DEF Sound, SendSound
<1>3. PICK row \in GetConnection(inv[i].conn) :
         \/ row = NoRow /\ Return(i, "failed")
         \/ Goto(i, "send_error")
         \/ /\ row # NoRow
            /\ row.room = inv[i].room
            /\ inv' = [inv EXCEPT ![i].pc = "get_room", ![i].user = row.user]
  BY DEF SendGetConnection
<1>4. row \in Row \cup {NoRow} /\ RowSound(inv[i].conn, row)
  BY <1>2, <1>3, ReadSound
<1>5. CASE row = NoRow /\ Return(i, "failed")
  <2>1. inv' = [inv EXCEPT ![i] = Returned(inv[i], "failed")]
    BY <1>5 DEF Return
  <2>2. QED BY <1>1, <2>1, FailedSound, InvocationStep DEF SendGetConnection
<1>6. CASE Goto(i, "send_error")
  <2> DEFINE w == [inv[i] EXCEPT !.pc = "send_error"]
  <2>1. inv' = [inv EXCEPT ![i] = w]
    BY <1>6 DEF Goto
  <2>2. w \in InvocationType /\ w.op = "send"
    BY <1>1 DEF InvocationType, PCs
  <2>3. Sound(w)
    BY <1>1 DEF InvocationType, Sound, SendSound, BroadcastSound, Broadcasting
  <2> HIDE DEF w
  <2>4. QED BY <2>1, <2>2, <2>3, InvocationStep DEF SendGetConnection
<1>7. CASE /\ row # NoRow
           /\ row.room = inv[i].room
           /\ inv' = [inv EXCEPT ![i].pc = "get_room", ![i].user = row.user]
  <2> DEFINE w == [inv[i] EXCEPT !.pc = "get_room", !.user = row.user]
  <2>1. inv' = [inv EXCEPT ![i] = w]
    BY <1>7 DEF IInv, TypeOK, HandlersTypeOK
  <2>2. w \in InvocationType /\ w.op = "send"
    BY <1>1, <1>4, <1>7 DEF InvocationType, PCs, Row
  <2>3. row.room # None
    BY <1>2, <1>7
  <2>4. Sound(w)
    BY <1>1, <1>4, <1>7, <2>3
       DEF RowSound, InvocationType, Sound, SendSound, BroadcastSound, Broadcasting
  <2> HIDE DEF w
  <2>5. QED BY <2>1, <2>2, <2>4, InvocationStep DEF SendGetConnection
<1>8. QED BY <1>3, <1>5, <1>6, <1>7

LEMMA SendGetRoomStep ==
    ASSUME IInv, NEW i \in Invs, SendGetRoom(i), UNCHANGED socket
    PROVE  IInv'
<1>1. PICK pc \in {"insert_msg", "send_error"} : Goto(i, pc)
  BY DEF SendGetRoom
<1>2. /\ inv[i] \in InvocationType
      /\ Sound(inv[i])
      /\ inv[i].op = "send"
      /\ inv[i].pc = "get_room"
  BY InvocationSound DEF SendGetRoom, At
<1> DEFINE w == [inv[i] EXCEPT !.pc = pc]
<1>3. w \in InvocationType /\ w.op = "send"
  BY <1>2 DEF InvocationType, PCs
<1>4. Sound(w)
  BY <1>2 DEF InvocationType, Sound, SendSound, BroadcastSound, Broadcasting
<1>5. inv' = [inv EXCEPT ![i] = w]
  BY <1>1 DEF Goto
<1> HIDE DEF w
<1>6. QED BY <1>3, <1>4, <1>5, InvocationStep DEF SendGetRoom

LEMMA SendErrorStep ==
    ASSUME IInv, NEW i \in Invs, SendError(i), UNCHANGED socket
    PROVE  IInv'
<1>1. inv[i] \in InvocationType /\ inv[i].op # "connect"
  BY InvocationSound DEF SendError, Sound, ConnectSound
<1>2. inv' = [inv EXCEPT ![i] = IdleInvocation]
  BY <1>1, ReturnedShape DEF SendError, Return
<1>3. IdleInvocation.op # "connect"
  BY DEF IdleInvocation, Invocation
<1>4. QED BY <1>2, <1>3, IdleSound, InvocationStep DEF SendError

\* A broadcast that goes on or returns (Continue) is sound when what is left of
\* its targets was let into its room.
LEMMA ContinueSound ==
    ASSUME NEW v \in InvocationType, Sound(v), v.pc \in Broadcasting,
           NEW left \in SUBSET Conns,
           \A d \in left : <<d, v.frame.room>> \in joined
    PROVE  /\ Continue(v, left) \in InvocationType
           /\ Sound(Continue(v, left))
           /\ Continue(v, left).op # "connect"
<1>1. v.op # "connect"
  BY DEF Sound, ConnectSound, Broadcasting
<1>2. CASE Continue(v, left) =
              [v EXCEPT !.pc = "post", !.targets = left, !.stale = None]
  <2> DEFINE w == [v EXCEPT !.pc = "post", !.targets = left, !.stale = None]
  <2>1. /\ w.op = v.op
        /\ w.conn = v.conn
        /\ w.room = v.room
        /\ w.frame = v.frame
        /\ w.pc = "post"
        /\ w.targets = left
    BY DEF InvocationType
  <2> HIDE DEF w
  <2>2. BroadcastSound(w)
    BY <2>1 DEF Sound, BroadcastSound, Broadcasting
  <2>3. Sound(w)
    BY <1>1, <2>1, <2>2
       DEF Sound, DisconnectSound, JoinSound, SendSound, Broadcasting, IdleInvocation,
           Invocation, BroadcastSound
  <2>4. Continue(v, left) = w
    BY <1>2 DEF w
  <2>5. QED BY <1>1, <2>1, <2>3, <2>4, ContinueShape
<1>3. CASE v.op = "disconnect" /\ Continue(v, left) = Resume(v, "delete_conn")
  BY <1>3, ContinueShape
     DEF Resume, Sound, DisconnectSound, BroadcastSound, Broadcasting, InvocationType
<1>4. CASE v.op = "join" /\ Continue(v, left) = Resume(v, "set_room")
  BY <1>4, ContinueShape
     DEF Resume, Sound, JoinSound, BroadcastSound, Broadcasting, InvocationType
<1>5. CASE Continue(v, left) = Returned(v, "ok")
  <2>1. Continue(v, left) = IdleInvocation
    BY <1>1, <1>5, ReturnedShape
  <2>2. IdleInvocation.op # "connect"
    BY DEF IdleInvocation, Invocation
  <2>3. QED BY <2>1, <2>2, IdleSound
<1>6. QED BY <1>2, <1>3, <1>4, <1>5, ContinueShape

\* The room-index query finds connections that some readable version of their row
\* puts in the room, so they were let into it.
LEMMA QueryAudience ==
    ASSUME IInv, NEW r \in RoomIds, NEW found \in GetConnectionsByRoom(r)
    PROVE  found \in SUBSET Conns /\ \A d \in found : <<d, r>> \in joined
<1>1. found \subseteq {c \in Conns : \E row \in readable[c] : Listed(row, r)}
  BY DEF GetConnectionsByRoom
<1>2. ASSUME NEW d \in found
      PROVE  <<d, r>> \in joined
  <2>1. d \in Conns /\ \E row \in readable[d] : Listed(row, r)
    BY <1>1, <1>2
  <2>2. PICK row \in readable[d] : row # NoRow /\ row.room = r
    BY <2>1 DEF Listed
  <2>3. QED BY <2>1, <2>2 DEF IInv, RowsSound, RowSound
<1>3. QED BY <1>1, <1>2

LEMMA QueryRoomStep ==
    ASSUME IInv, NEW i \in Invs, QueryRoom(i), UNCHANGED socket
    PROVE  IInv'
<1>1. /\ inv[i] \in InvocationType
      /\ Sound(inv[i])
      /\ inv[i].pc \in Broadcasting
  BY InvocationSound DEF QueryRoom, Broadcasting
<1>2. inv[i].frame.room \in RoomIds
  BY <1>1 DEF Sound, BroadcastSound, Frame
<1>3. PICK left \in SUBSET Conns :
         /\ \A d \in left : <<d, inv[i].frame.room>> \in joined
         /\ inv' = [inv EXCEPT ![i] = Continue(inv[i], left)]
  <2>1. CASE \E found \in GetConnectionsByRoom(inv[i].frame.room) :
                inv' = [inv EXCEPT ![i] = Continue(@, found)]
    BY <1>2, <2>1, QueryAudience
  <2>2. CASE inv' = [inv EXCEPT ![i] = Continue(@, {})]
    BY <2>2
  <2>3. QED BY <2>1, <2>2 DEF QueryRoom
<1>4. QED BY <1>1, <1>3, ContinueSound, InvocationStep DEF QueryRoom

\* A connection whose socket is not open although it was
\* let into a room has been closed, so only such a one is taken for stale.
LEMMA PostToConnectionStep ==
    ASSUME IInv, NEW i \in Invs, PostToConnection(i)
    PROVE  IInv'
<1>1. /\ inv[i] \in InvocationType
      /\ Sound(inv[i])
      /\ inv[i].pc = "post"
      /\ inv[i].pc \in Broadcasting
  BY InvocationSound DEF PostToConnection, Broadcasting
<1>2. PICK d \in inv[i].targets : \E err \in PostResults(d) : Post(i, d, err)
  BY DEF PostToConnection
<1>3. PICK err \in PostResults(d) : Post(i, d, err)
  BY <1>2
<1> DEFINE left == inv[i].targets \ {d}
<1>4. /\ inv[i].frame \in Frame
      /\ d \in Conns
      /\ left \in SUBSET Conns
      /\ <<d, inv[i].frame.room>> \in joined
      /\ \A e \in left : <<e, inv[i].frame.room>> \in joined
  BY <1>1, <1>2 DEF Sound, BroadcastSound, InvocationType
<1>5. heard' = heard \/ heard' \in SUBSET (Conns \X Msgs)
  <2>1. CASE inv[i].frame.type = "message"
    <3>1. \E m \in messages : m.id = inv[i].frame.msg
      BY <1>1, <2>1 DEF Sound, BroadcastSound
    <3>2. inv[i].frame.msg \in Msgs
      BY <3>1 DEF IInv, TypeOK, HandlersTypeOK, MessageType
    <3>3. QED BY <1>3, <1>4, <3>2 DEF Post, IInv, TypeOK, HandlersTypeOK
  <2>2. CASE inv[i].frame.type # "message"
    BY <1>3, <2>2 DEF Post
  <2>3. QED BY <2>1, <2>2
<1>6. CASE IsGone(err)
  <2> DEFINE w == [inv[i] EXCEPT !.pc = "delete_stale", !.targets = left, !.stale = d]
  <2>1. inv' = [inv EXCEPT ![i] = w]
    BY <1>3, <1>6 DEF Post
  <2>2. /\ w \in InvocationType
        /\ w.op = inv[i].op
        /\ w.conn = inv[i].conn
        /\ w.room = inv[i].room
        /\ w.frame = inv[i].frame
        /\ w.pc = "delete_stale"
        /\ w.targets = left
        /\ w.stale = d
    BY <1>1, <1>4 DEF InvocationType, PCs
  <2>3. socket[d] # "open"
    <3>1. \A A : err \in [form : SdkErrors, status : {500}, arrived : A] => err.status = 500
      OBVIOUS
    <3>2. socket[d] = "open" => err = Delivered \/ err.status = 500
      BY <1>3, <3>1, Zenon DEF PostResults
    <3>3. QED BY <1>6, <3>2 DEF IsGone, Delivered
  <2>4. socket[d] \in Past
    BY <1>4, <2>3 DEF IInv, JoinedSound, Admitted, Frame
  <2> HIDE DEF w
  <2>5. BroadcastSound(w)
    BY <1>1, <1>4, <2>2, <2>4 DEF Sound, BroadcastSound, Broadcasting
  <2>6. Sound(w) /\ w.op # "connect"
    BY <1>1, <2>2, <2>5
       DEF Sound, ConnectSound, DisconnectSound, JoinSound, SendSound, Broadcasting,
           IdleInvocation, Invocation
  <2>7. QED BY <1>5, <2>1, <2>2, <2>6, InvocationStep DEF PostToConnection
<1>7. CASE ~IsGone(err)
  <2>1. inv' = [inv EXCEPT ![i] = Continue(inv[i], left)]
    BY <1>3, <1>7 DEF Post
  <2> HIDE DEF left
  <2>2. QED BY <1>1, <1>4, <1>5, <2>1, ContinueSound, InvocationStep DEF PostToConnection
<1>8. QED BY <1>6, <1>7

LEMMA KillStep ==
    ASSUME IInv, NEW i \in Invs, Kill(i)
    PROVE  IInv'
<1>1. inv' = [inv EXCEPT ![i] = Returned(inv[i], "failed")]
  BY DEF Kill, Return
<1>2. QED BY <1>1, InvocationSound, FailedSound, InvocationStep DEF Kill

\* Requests of an open connection start sound.
LEMMA RequestStep ==
    ASSUME IInv, NEW i \in Invs, NEW c \in Conns, NEW r \in RoomIds,
           JoinRequest(i, c, r) \/ SendRequest(i, c, r)
    PROVE  IInv'
<1>1. PICK w \in {Invocation("join", c, r, "get_room"),
                  Invocation("send", c, r, "get_conn")} :
         inv' = [inv EXCEPT ![i] = w]
  BY DEF JoinRequest, SendRequest
<1>2. socket[c] = "open"
  BY DEF JoinRequest, SendRequest
<1>3. w \in InvocationType /\ w.op # "connect"
  BY <1>1 DEF Invocation, InvocationType, PCs, Ops
<1>4. Sound(w)
  BY <1>1, <1>2
     DEF Invocation, Sound, JoinSound, SendSound, BroadcastSound, Broadcasting, Admitted
<1>5. UNCHANGED <<users, connections, readable, messages, joined, heard, socket>>
  BY DEF JoinRequest, SendRequest
<1>6. QED BY <1>1, <1>3, <1>4, <1>5, InvocationStep

(***************************************************************************)
(* Steps that write a table or move a socket.                              *)
(***************************************************************************)

\* The other invocations keep what they have established.
LEMMA OthersSound ==
    ASSUME IInv, NEW i \in Invs, RecordsGrow,
           \A c \in Conns : SocketAdvances(c),
           \A j \in Invs \ {i} : inv'[j] = inv[j],
           \A j \in Invs \ {i} : inv[j].op = "connect" =>
              socket'[inv[j].conn] = socket[inv[j].conn],
           \A c \in Conns, j \in Invs \ {i} :
              inv[j].op = "connect" /\ inv[j].conn = c /\ OwnedRow(c) => OwnedRow(c)',
           Sound(inv[i])'
    PROVE  \A j \in Invs : Sound(inv[j])'
<1>1. ASSUME NEW j \in Invs \ {i}
      PROVE  Sound(inv[j])'
  <2>1. PICK v \in InvocationType : v = inv[j] /\ Sound(v)
    BY InvocationSound
  <2>2. v.op = "connect" => v.conn \in Conns
    BY <2>1 DEF Sound
  <2>3. Sound(v)'
    BY <2>1, <2>2, SoundKept
  <2>4. QED BY <2>1, <2>3
<1>2. QED BY <1>1

\* Writing a sound row (PutRow) leaves sound rows behind, touches one connection,
\* and a refused write touches none.
LEMMA PutRowSound ==
    ASSUME IInv, NEW c \in Conns, NEW row \in Row \cup {NoRow}, NEW outcome,
           PutRow(c, row, outcome), joined \subseteq joined', UNCHANGED socket,
           RowSound(c, row)'
    PROVE  /\ RowsSound'
           /\ connections' \in [Conns -> Row \cup {NoRow}]
           /\ readable' \in [Conns -> SUBSET (Row \cup {NoRow})]
           /\ \A d \in Conns : d # c => connections'[d] = connections[d]
           /\ connections'[c] \in {connections[c], row}
           /\ outcome # "refused" => connections'[c] = row
<1>1. /\ connections \in [Conns -> Row \cup {NoRow}]
      /\ readable \in [Conns -> SUBSET (Row \cup {NoRow})]
      /\ RowsSound
  BY DEF IInv, TypeOK, HandlersTypeOK
<1>2. ASSUME NEW d \in Conns, NEW x, RowSound(d, x)
      PROVE  RowSound(d, x)'
  BY <1>2 DEF RowSound
<1>3. CASE outcome = "refused"
  <2>1. UNCHANGED <<connections, readable>>
    BY <1>3 DEF PutRow
  <2>2. RowsSound'
    BY <1>1, <1>2, <2>1 DEF RowsSound
  <2>3. QED BY <1>1, <1>3, <2>1, <2>2
<1>4. CASE outcome # "refused"
  <2>1. /\ connections' = [connections EXCEPT ![c] = row]
        /\ readable' = [readable EXCEPT
                           ![c] = {row} \cup (IF "stale" \in Faults THEN @ ELSE {})]
    BY <1>4 DEF PutRow
  <2>2. \A d \in Conns : d # c => readable'[d] = readable[d] /\ connections'[d] = connections[d]
    BY <1>1, <2>1
  <2>3. connections'[c] = row /\ row \in readable'[c] /\ readable'[c] \subseteq readable[c] \cup {row}
    BY <1>1, <2>1
  <2>4. RowsSound'
    BY <1>1, <1>2, <2>2, <2>3 DEF RowsSound
  <2>5. QED BY <1>1, <2>1, <2>2, <2>3, <2>4
<1>5. QED BY <1>3, <1>4

LEMMA UpsertUserStep ==
    ASSUME IInv, NEW i \in Invs, UpsertUser(i), UNCHANGED socket
    PROVE  IInv'
<1>1. /\ inv[i] \in InvocationType
      /\ Sound(inv[i])
      /\ inv[i].op = "connect"
      /\ inv[i].pc = "upsert_user"
      /\ inv \in [Invs -> InvocationType]
  BY InvocationSound DEF UpsertUser, At, IInv, TypeOK, HandlersTypeOK
<1>2. inv[i].conn \in Conns /\ socket[inv[i].conn] = "connecting"
  BY <1>1 DEF Sound, ConnectSound
<1>3. /\ users' \subseteq Users
      /\ users \subseteq users'
      /\ UNCHANGED <<connections, readable, messages, joined, heard, socket>>
  BY <1>2 DEF UpsertUser, IInv, TypeOK, HandlersTypeOK
<1>4. PICK w :
         /\ inv' = [inv EXCEPT ![i] = w]
         /\ \/ /\ w = [inv[i] EXCEPT !.pc = "insert_conn"]
               /\ Owner[inv[i].conn] \in users'
            \/ w = Returned(inv[i], "failed")
  BY DEF UpsertUser, Goto, Return
<1>5. /\ w \in InvocationType
      /\ w.op = "connect"
      /\ w.conn = inv[i].conn
      /\ Sound(w)'
  <2>1. CASE /\ w = [inv[i] EXCEPT !.pc = "insert_conn"]
             /\ Owner[inv[i].conn] \in users'
    <3>1. w \in InvocationType /\ w.op = "connect" /\ w.conn = inv[i].conn
      BY <1>1, <2>1 DEF InvocationType, PCs
    <3>2. Sound(w)'
      BY <1>1, <1>2, <1>3, <2>1
         DEF InvocationType, Sound, ConnectSound, BroadcastSound, Broadcasting
    <3>3. QED BY <3>1, <3>2
  <2>2. CASE w = Returned(inv[i], "failed")
    <3>1. w = Invocation("connect", inv[i].conn, None, "failed") /\ w \in InvocationType
      BY <1>1, <2>2, ReturnedShape
    <3>2. Sound(w)'
      BY <1>2, <1>3, <3>1
         DEF Invocation, Sound, ConnectSound, BroadcastSound, Broadcasting
    <3>3. QED BY <3>1, <3>2 DEF Invocation
  <2>3. QED BY <1>4, <2>1, <2>2
<1>6. \A j \in Invs : Sound(inv[j])'
  <2>1. Sound(inv[i])'
    BY <1>1, <1>4, <1>5
  <2>2. \A j \in Invs \ {i} : inv'[j] = inv[j]
    BY <1>1, <1>4
  <2>3. RecordsGrow /\ \A c \in Conns : SocketAdvances(c) /\ (OwnedRow(c) => OwnedRow(c)')
    BY <1>3 DEF RecordsGrow, SocketAdvances, OwnedRow
  <2>4. QED BY <1>3, <2>1, <2>2, <2>3, OthersSound
<1>7. LiveConnectionKept' /\ MessagesAttributed' /\ RowsSound' /\ JoinedSound'
  BY <1>3
     DEF IInv, LiveConnectionKept, OwnedRow, MessagesAttributed, RowsSound, RowSound,
         JoinedSound
<1>8. TypeOK' /\ ConnectsUnique'
  BY <1>1, <1>3, <1>4, <1>5 DEF IInv, TypeOK, HandlersTypeOK, ConnectsUnique
<1>9. QED BY <1>6, <1>7, <1>8 DEF IInv

LEMMA InsertConnectionStep ==
    ASSUME IInv, NEW i \in Invs, InsertConnection(i), UNCHANGED socket
    PROVE  IInv'
<1>1. /\ inv[i] \in InvocationType
      /\ Sound(inv[i])
      /\ inv[i].op = "connect"
      /\ inv[i].pc = "insert_conn"
      /\ inv \in [Invs -> InvocationType]
  BY InvocationSound DEF InsertConnection, At, IInv, TypeOK, HandlersTypeOK
<1>2. PICK c \in Conns : c = inv[i].conn /\ socket[c] = "connecting" /\ Owner[c] \in users
  BY <1>1 DEF Sound, ConnectSound
<1>3. UNCHANGED <<users, messages, joined, heard, socket>>
  BY DEF InsertConnection
<1>4. PICK row \in Row : row = [user |-> Owner[c], room |-> None]
  BY DEF Row
<1>5. PICK outcome \in WriteOutcomes :
         /\ PutRow(c, row, outcome)
         /\ Return(i, IF outcome = "ok" THEN "ok" ELSE "failed")
  BY <1>2, <1>4 DEF InsertConnection
<1>6. RowSound(c, row)' /\ row.user = Owner[c] /\ row # NoRow
  BY <1>4 DEF RowSound
<1>7. /\ RowsSound'
      /\ connections' \in [Conns -> Row \cup {NoRow}]
      /\ readable' \in [Conns -> SUBSET (Row \cup {NoRow})]
      /\ \A d \in Conns : d # c => connections'[d] = connections[d]
      /\ outcome # "refused" => connections'[c] = row
  BY <1>3, <1>5, <1>6, PutRowSound
<1>8. PICK result \in {"ok", "failed"} :
         /\ result = "ok" => outcome # "refused"
         /\ inv' = [inv EXCEPT ![i] = Returned(inv[i], result)]
  BY <1>5 DEF Return
<1>9. PICK w \in InvocationType :
         /\ w = Invocation("connect", c, None, result)
         /\ inv' = [inv EXCEPT ![i] = w]
  BY <1>1, <1>2, <1>8, ReturnedShape
<1>10. Sound(w)' /\ w.op = "connect" /\ w.conn = c
  BY <1>2, <1>3, <1>6, <1>7, <1>8, <1>9
     DEF Invocation, Sound, ConnectSound, BroadcastSound, Broadcasting, OwnedRow
<1>11. \A d \in Conns : d # c /\ OwnedRow(d) => OwnedRow(d)'
  BY <1>3, <1>7 DEF OwnedRow
<1>12. \A j \in Invs : Sound(inv[j])'
  <2>1. Sound(inv[i])'
    BY <1>1, <1>9, <1>10
  <2>2. \A j \in Invs \ {i} : inv'[j] = inv[j]
    BY <1>1, <1>9
  <2>3. RecordsGrow /\ \A d \in Conns : SocketAdvances(d)
    BY <1>3 DEF RecordsGrow, SocketAdvances
  <2>4. \A j \in Invs \ {i} : inv[j].op = "connect" => inv[j].conn # c
    BY <1>1, <1>2 DEF IInv, ConnectsUnique
  <2>5. QED BY <1>3, <1>11, <2>1, <2>2, <2>3, <2>4, OthersSound
<1>13. LiveConnectionKept'
  BY <1>2, <1>3, <1>11 DEF IInv, LiveConnectionKept
<1>14. MessagesAttributed' /\ JoinedSound'
  BY <1>3 DEF IInv, MessagesAttributed, JoinedSound
<1>15. TypeOK' /\ ConnectsUnique'
  BY <1>1, <1>2, <1>3, <1>7, <1>9, <1>10 DEF IInv, TypeOK, HandlersTypeOK, ConnectsUnique
<1>16. QED BY <1>7, <1>12, <1>13, <1>14, <1>15 DEF IInv

\* A write to the row of an admitted connection keeps the invariant when it keeps
\* the row of an open connection in its owner's name: SetConnectionRoom and both
\* callers of DeleteConnection are such writes.
LEMMA RowStep ==
    ASSUME IInv, NEW i \in Invs, NEW c \in Conns, NEW row \in Row \cup {NoRow},
           NEW outcome, PutRow(c, row, outcome), RowSound(c, row)',
           socket[c] \in Admitted,
           socket[c] = "open" => row # NoRow /\ row.user = Owner[c],
           joined \subseteq joined', joined' \subseteq Conns \X RoomIds, JoinedSound',
           NEW w \in InvocationType, w.op # "connect", Sound(w)',
           inv' = [inv EXCEPT ![i] = w],
           UNCHANGED <<users, messages, heard, socket>>
    PROVE  IInv'
<1>1. inv \in [Invs -> InvocationType] /\ \A j \in Invs : Sound(inv[j])
  BY DEF IInv, TypeOK, HandlersTypeOK
<1>2. /\ RowsSound'
      /\ connections' \in [Conns -> Row \cup {NoRow}]
      /\ readable' \in [Conns -> SUBSET (Row \cup {NoRow})]
      /\ \A d \in Conns : d # c => connections'[d] = connections[d]
      /\ connections'[c] \in {connections[c], row}
  BY PutRowSound
<1>3. LiveConnectionKept'
  BY <1>2 DEF IInv, LiveConnectionKept, OwnedRow
<1>4. \A j \in Invs : Sound(inv[j])'
  <2>1. Sound(inv[i])'
    BY <1>1
  <2>2. \A j \in Invs \ {i} : inv'[j] = inv[j]
    BY <1>1
  <2>3. RecordsGrow /\ \A d \in Conns : SocketAdvances(d)
    BY DEF RecordsGrow, SocketAdvances
  <2>4. \A j \in Invs \ {i} : inv[j].op = "connect" => inv[j].conn # c
    BY <1>1 DEF Sound, ConnectSound, Admitted, Past
  <2>5. \A d \in Conns : d # c /\ OwnedRow(d) => OwnedRow(d)'
    BY <1>2 DEF OwnedRow
  <2>6. QED BY <2>1, <2>2, <2>3, <2>4, <2>5, OthersSound
<1>5. MessagesAttributed'
  BY DEF IInv, MessagesAttributed
<1>6. TypeOK' /\ ConnectsUnique'
  BY <1>1, <1>2 DEF IInv, TypeOK, HandlersTypeOK, ConnectsUnique
<1>7. QED BY <1>2, <1>3, <1>4, <1>5, <1>6 DEF IInv

\* Deleting the row of a connection that is past.
LEMMA DeleteRowStep ==
    ASSUME IInv, NEW i \in Invs, NEW c \in Conns, NEW outcome,
           PutRow(c, NoRow, outcome), socket[c] \in Past,
           NEW w \in InvocationType, w.op # "connect", Sound(w),
           inv' = [inv EXCEPT ![i] = w],
           UNCHANGED <<users, messages, joined, heard, socket>>
    PROVE  IInv'
<1>1. Sound(w)'
  BY SoundKept DEF RecordsGrow, SocketAdvances
<1>2. RowSound(c, NoRow)'
  BY DEF RowSound
<1>3. socket[c] \in Admitted /\ socket[c] # "open"
  BY DEF Admitted, Past
<1>4. joined' \subseteq Conns \X RoomIds /\ JoinedSound'
  BY DEF IInv, TypeOK, HandlersTypeOK, JoinedSound
<1>5. QED BY <1>1, <1>2, <1>3, <1>4, RowStep

LEMMA DeleteStaleStep ==
    ASSUME IInv, NEW i \in Invs, DeleteStale(i), UNCHANGED socket
    PROVE  IInv'
<1>1. /\ inv[i] \in InvocationType
      /\ Sound(inv[i])
      /\ inv[i].pc \in Broadcasting
      /\ inv[i].pc = "delete_stale"
  BY InvocationSound DEF DeleteStale, Broadcasting
<1>2. /\ inv[i].stale \in Conns
      /\ socket[inv[i].stale] \in Past
      /\ inv[i].targets \in SUBSET Conns
      /\ \A d \in inv[i].targets : <<d, inv[i].frame.room>> \in joined
  BY <1>1 DEF Sound, BroadcastSound, InvocationType
<1>3. PICK outcome \in WriteOutcomes : PutRow(inv[i].stale, NoRow, outcome)
  BY DEF DeleteStale
<1>4. PICK w : w = Continue(inv[i], inv[i].targets)
  OBVIOUS
<1>5. w \in InvocationType /\ Sound(w) /\ w.op # "connect"
  BY <1>1, <1>2, <1>4, ContinueSound
<1>6. inv' = [inv EXCEPT ![i] = w]
  BY <1>4 DEF DeleteStale
<1>7. QED BY <1>2, <1>3, <1>5, <1>6, DeleteRowStep DEF DeleteStale

LEMMA DeleteConnectionStep ==
    ASSUME IInv, NEW i \in Invs, DeleteConnection(i), UNCHANGED socket
    PROVE  IInv'
<1>1. /\ inv[i] \in InvocationType
      /\ Sound(inv[i])
      /\ inv[i].op = "disconnect"
  BY InvocationSound DEF DeleteConnection, At
<1>2. inv[i].conn \in Conns /\ socket[inv[i].conn] \in Past
  BY <1>1 DEF Sound, DisconnectSound, Past
<1>3. PICK outcome \in WriteOutcomes :
         /\ PutRow(inv[i].conn, NoRow, outcome)
         /\ Return(i, IF outcome = "ok" THEN "ok" ELSE "failed")
  BY DEF DeleteConnection
<1>4. inv' = [inv EXCEPT ![i] = IdleInvocation]
  BY <1>1, <1>3, ReturnedShape DEF Return
<1>5. IdleInvocation.op # "connect"
  BY DEF IdleInvocation, Invocation
<1>6. QED BY <1>2, <1>3, <1>4, <1>5, IdleSound, DeleteRowStep DEF DeleteConnection

\* The upsert of SetConnectionRoom: it either moves a row that is there, in its
\* owner's name if the connection is open, or brings back one of a past connection.
LEMMA SetConnectionRoomStep ==
    ASSUME IInv, NEW i \in Invs, SetConnectionRoom(i), UNCHANGED socket
    PROVE  IInv'
<1>1. /\ inv[i] \in InvocationType
      /\ Sound(inv[i])
      /\ inv[i].op = "join"
      /\ inv[i].pc = "set_room"
  BY InvocationSound DEF SetConnectionRoom, At
<1>2. PICK c \in Conns, r \in RoomIds :
         /\ c = inv[i].conn
         /\ r = inv[i].room
         /\ r \in Rooms
         /\ socket[c] \in Admitted
  BY <1>1 DEF Sound, JoinSound
<1>3. PICK row : row = SetRoom(connections[c], r)
  OBVIOUS
<1>4. PICK outcome \in WriteOutcomes :
         /\ PutRow(c, row, outcome)
         /\ joined' = IF outcome = "refused" THEN joined ELSE joined \cup {<<c, r>>}
         /\ IF outcome = "ok" THEN Goto(i, "ack") ELSE Return(i, "failed")
  BY <1>2, <1>3 DEF SetConnectionRoom
<1>5. connections[c] \in Row \cup {NoRow} /\ RowSound(c, connections[c])
  BY DEF IInv, TypeOK, HandlersTypeOK, RowsSound
<1>6. /\ row \in Row
      /\ row # NoRow
      /\ row.room = r
      /\ connections[c] = NoRow => row.user = None
      /\ connections[c] # NoRow => row.user = connections[c].user
  BY <1>3, <1>5 DEF SetRoom, Row
<1>7. socket[c] = "open" => row.user = Owner[c]
  BY <1>6 DEF IInv, LiveConnectionKept, OwnedRow
<1>8. UNCHANGED <<users, messages, heard, socket>>
  BY DEF SetConnectionRoom
<1>9. CASE outcome = "refused"
  <2>1. UNCHANGED <<connections, readable, joined>>
    BY <1>4, <1>9 DEF PutRow
  <2>2. inv' = [inv EXCEPT ![i] = Returned(inv[i], "failed")]
    BY <1>4, <1>9 DEF Return
  <2>3. QED BY <1>1, <1>8, <2>1, <2>2, FailedSound, InvocationStep
<1>10. CASE outcome # "refused"
  <2>1. joined' = joined \cup {<<c, r>>}
    BY <1>4, <1>10
  <2>2. joined' \subseteq Conns \X RoomIds /\ JoinedSound'
    BY <1>2, <1>8, <2>1 DEF IInv, TypeOK, HandlersTypeOK, JoinedSound
  <2>3. RowSound(c, row)'
    <3>1. row.user \in {Owner[c], None}
      BY <1>5, <1>6 DEF RowSound
    <3>2. row.user = None => socket[c] # "open"
      BY <1>6, <1>7
    <3>3. QED BY <1>2, <1>6, <1>8, <2>1, <3>1, <3>2 DEF RowSound, Admitted
  <2>4. PICK w \in InvocationType :
           /\ inv' = [inv EXCEPT ![i] = w]
           /\ w.op # "connect"
           /\ Sound(w)'
    <3>1. CASE outcome = "ok"
      <4> DEFINE v == [inv[i] EXCEPT !.pc = "ack"]
      <4>1. PICK w : w = v
        OBVIOUS
      <4>2. w \in InvocationType /\ w.op = "join"
        BY <1>1, <4>1 DEF InvocationType, PCs
      <4>3. Sound(w)'
        BY <1>1, <1>2, <1>8, <2>1, <4>1
           DEF InvocationType, Sound, JoinSound, BroadcastSound, Broadcasting
      <4>4. inv' = [inv EXCEPT ![i] = w]
        BY <1>4, <3>1, <4>1 DEF Goto
      <4>5. QED BY <4>2, <4>3, <4>4
    <3>2. CASE outcome # "ok"
      <4>1. inv' = [inv EXCEPT ![i] = IdleInvocation]
        BY <1>1, <1>4, <3>2, ReturnedShape DEF Return
      <4>2. Sound(IdleInvocation)' /\ IdleInvocation.op # "connect"
        BY DEF IdleInvocation, Invocation, Sound, BroadcastSound, Broadcasting
      <4>3. QED BY <4>1, <4>2, IdleSound
    <3>3. QED BY <3>1, <3>2
  <2>5. QED BY <1>2, <1>4, <1>6, <1>7, <1>8, <2>1, <2>2, <2>3, <2>4, RowStep
<1>11. QED BY <1>9, <1>10

LEMMA InsertMessageStep ==
    ASSUME IInv, NEW i \in Invs, InsertMessage(i), UNCHANGED socket
    PROVE  IInv'
<1>1. /\ inv[i] \in InvocationType
      /\ Sound(inv[i])
      /\ inv[i].op = "send"
      /\ inv[i].pc = "insert_msg"
      /\ inv \in [Invs -> InvocationType]
  BY InvocationSound DEF InsertMessage, At, IInv, TypeOK, HandlersTypeOK
<1>2. PICK v \in InvocationType : v = inv[i]
  BY <1>1
<1>3. /\ v.conn \in Conns
      /\ v.room \in RoomIds
      /\ <<v.conn, v.room>> \in joined
      /\ v.user \in {Owner[v.conn], None}
      /\ v.user = None => socket[v.conn] \in Past
      /\ v.user \in Users \cup {None}
  BY <1>1, <1>2 DEF Sound, SendSound, InvocationType
<1>4. UNCHANGED <<users, connections, readable, joined, heard, socket>>
  BY DEF InsertMessage
<1>5. PICK id \in Msgs, outcome \in WriteOutcomes :
         LET m == [id |-> id, room |-> v.room, user |-> v.user, from |-> v.conn] IN
         /\ messages' = IF outcome = "refused" THEN messages ELSE messages \cup {m}
         /\ inv' = [inv EXCEPT ![i] =
                      IF outcome = "ok"
                      THEN Broadcast(v, ChatMessage(v.room, v.user, id))
                      ELSE Returned(v, "failed")]
  BY <1>2 DEF InsertMessage
<1>6. PICK m \in MessageType :
         m = [id |-> id, room |-> v.room, user |-> v.user, from |-> v.conn]
  BY <1>3 DEF MessageType
<1>7. messages' = IF outcome = "refused" THEN messages ELSE messages \cup {m}
  BY <1>5, <1>6
<1>8. MessagesAttributed'
  BY <1>3, <1>4, <1>6, <1>7 DEF IInv, MessagesAttributed
<1>9. PICK w \in InvocationType :
         /\ inv' = [inv EXCEPT ![i] = w]
         /\ w.op # "connect"
         /\ Sound(w)'
  <2>1. CASE outcome = "ok"
    <3>1. PICK f \in Frame : f = ChatMessage(v.room, v.user, id)
      BY <1>3 DEF Frame, ChatMessage
    <3>2. PICK w : w = Broadcast(v, f)
      OBVIOUS
    <3>3. /\ w \in InvocationType
          /\ w.op = "send"
          /\ w.pc = "query"
          /\ w.conn = v.conn
          /\ w.room = v.room
          /\ w.frame = f
          /\ w.targets = v.targets
      BY <1>1, <1>2, <3>2 DEF Broadcast, InvocationType, PCs
    <3>4. m \in messages' /\ m.id = f.msg /\ m.room = f.room /\ m.user = f.user
      BY <1>6, <1>7, <2>1, <3>1 DEF ChatMessage
    <3>5. v.targets = {} /\ <<v.conn, f.room>> \in joined /\ socket[v.conn] \in Admitted
      BY <1>1, <1>2, <1>3, <3>1
         DEF Sound, SendSound, BroadcastSound, Broadcasting, ChatMessage
    <3>6. BroadcastSound(w)'
      BY <1>4, <3>3, <3>4, <3>5 DEF BroadcastSound, Broadcasting
    <3>7. Sound(w)'
      BY <1>3, <1>4, <3>3, <3>5, <3>6 DEF Sound, SendSound, Broadcasting
    <3>8. inv' = [inv EXCEPT ![i] = w]
      BY <1>5, <2>1, <3>1, <3>2
    <3>9. QED BY <3>3, <3>7, <3>8
  <2>2. CASE outcome # "ok"
    <3>1. inv' = [inv EXCEPT ![i] = IdleInvocation]
      BY <1>1, <1>2, <1>5, <2>2, ReturnedShape
    <3>2. Sound(IdleInvocation)' /\ IdleInvocation.op # "connect"
      BY DEF IdleInvocation, Invocation, Sound, BroadcastSound, Broadcasting
    <3>3. QED BY <3>1, <3>2, IdleSound
  <2>3. QED BY <2>1, <2>2
<1>10. \A j \in Invs : Sound(inv[j])'
  <2>1. Sound(inv[i])'
    BY <1>1, <1>9
  <2>2. \A j \in Invs \ {i} : inv'[j] = inv[j]
    BY <1>1, <1>9
  <2>3. RecordsGrow /\ \A c \in Conns : SocketAdvances(c) /\ (OwnedRow(c) => OwnedRow(c)')
    BY <1>4, <1>7 DEF RecordsGrow, SocketAdvances, OwnedRow
  <2>4. QED BY <1>4, <2>1, <2>2, <2>3, OthersSound
<1>11. LiveConnectionKept' /\ RowsSound' /\ JoinedSound'
  BY <1>4 DEF IInv, LiveConnectionKept, OwnedRow, RowsSound, RowSound, JoinedSound
<1>12. TypeOK' /\ ConnectsUnique'
  BY <1>1, <1>4, <1>7, <1>9 DEF IInv, TypeOK, HandlersTypeOK, ConnectsUnique
<1>13. QED BY <1>8, <1>10, <1>11, <1>12 DEF IInv

\* Moving one socket keeps the invariant when it advances and, if it opens, the
\* connection has its row.
LEMMA SocketStep ==
    ASSUME IInv, NEW c \in Conns, NEW s \in SocketStates,
           socket' = [socket EXCEPT ![c] = s], SocketAdvances(c),
           s = "open" => OwnedRow(c),
           inv' \in [Invs -> InvocationType],
           \A j \in Invs : Sound(inv[j])',
           ConnectsUnique',
           UNCHANGED <<users, connections, readable, messages, joined, heard>>
    PROVE  IInv'
<1>1. /\ socket' \in [Conns -> SocketStates]
      /\ socket'[c] = s
      /\ \A d \in Conns : d # c => socket'[d] = socket[d]
  BY DEF IInv, TypeOK
<1>2. \A d \in Conns : SocketAdvances(d)
  BY <1>1 DEF SocketAdvances
<1>3. TypeOK'
  BY <1>1 DEF IInv, TypeOK, HandlersTypeOK
<1>4. LiveConnectionKept'
  BY <1>1 DEF IInv, LiveConnectionKept, OwnedRow
<1>5. MessagesAttributed'
  BY <1>2 DEF IInv, MessagesAttributed, SocketAdvances, TypeOK, HandlersTypeOK, MessageType
<1>6. RowsSound'
  BY <1>2 DEF IInv, RowsSound, RowSound, SocketAdvances
<1>7. JoinedSound'
  BY <1>2 DEF IInv, JoinedSound, SocketAdvances
<1>8. QED BY <1>3, <1>4, <1>5, <1>6, <1>7 DEF IInv

\* The step moves the socket of c and the invocation in slot i; no other $connect
\* is about c.
LEMMA OthersSoundSocket ==
    ASSUME IInv, NEW i \in Invs, NEW c \in Conns, NEW s,
           socket' = [socket EXCEPT ![c] = s], SocketAdvances(c),
           \A j \in Invs \ {i} : inv[j].op = "connect" => inv[j].conn # c,
           NEW w, inv' = [inv EXCEPT ![i] = w], Sound(w)',
           UNCHANGED <<users, connections, readable, messages, joined, heard>>
    PROVE  \A j \in Invs : Sound(inv[j])'
<1>1. inv \in [Invs -> InvocationType] /\ \A j \in Invs : Sound(inv[j])
  BY DEF IInv, TypeOK, HandlersTypeOK
<1>2. \A d \in Conns : d # c => socket'[d] = socket[d]
  BY DEF IInv, TypeOK
<1>3. RecordsGrow /\ \A d \in Conns : SocketAdvances(d) /\ (OwnedRow(d) => OwnedRow(d)')
  BY <1>2 DEF RecordsGrow, SocketAdvances, OwnedRow
<1>4. \A j \in Invs \ {i} : inv[j].op = "connect" => socket'[inv[j].conn] = socket[inv[j].conn]
  BY <1>1, <1>2 DEF Sound
<1>5. Sound(inv[i])' /\ \A j \in Invs \ {i} : inv'[j] = inv[j]
  BY <1>1
<1>6. QED BY <1>3, <1>4, <1>5, OthersSound

LEMMA ConnectStep ==
    ASSUME IInv, NEW i \in Invs, NEW c \in Conns, Connect(i, c)
    PROVE  IInv'
<1>1. inv \in [Invs -> InvocationType] /\ \A j \in Invs : Sound(inv[j])
  BY DEF IInv, TypeOK, HandlersTypeOK
<1>2. /\ socket[c] = "new"
      /\ socket' = [socket EXCEPT ![c] = "connecting"]
      /\ UNCHANGED <<users, connections, readable, messages, joined, heard>>
  BY DEF Connect
<1>3. SocketAdvances(c) /\ socket'[c] = "connecting"
  BY <1>2 DEF SocketAdvances, Admitted, Past, IInv, TypeOK
<1>4. PICK w : w = Invocation("connect", c, None, "upsert_user")
  OBVIOUS
<1>5. w \in InvocationType /\ w.op = "connect" /\ w.conn = c
  BY <1>4 DEF Invocation, InvocationType, PCs, Ops
<1>6. Sound(w)'
  BY <1>3, <1>4 DEF Invocation, Sound, ConnectSound, BroadcastSound, Broadcasting
<1>7. inv' = [inv EXCEPT ![i] = w]
  BY <1>4 DEF Connect
<1>8. \A j \in Invs : inv[j].op = "connect" => inv[j].conn # c
  BY <1>1, <1>2 DEF Sound, ConnectSound
<1>9. \A j \in Invs : Sound(inv[j])'
  BY <1>2, <1>3, <1>6, <1>7, <1>8, OthersSoundSocket
<1>10. ConnectsUnique'
  BY <1>1, <1>5, <1>7, <1>8 DEF IInv, ConnectsUnique
<1>11. inv' \in [Invs -> InvocationType]
  BY <1>1, <1>5, <1>7
<1>12. QED BY <1>2, <1>3, <1>9, <1>10, <1>11, SocketStep DEF SocketStates

LEMMA DisconnectStep ==
    ASSUME IInv, NEW i \in Invs, NEW c \in Conns, Disconnect(i, c)
    PROVE  IInv'
<1>1. inv \in [Invs -> InvocationType] /\ \A j \in Invs : Sound(inv[j])
  BY DEF IInv, TypeOK, HandlersTypeOK
<1>2. /\ socket[c] = "closing"
      /\ socket' = [socket EXCEPT ![c] = "closed"]
      /\ UNCHANGED <<users, connections, readable, messages, joined, heard>>
  BY DEF Disconnect
<1>3. SocketAdvances(c) /\ socket'[c] = "closed"
  BY <1>2 DEF SocketAdvances, Admitted, Past, IInv, TypeOK
<1>4. PICK w : w = Invocation("disconnect", c, None, "get_conn")
  OBVIOUS
<1>5. w \in InvocationType /\ w.op = "disconnect"
  BY <1>4 DEF Invocation, InvocationType, PCs, Ops
<1>6. Sound(w)'
  BY <1>3, <1>4 DEF Invocation, Sound, DisconnectSound, BroadcastSound, Broadcasting
<1>7. inv' = [inv EXCEPT ![i] = w]
  BY <1>4 DEF Disconnect
<1>8. \A j \in Invs : inv[j].op = "connect" => inv[j].conn # c
  BY <1>1, <1>2 DEF Sound, ConnectSound
<1>9. \A j \in Invs : Sound(inv[j])'
  BY <1>2, <1>3, <1>6, <1>7, <1>8, OthersSoundSocket
<1>10. ConnectsUnique'
  BY <1>1, <1>5, <1>7 DEF IInv, ConnectsUnique
<1>11. inv' \in [Invs -> InvocationType]
  BY <1>1, <1>5, <1>7
<1>12. QED BY <1>2, <1>3, <1>9, <1>10, <1>11, SocketStep DEF SocketStates

\* Only a $connect that inserted its row opens a socket.
LEMMA RespondStep ==
    ASSUME IInv, NEW i \in Invs, Respond(i)
    PROVE  IInv'
<1>1. inv \in [Invs -> InvocationType] /\ \A j \in Invs : Sound(inv[j])
  BY DEF IInv, TypeOK, HandlersTypeOK
<1>2. inv[i].pc \in {"ok", "failed"} /\ inv[i].op = "connect"
  <2>1. PICK v \in InvocationType : v = inv[i] /\ Sound(v) /\ v.pc \in {"ok", "failed"}
    BY <1>1 DEF Respond
  <2>2. v.op \in Ops
    BY DEF InvocationType
  <2>3. v.op # "none"
    BY <2>1 DEF Sound, IdleInvocation, Invocation
  <2>4. v.op \notin {"disconnect", "join", "send"}
    BY <2>1 DEF Sound, DisconnectSound, JoinSound, SendSound, Broadcasting
  <2>5. QED BY <2>1, <2>2, <2>3, <2>4 DEF Ops
<1>3. PICK c \in Conns :
         /\ c = inv[i].conn
         /\ socket[c] = "connecting"
         /\ inv[i].pc = "ok" => OwnedRow(c)
  BY <1>1, <1>2 DEF Sound, ConnectSound
<1>4. PICK s \in SocketStates :
         /\ socket' = [socket EXCEPT ![c] = s]
         /\ s = "open" => inv[i].pc = "ok"
  BY <1>3 DEF Respond, SocketStates
<1>5. /\ inv' = [inv EXCEPT ![i] = IdleInvocation]
      /\ UNCHANGED <<users, connections, readable, messages, joined, heard>>
  BY DEF Respond
<1>6. SocketAdvances(c)
  BY <1>3 DEF SocketAdvances, Admitted, Past
<1>7. \A j \in Invs \ {i} : inv[j].op = "connect" => inv[j].conn # c
  BY <1>2, <1>3 DEF IInv, ConnectsUnique
<1>8. PICK w : w = IdleInvocation
  OBVIOUS
<1>9. Sound(w)' /\ w \in InvocationType /\ w.op # "connect"
  BY <1>8, IdleSound DEF IdleInvocation, Invocation, Sound, BroadcastSound, Broadcasting
<1>10. \A j \in Invs : Sound(inv[j])'
  BY <1>4, <1>5, <1>6, <1>7, <1>8, <1>9, OthersSoundSocket
<1>11. ConnectsUnique' /\ inv' \in [Invs -> InvocationType]
  BY <1>1, <1>5, <1>8, <1>9 DEF IInv, ConnectsUnique
<1>12. QED BY <1>3, <1>4, <1>5, <1>6, <1>10, <1>11, SocketStep

LEMMA CloseStep ==
    ASSUME IInv, NEW c \in Conns, Close(c) \/ DropDisconnect(c)
    PROVE  IInv'
<1>1. inv \in [Invs -> InvocationType] /\ \A j \in Invs : Sound(inv[j])
  BY DEF IInv, TypeOK, HandlersTypeOK
<1>2. PICK s \in Past :
         /\ socket[c] # "closed" /\ (socket[c] = "closing" => s = "closed")
         /\ socket[c] # "connecting"
         /\ socket' = [socket EXCEPT ![c] = s]
         /\ UNCHANGED <<users, connections, readable, messages, inv, joined, heard>>
  BY DEF Close, DropDisconnect, Past
<1>3. \A d \in Conns : d # c => socket'[d] = socket[d]
  BY <1>2 DEF IInv, TypeOK
<1>4. SocketAdvances(c)
  BY <1>2 DEF SocketAdvances, Admitted, Past, IInv, TypeOK
<1>5. RecordsGrow /\ \A d \in Conns : SocketAdvances(d) /\ (OwnedRow(d) => OwnedRow(d)')
  BY <1>2, <1>3, <1>4 DEF RecordsGrow, SocketAdvances, OwnedRow
<1>6. ASSUME NEW j \in Invs
      PROVE  Sound(inv[j])'
  <2>1. PICK v \in InvocationType : v = inv[j] /\ Sound(v)
    BY <1>1
  <2>2. v.op = "connect" => v.conn \in Conns /\ socket'[v.conn] = socket[v.conn]
    BY <1>2, <1>3, <2>1 DEF Sound, ConnectSound
  <2>3. Sound(v)'
    BY <1>5, <2>1, <2>2, SoundKept
  <2>4. QED BY <1>2, <2>1, <2>3
<1>7. ConnectsUnique' /\ inv' \in [Invs -> InvocationType]
  BY <1>1, <1>2 DEF IInv, ConnectsUnique
<1>8. s \in SocketStates /\ s # "open"
  BY <1>2 DEF Past, SocketStates
<1>9. QED BY <1>2, <1>4, <1>6, <1>7, <1>8, SocketStep

\* A reader that catches up sees a row that some reader could see before.
LEMMA SettleStep ==
    ASSUME IInv, NEW c \in Conns, SettleNext(c)
    PROVE  IInv'
<1>1. /\ readable' = [readable EXCEPT ![c] = {connections[c]}]
      /\ UNCHANGED <<users, connections, messages, inv, joined, heard, socket>>
  BY DEF SettleNext, Settle
<1>2. TypeOK'
  BY <1>1 DEF IInv, TypeOK, HandlersTypeOK
<1>3. RowsSound'
  BY <1>1 DEF IInv, RowsSound, RowSound, TypeOK, HandlersTypeOK
<1>4. LiveConnectionKept' /\ MessagesAttributed' /\ JoinedSound' /\ ConnectsUnique'
  BY <1>1
     DEF IInv, LiveConnectionKept, OwnedRow, MessagesAttributed, JoinedSound, ConnectsUnique
<1>5. ASSUME NEW j \in Invs
      PROVE  Sound(inv[j])'
  BY <1>1
     DEF IInv, Sound, ConnectSound, DisconnectSound, JoinSound, SendSound, BroadcastSound,
         OwnedRow
<1>6. QED BY <1>2, <1>3, <1>4, <1>5 DEF IInv

(***************************************************************************)
(* The theorems.                                                           *)
(***************************************************************************)

LEMMA InitInvariant ==
    Init => IInv
<1> SUFFICES ASSUME Init
             PROVE  IInv
  OBVIOUS
<1> USE DEF Init, HandlersInit
<1>1. TypeOK
  BY IdleSound DEF TypeOK, HandlersTypeOK, SocketStates
<1>2. LiveConnectionKept /\ MessagesAttributed /\ RowsSound /\ JoinedSound
  BY DEF LiveConnectionKept, MessagesAttributed, RowsSound, RowSound, JoinedSound
<1>3. (\A i \in Invs : Sound(inv[i])) /\ ConnectsUnique
  BY IdleSound DEF ConnectsUnique, IdleInvocation, Invocation
<1>4. QED BY <1>1, <1>2, <1>3 DEF IInv

\* Every step of the gateway keeps the invariant.
LEMMA NextInvariant ==
    IInv /\ [Next]_vars => IInv'
<1> SUFFICES ASSUME IInv, [Next]_vars
             PROVE  IInv'
  OBVIOUS
<1>1. ASSUME NEW i \in Invs, HandlerNext(i)
      PROVE  IInv'
  BY <1>1, UpsertUserStep, InsertConnectionStep, DisconnectGetConnectionStep,
     DeleteConnectionStep, JoinGetRoomStep, JoinGetConnectionStep, SetConnectionRoomStep,
     SendAckStep, SendGetConnectionStep, SendGetRoomStep, InsertMessageStep,
     QueryRoomStep, DeleteStaleStep, SendErrorStep
     DEF HandlerNext, HandlerStep, HandleConnect, HandleDisconnect, HandleJoinRoom,
         HandleSendMessage
<1>2. ASSUME NEW i \in Invs, PostToConnection(i) \/ Respond(i) \/ Kill(i)
      PROVE  IInv'
  BY <1>2, PostToConnectionStep, RespondStep, KillStep
<1>3. ASSUME NEW i \in Invs, NEW c \in Conns, Connect(i, c) \/ Disconnect(i, c)
      PROVE  IInv'
  BY <1>3, ConnectStep, DisconnectStep
<1>4. ASSUME NEW i \in Invs, NEW c \in Conns, NEW r \in RoomIds,
             JoinRequest(i, c, r) \/ SendRequest(i, c, r)
      PROVE  IInv'
  BY <1>4, RequestStep
<1>5. ASSUME NEW c \in Conns, Close(c) \/ DropDisconnect(c) \/ SettleNext(c)
      PROVE  IInv'
  BY <1>5, CloseStep, SettleStep
<1>6. CASE UNCHANGED vars
  BY <1>6
     DEF vars, IInv, TypeOK, HandlersTypeOK, LiveConnectionKept, OwnedRow,
         MessagesAttributed, RowsSound, RowSound, JoinedSound, ConnectsUnique, Sound,
         ConnectSound, DisconnectSound, JoinSound, SendSound, BroadcastSound
<1>7. QED BY <1>1, <1>2, <1>3, <1>4, <1>5, <1>6 DEF Next

\* The inductive invariant holds in every reachable state, for any number of
\* connections, rooms and overlapping invocations and under every fault.
THEOREM Invariance == Spec => []IInv
BY InitInvariant, NextInvariant, PTL DEF Spec

\* Type correctness of the gateway, the handlers and the tables.
THEOREM TypeCorrectness == Spec => []TypeOK
<1>1. IInv => TypeOK
  BY DEF IInv
<1>2. QED BY <1>1, Invariance, PTL

\* No stale removal, late $disconnect or lost answer ever costs an open connection
\* its row or its owner (BroadcastToRoom, HandleDisconnect, HandleConnect).
THEOREM LiveConnectionsAreKept == Spec => []LiveConnectionKept
<1>1. IInv => LiveConnectionKept
  BY DEF IInv
<1>2. QED BY <1>1, Invariance, PTL

\* A stored message names its sender's user, or nobody if that sender had closed
\* (HandleSendMessage, SetConnectionRoom).
THEOREM MessagesAreAttributed == Spec => []MessagesAttributed
<1>1. IInv => MessagesAttributed
  BY DEF IInv
<1>2. QED BY <1>1, Invariance, PTL

\* What is being broadcast is true: the subject was let into the room, the chat
\* message is stored (HandleJoinRoom, HandleDisconnect, HandleSendMessage).
THEOREM FramesAreTruthful == Spec => []FramesTruthful
<1>1. IInv => FramesTruthful
  <2> SUFFICES ASSUME IInv, NEW i \in Invs, inv[i].frame # NoFrame
               PROVE  /\ <<inv[i].conn, inv[i].frame.room>> \in joined
                      /\ inv[i].frame.type = "message" =>
                            \E m \in messages : /\ m.id = inv[i].frame.msg
                                                /\ m.room = inv[i].frame.room
                                                /\ m.user = inv[i].frame.user
    BY DEF FramesTruthful
  <2>1. Sound(inv[i])
    BY InvocationSound
  <2>2. QED BY <2>1 DEF Sound, BroadcastSound
<1>2. QED BY <1>1, Invariance, PTL

(***************************************************************************)
(* The gateway implements ChatRooms.                                       *)
(***************************************************************************)

\* A move into a room is a Join, or nothing when the write was refused.
LEMMA SetConnectionRoomRefines ==
    ASSUME IInv, NEW i \in Invs, SetConnectionRoom(i)
    PROVE  (\E c \in Conns, r \in Rooms : Promise!Join(c, r)) \/ UNCHANGED Promise!vars
<1>1. Sound(inv[i]) /\ inv[i].op = "join" /\ inv[i].pc = "set_room"
  BY InvocationSound DEF SetConnectionRoom, At
<1>2. inv[i].conn \in Conns /\ inv[i].room \in Rooms
  BY <1>1 DEF Sound, JoinSound
<1>3. UNCHANGED <<messages, heard>>
  BY DEF SetConnectionRoom
<1>4. joined' = joined \/ joined' = joined \cup {<<inv[i].conn, inv[i].room>>}
  BY DEF SetConnectionRoom
<1>5. QED BY <1>2, <1>3, <1>4 DEF Promise!Join, Promise!vars

\* Storing a message is a Say: the NOT_IN_ROOM check has passed.
LEMMA InsertMessageRefines ==
    ASSUME IInv, NEW i \in Invs, InsertMessage(i)
    PROVE  \/ \E c \in Conns, r \in Rooms, m \in Msgs : \E u \in {Owner[c], None} :
                 Promise!Say(c, r, m, u)
           \/ UNCHANGED Promise!vars
<1>1. Sound(inv[i]) /\ inv[i].op = "send" /\ inv[i].pc = "insert_msg"
  BY InvocationSound DEF InsertMessage, At
<1>2. PICK c \in Conns, r \in RoomIds, u \in Users \cup {None} :
         /\ u \in {Owner[c], None}
         /\ c = inv[i].conn
         /\ r = inv[i].room
         /\ u = inv[i].user
         /\ <<c, r>> \in joined
  <2>1. /\ inv[i].conn \in Conns
        /\ inv[i].room \in RoomIds
        /\ inv[i].user \in {Owner[inv[i].conn], None}
        /\ <<inv[i].conn, inv[i].room>> \in joined
    BY <1>1 DEF Sound, SendSound
  <2>2. QED BY <2>1
<1>3. r \in Rooms
  BY <1>2 DEF IInv, JoinedSound
<1>4. UNCHANGED <<joined, heard>>
  BY DEF InsertMessage
<1>5. PICK id \in Msgs :
         /\ \A m \in messages : m.id # id
         /\ \/ messages' = messages
            \/ messages' = messages \cup {[id |-> id, room |-> r, user |-> u, from |-> c]}
  BY <1>2 DEF InsertMessage
<1>6. CASE messages' = messages
  BY <1>4, <1>6 DEF Promise!vars
<1>7. CASE messages' = messages \cup {[id |-> id, room |-> r, user |-> u, from |-> c]}
  BY <1>2, <1>3, <1>4, <1>5, <1>7 DEF Promise!Say
<1>8. QED BY <1>5, <1>6, <1>7

\* Delivering a chat frame is a Hear: the message is stored, the target let in.
LEMMA PostToConnectionRefines ==
    ASSUME IInv, NEW i \in Invs, PostToConnection(i)
    PROVE  (\E d \in Conns, x \in messages : Promise!Hear(d, x)) \/ UNCHANGED Promise!vars
<1>1. /\ inv[i] \in InvocationType
      /\ Sound(inv[i])
      /\ inv[i].pc = "post"
  BY InvocationSound DEF PostToConnection
<1>2. PICK d \in inv[i].targets : \E err \in PostResults(d) : Post(i, d, err)
  BY DEF PostToConnection
<1>3. \/ heard' = heard
      \/ inv[i].frame.type = "message" /\ heard' = heard \cup {<<d, inv[i].frame.msg>>}
  BY <1>2 DEF Post
<1>4. d \in Conns /\ <<d, inv[i].frame.room>> \in joined
  BY <1>1, <1>2 DEF Sound, BroadcastSound, Broadcasting, InvocationType
<1>5. UNCHANGED <<joined, messages>>
  BY DEF PostToConnection
<1>6. CASE heard' = heard
  BY <1>5, <1>6 DEF Promise!vars
<1>7. CASE inv[i].frame.type = "message" /\ heard' = heard \cup {<<d, inv[i].frame.msg>>}
  <2>1. PICK x \in messages : x.id = inv[i].frame.msg /\ x.room = inv[i].frame.room
    BY <1>1, <1>7 DEF Sound, BroadcastSound, Broadcasting
  <2>2. Promise!Hear(d, x)
    BY <1>4, <1>5, <1>7, <2>1 DEF Promise!Hear
  <2>3. QED BY <1>4, <2>2
<1>8. QED BY <1>3, <1>6, <1>7

\* No other step shows at the level of the promise.
LEMMA OtherStepsStutter ==
    ASSUME Next,
           \A i \in Invs : ~SetConnectionRoom(i) /\ ~InsertMessage(i) /\ ~PostToConnection(i)
    PROVE  UNCHANGED Promise!vars
<1>1. ASSUME NEW i \in Invs, HandlerNext(i)
      PROVE  UNCHANGED <<joined, messages, heard>>
  BY <1>1
     DEF HandlerNext, HandlerStep, HandleConnect, HandleDisconnect, HandleJoinRoom,
         HandleSendMessage, UpsertUser, InsertConnection, DisconnectGetConnection,
         DeleteConnection, JoinGetRoom, JoinGetConnection, SendAck, SendGetConnection,
         SendGetRoom, QueryRoom, DeleteStale, SendError
<1>2. ASSUME NEW i \in Invs, Respond(i) \/ Kill(i)
      PROVE  UNCHANGED <<joined, messages, heard>>
  BY <1>2 DEF Respond, Kill
<1>3. ASSUME NEW i \in Invs, NEW c \in Conns, NEW r \in RoomIds,
             JoinRequest(i, c, r) \/ SendRequest(i, c, r)
      PROVE  UNCHANGED <<joined, messages, heard>>
  BY <1>3 DEF JoinRequest, SendRequest
<1>4. ASSUME NEW c \in Conns, Close(c) \/ DropDisconnect(c) \/ SettleNext(c)
      PROVE  UNCHANGED <<joined, messages, heard>>
  BY <1>4 DEF Close, DropDisconnect, SettleNext, Settle
<1>5. ASSUME NEW i \in Invs, NEW c \in Conns, Connect(i, c) \/ Disconnect(i, c)
      PROVE  UNCHANGED <<joined, messages, heard>>
  BY <1>5 DEF Connect, Disconnect
<1>6. QED BY <1>1, <1>2, <1>3, <1>4, <1>5 DEF Next, Promise!vars

LEMMA StepRefines ==
    IInv /\ [Next]_vars => [Promise!Next]_(Promise!vars)
<1> SUFFICES ASSUME IInv, [Next]_vars
             PROVE  Promise!Next \/ UNCHANGED Promise!vars
  OBVIOUS
<1>1. ASSUME NEW i \in Invs, SetConnectionRoom(i)
      PROVE  Promise!Next \/ UNCHANGED Promise!vars
  BY <1>1, SetConnectionRoomRefines DEF Promise!Next
<1>2. ASSUME NEW i \in Invs, InsertMessage(i)
      PROVE  Promise!Next \/ UNCHANGED Promise!vars
  BY <1>2, InsertMessageRefines DEF Promise!Next
<1>3. ASSUME NEW i \in Invs, PostToConnection(i)
      PROVE  Promise!Next \/ UNCHANGED Promise!vars
  BY <1>3, PostToConnectionRefines DEF Promise!Next
<1>4. CASE UNCHANGED vars
  BY <1>4 DEF vars, Promise!vars
<1>5. QED BY <1>1, <1>2, <1>3, <1>4, OtherStepsStutter

\* The server implements what the chat promises: a message is said only by a
\* connection let into its room, stored before it is heard, and heard only by
\* connections let into that room.
THEOREM ServerKeepsPromise == Spec => PromiseKept
<1>1. Init => Promise!Init
  BY DEF Init, HandlersInit, Promise!Init
<1>2. QED BY <1>1, Invariance, StepRefines, PTL DEF Spec, PromiseKept, Promise!Spec
================================================================================
