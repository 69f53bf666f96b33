---------------------------- MODULE LocalServer_proofs --------------------------
(***************************************************************************)
(* Proofs about LocalServer: IInv is inductive for any number of sockets,  *)
(* rooms and messages, the safety properties follow from it, and the       *)
(* server in one process keeps the promise of ChatRooms.                   *)
(***************************************************************************)
EXTENDS LocalServer, WsHandlers_proofs

USE ConstantsAssumption, LocalAssumption

(***************************************************************************)
(* What a step of one goroutine leaves to the others.                      *)
(***************************************************************************)

\* A step of goroutine g touches nothing that belongs to another one.
OthersUntouched(g) ==
    /\ messages \subseteq messages'
    /\ joined \subseteq joined'
    /\ \A d \in Conns \ {g} :
          /\ phase'[d] = phase[d]
          /\ connections'[d] = connections[d]
          /\ readable'[d] = readable[d]
          /\ inv'[d] = inv[d]
          /\ sendingTo'[d] = sendingTo[d]
          /\ d \in registry' <=> d \in registry
          /\ \A r \in RoomIds : <<d, r>> \in joined' => <<d, r>> \in joined

\* What a goroutine has established stays true while messages and rooms joined
\* only grow, and its row and its phase are left alone.
LEMMA InvocationKept ==
    ASSUME NEW c \in Conns, NEW v, InvocationSound(c, v),
           phase'[c] = phase[c], connections'[c] = connections[c],
           messages \subseteq messages', joined \subseteq joined'
    PROVE  InvocationSound(c, v)'
<1>1. v.op = "none" => IdleSound(c, v)'
  BY DEF InvocationSound, IdleSound
<1>2. v.op = "connect" => ConnectSound(c, v)'
  BY DEF InvocationSound, ConnectSound
<1>3. v.op = "disconnect" => DisconnectSound(c, v)'
  BY DEF InvocationSound, DisconnectSound
<1>4. v.op = "join" => JoinSound(c, v)'
  BY DEF InvocationSound, JoinSound
<1>5. v.op = "send" => SendSound(c, v)'
  BY DEF InvocationSound, SendSound
<1>6. BroadcastSound(c, v)'
  BY DEF InvocationSound, BroadcastSound
<1>7. QED BY <1>1, <1>2, <1>3, <1>4, <1>5, <1>6 DEF InvocationSound

LEMMA OthersSound ==
    ASSUME NEW g \in Conns, OthersUntouched(g),
           NEW d \in Conns \ {g}, GoroutineSound(d)
    PROVE  GoroutineSound(d)'
<1>1. RowsSound(d)'
  BY DEF OthersUntouched, GoroutineSound, RowsSound, RowSound
<1>2. PICK v : v = inv[d]
  OBVIOUS
<1>3. InvocationSound(d, v)'
  BY <1>2, InvocationKept DEF OthersUntouched, GoroutineSound
<1>4. InvocationSound(d, inv[d])'
  BY <1>2, <1>3 DEF OthersUntouched
<1>5. SendingSound(d)'
  BY DEF OthersUntouched, GoroutineSound, SendingSound
<1>6. QED BY <1>1, <1>4, <1>5 DEF OthersUntouched, GoroutineSound

\* The invariant, of the goroutine that moves and of all others.
LEMMA OneMoves ==
    ASSUME IInv, NEW g \in Conns, OthersUntouched(g), GoroutineSound(g)',
           TypeOK', MutexesInUse', \A m \in messages' : m.user = Owner[m.from]
    PROVE  IInv'
<1>1. ASSUME NEW d \in Conns
      PROVE  GoroutineSound(d)'
  <2>1. CASE d = g
    BY <2>1
  <2>2. CASE d # g
    BY <2>2, OthersSound DEF IInv
  <2>3. QED BY <2>1, <2>2
<1>2. QED BY <1>1 DEF IInv

LEMMA Typed ==
    ASSUME IInv, NEW g \in Conns
    PROVE  /\ inv[g] \in InvocationType
           /\ inv \in [Conns -> InvocationType]
           /\ InvocationSound(g, inv[g])
           /\ GoroutineSound(g)
BY DEF IInv, TypeOK, HandlersTypeOK, GoroutineSound

\* A call of a handler: it moves the invocation of g to w and may write the row of
\* g, store messages, and enter g in rooms.
LEMMA CallStep ==
    ASSUME IInv, NEW g \in Conns, NEW w \in InvocationType,
           sendingTo[g] = None,
           inv' = [inv EXCEPT ![g] = w], InvocationSound(g, w)',
           UNCHANGED <<heard, localVars>>,
           users' \subseteq Users,
           messages \subseteq messages', messages' \subseteq MessageType,
           \A m \in messages' : m.user = Owner[m.from],
           joined \subseteq joined', joined' \subseteq joined \cup ({g} \X Rooms),
           joined' # joined => phase[g] = "serve",
           connections' \in [Conns -> Row \cup {NoRow}],
           readable' \in [Conns -> SUBSET (Row \cup {NoRow})],
           \A d \in Conns \ {g} : /\ connections'[d] = connections[d]
                                  /\ readable'[d] = readable[d],
           RowsSound(g)',
           phase[g] \in {"add", "serve"} => connections'[g] # NoRow
    PROVE  IInv'
<1>1. TypeOK'
  BY DEF IInv, TypeOK, HandlersTypeOK, localVars
<1>2. OthersUntouched(g)
  BY DEF OthersUntouched, IInv, TypeOK, HandlersTypeOK, localVars
<1>3. GoroutineSound(g)'
  <2>1. inv'[g] = w
    BY DEF IInv, TypeOK, HandlersTypeOK
  <2>2. SendingSound(g)'
    BY DEF SendingSound, localVars
  <2>3. \A r \in RoomIds : <<g, r>> \in joined' =>
           r \in Rooms /\ phase'[g] \in Registered \cup Gone
    BY Typed DEF GoroutineSound, localVars, Registered
  <2>4. QED BY <2>1, <2>2, <2>3, Typed DEF GoroutineSound, localVars
<1>4. MutexesInUse'
  BY DEF IInv, MutexesInUse, localVars
<1>5. QED BY <1>1, <1>2, <1>3, <1>4, OneMoves

\* A call that reads, or sends, and writes no table.
LEMMA ReadStep ==
    ASSUME IInv, NEW g \in Conns, NEW w \in InvocationType,
           sendingTo[g] = None,
           inv' = [inv EXCEPT ![g] = w], InvocationSound(g, w),
           UNCHANGED <<users, connections, readable, messages, joined, heard, localVars>>
    PROVE  IInv'
<1>1. InvocationSound(g, w)'
  BY InvocationKept DEF localVars
<1>2. RowsSound(g)' /\ (phase[g] \in {"add", "serve"} => connections'[g] # NoRow)
  BY Typed DEF GoroutineSound, RowsSound, RowSound
<1>3. QED BY <1>1, <1>2, CallStep DEF IInv, TypeOK, HandlersTypeOK

\* Handlers do not run while their goroutine is in Send.
LEMMA NotSending ==
    ASSUME IInv, NEW g \in Conns, inv[g].pc \notin {"idle", "ack", "send_error", "post"}
    PROVE  sendingTo[g] = None
BY Typed DEF GoroutineSound, SendingSound

(***************************************************************************)
(* What the calls of the handlers leave behind.                            *)
(***************************************************************************)

\* An invocation that has returned to a goroutine that may be idle now.
LEMMA IdleFits ==
    ASSUME NEW c \in Conns, phase[c] # "connect",
           phase[c] \in {"clean_up", "ended"} =>
              connections[c] = NoRow \/ Faults \cap {"db", "stale"} # {}
    PROVE  IdleInvocation \in InvocationType /\ InvocationSound(c, IdleInvocation)
BY DEF IdleInvocation, Invocation, InvocationType, PCs, Ops, InvocationSound, IdleSound,
       BroadcastSound, Broadcasting

\* A read of the connections table (GetConnection) returns a sound row; without
\* stale reads and failed calls it is the row as it is.
LEMMA ReadSound ==
    ASSUME IInv, NEW c \in Conns, NEW row \in GetConnection(c)
    PROVE  /\ row \in Row \cup {NoRow}
           /\ RowSound(c, row)
           /\ "stale" \notin Faults => row = connections[c] \/ row = NoRow
           /\ Faults \cap {"db", "stale"} = {} => row = connections[c]
<1>1. row \in readable[c] \/ (row = NoRow /\ "db" \in Faults)
  BY DEF GetConnection
<1>2. readable[c] \subseteq Row \cup {NoRow}
  BY DEF IInv, TypeOK, HandlersTypeOK
<1>3. RowsSound(c)
  BY Typed DEF GoroutineSound
<1>4. QED BY <1>1, <1>2, <1>3 DEF RowsSound, RowSound

\* Writing a sound row of c (PutRow) leaves sound rows behind and touches no other
\* connection; a refused write touches none.
LEMMA PutRowSound ==
    ASSUME IInv, NEW c \in Conns, NEW row \in Row \cup {NoRow}, NEW outcome,
           PutRow(c, row, outcome), joined \subseteq joined', RowSound(c, row)'
    PROVE  /\ RowsSound(c)'
           /\ connections' \in [Conns -> Row \cup {NoRow}]
           /\ readable' \in [Conns -> SUBSET (Row \cup {NoRow})]
           /\ \A d \in Conns \ {c} : /\ connections'[d] = connections[d]
                                     /\ readable'[d] = readable[d]
           /\ outcome = "refused" => connections'[c] = connections[c]
           /\ outcome # "refused" => connections'[c] = row
<1>1. /\ connections \in [Conns -> Row \cup {NoRow}]
      /\ readable \in [Conns -> SUBSET (Row \cup {NoRow})]
  BY DEF IInv, TypeOK, HandlersTypeOK
<1>2. RowsSound(c)
  BY Typed DEF GoroutineSound
<1>3. CASE outcome = "refused"
  <2>1. UNCHANGED <<connections, readable>>
    BY <1>3 DEF PutRow
  <2>2. RowsSound(c)'
    BY <1>2, <2>1 DEF RowsSound, RowSound
  <2>3. QED BY <1>1, <1>3, <2>1, <2>2
<1>4. CASE outcome # "refused"
  <2>1. /\ connections' = [connections EXCEPT ![c] = row]
        /\ readable' = [readable EXCEPT
                           ![c] = {row} \cup (IF "stale" \in Faults THEN @ ELSE {})]
    BY <1>4 DEF PutRow
  <2>2. connections'[c] = row
    BY <1>1, <2>1
  <2>3. readable'[c] = {row} \cup (IF "stale" \in Faults THEN readable[c] ELSE {})
    BY <1>1, <2>1
  <2>4. \A x : RowSound(c, x) => RowSound(c, x)'
    BY DEF RowSound
  <2>5. RowsSound(c)'
    BY <1>2, <2>2, <2>3, <2>4 DEF RowsSound
  <2>6. QED BY <1>1, <1>4, <2>1, <2>2, <2>5
<1>5. QED BY <1>3, <1>4

\* A broadcast of a truthful frame starts sound.
LEMMA BroadcastStart ==
    ASSUME NEW c \in Conns, NEW v \in InvocationType, NEW f \in Frame,
           v.pc \notin Broadcasting, BroadcastSound(c, v),
           <<c, f.room>> \in joined,
           f.type = "message" =>
              \E m \in messages : m.id = f.msg /\ m.room = f.room
    PROVE  /\ Broadcast(v, f) \in InvocationType
           /\ Broadcast(v, f).op = v.op /\ Broadcast(v, f).conn = v.conn
           /\ Broadcast(v, f).room = v.room /\ Broadcast(v, f).left = v.left
           /\ Broadcast(v, f).pc = "query" /\ Broadcast(v, f).frame = f
           /\ BroadcastSound(c, Broadcast(v, f))
<1>1. /\ Broadcast(v, f) \in InvocationType
      /\ Broadcast(v, f).op = v.op /\ Broadcast(v, f).conn = v.conn
      /\ Broadcast(v, f).room = v.room /\ Broadcast(v, f).left = v.left
      /\ Broadcast(v, f).pc = "query" /\ Broadcast(v, f).frame = f
      /\ Broadcast(v, f).targets = v.targets
  BY DEF Broadcast, InvocationType, PCs
<1>2. QED BY <1>1 DEF BroadcastSound, Broadcasting

(***************************************************************************)
(* HandleConnect and HandleDisconnect.                                     *)
(***************************************************************************)

LEMMA UpsertUserStep ==
    ASSUME IInv, NEW g \in Conns, UpsertUser(g), UNCHANGED localVars
    PROVE  IInv'
<1>1. /\ inv[g] \in InvocationType /\ InvocationSound(g, inv[g])
      /\ inv[g].op = "connect" /\ inv[g].pc = "upsert_user"
      /\ inv[g].conn = g /\ phase[g] = "connect" /\ sendingTo[g] = None
  BY Typed, NotSending DEF UpsertUser, At, InvocationSound, ConnectSound
<1>2. PICK w :
         /\ inv' = [inv EXCEPT ![g] = w]
         /\ \/ w = [inv[g] EXCEPT !.pc = "insert_conn"]
            \/ w = Returned(inv[g], "failed") /\ "db" \in Faults
  BY DEF UpsertUser, Goto, Return, WriteOutcomes
<1>3. w \in InvocationType /\ InvocationSound(g, w)
  <2>1. CASE w = [inv[g] EXCEPT !.pc = "insert_conn"]
    BY <1>1, <2>1
       DEF InvocationType, PCs, InvocationSound, ConnectSound, BroadcastSound, Broadcasting
  <2>2. CASE w = Returned(inv[g], "failed") /\ "db" \in Faults
    <3>1. w \in InvocationType /\ w = Invocation("connect", g, None, "failed")
      BY <1>1, <2>2, ReturnedShape
    <3>2. QED BY <1>1, <2>2, <3>1
              DEF Invocation, InvocationSound, ConnectSound, BroadcastSound, Broadcasting
  <2>3. QED BY <1>2, <2>1, <2>2
<1>4. /\ users' \subseteq Users
      /\ UNCHANGED <<connections, readable, messages, joined, heard>>
  BY <1>1 DEF UpsertUser, IInv, TypeOK, HandlersTypeOK
<1>5. InvocationSound(g, w)'
  BY <1>3, <1>4, InvocationKept DEF localVars
<1>6. RowsSound(g)'
  BY <1>4, Typed DEF GoroutineSound, RowsSound, RowSound
<1>7. QED BY <1>1, <1>2, <1>3, <1>4, <1>5, <1>6, CallStep DEF IInv, TypeOK, HandlersTypeOK

LEMMA InsertConnectionStep ==
    ASSUME IInv, NEW g \in Conns, InsertConnection(g), UNCHANGED localVars
    PROVE  IInv'
<1>1. /\ inv[g] \in InvocationType
      /\ inv[g].op = "connect"
      /\ inv[g].conn = g /\ phase[g] = "connect" /\ sendingTo[g] = None
  BY Typed, NotSending DEF InsertConnection, At, InvocationSound, ConnectSound
<1>2. PICK row \in Row : row = [user |-> Owner[g], room |-> None]
  BY DEF Row
<1>3. PICK outcome \in WriteOutcomes :
         /\ PutRow(g, row, outcome)
         /\ Return(g, IF outcome = "ok" THEN "ok" ELSE "failed")
  BY <1>1, <1>2 DEF InsertConnection
<1>4. UNCHANGED <<users, messages, joined, heard>>
  BY DEF InsertConnection
<1>5. RowSound(g, row)' /\ row # NoRow
  BY <1>2 DEF RowSound
<1>6. /\ RowsSound(g)'
      /\ connections' \in [Conns -> Row \cup {NoRow}]
      /\ readable' \in [Conns -> SUBSET (Row \cup {NoRow})]
      /\ \A d \in Conns \ {g} : /\ connections'[d] = connections[d]
                                /\ readable'[d] = readable[d]
      /\ outcome # "refused" => connections'[g] = row
  BY <1>3, <1>4, <1>5, PutRowSound
<1>7. PICK result \in {"ok", "failed"} :
         /\ result = "ok" => outcome = "ok"
         /\ result = "failed" => "db" \in Faults
         /\ inv' = [inv EXCEPT ![g] = Returned(inv[g], result)]
  BY <1>3 DEF Return, WriteOutcomes
<1>8. PICK w \in InvocationType :
         /\ w = Invocation("connect", g, None, result)
         /\ inv' = [inv EXCEPT ![g] = w]
  BY <1>1, <1>7, ReturnedShape
<1>9. InvocationSound(g, w)'
  BY <1>1, <1>5, <1>6, <1>7, <1>8
     DEF Invocation, InvocationSound, ConnectSound, BroadcastSound, Broadcasting, localVars
<1>10. QED
  BY <1>1, <1>4, <1>6, <1>8, <1>9, CallStep DEF IInv, TypeOK, HandlersTypeOK

LEMMA DisconnectGetConnectionStep ==
    ASSUME IInv, NEW g \in Conns, DisconnectGetConnection(g), UNCHANGED localVars
    PROVE  IInv'
<1>1. /\ inv[g] \in InvocationType
      /\ inv[g].op = "disconnect" /\ inv[g].pc = "get_conn"
      /\ inv[g].conn = g /\ phase[g] = "clean_up" /\ sendingTo[g] = None
      /\ connections[g] # NoRow
      /\ BroadcastSound(g, inv[g])
  BY Typed, NotSending DEF DisconnectGetConnection, At, InvocationSound, DisconnectSound
<1>2. PICK row \in GetConnection(g) :
         \/ row = NoRow /\ Return(g, "ok")
         \/ row # NoRow /\ row.room = None /\ Goto(g, "delete_conn")
         \/ /\ row # NoRow
            /\ row.room # None
            /\ inv' = [inv EXCEPT ![g] = Broadcast([@ EXCEPT !.room = row.room],
                          UserEvent("user_left", row.room, row.user))]
  BY <1>1 DEF DisconnectGetConnection
<1>3. /\ row \in Row \cup {NoRow} /\ RowSound(g, row)
      /\ row # NoRow /\ "stale" \notin Faults => row = connections[g]
      /\ row = NoRow => Faults \cap {"db", "stale"} # {}
  BY <1>1, ReadSound
<1>4. PICK w \in InvocationType :
         inv' = [inv EXCEPT ![g] = w] /\ InvocationSound(g, w)
  <2>1. CASE row = NoRow /\ Return(g, "ok")
    <3>1. inv' = [inv EXCEPT ![g] = IdleInvocation]
      BY <1>1, <2>1, ReturnedShape DEF Return
    <3>2. QED BY <1>1, <1>3, <2>1, <3>1, IdleFits
  <2>2. CASE row # NoRow /\ row.room = None /\ Goto(g, "delete_conn")
    <3> DEFINE w == [inv[g] EXCEPT !.pc = "delete_conn"]
    <3>1. w \in InvocationType /\ inv' = [inv EXCEPT ![g] = w]
      BY <1>1, <2>2, GotoType DEF Goto, PCs
    <3>2. InvocationSound(g, w)
      BY <1>1, <1>3, <2>2
         DEF InvocationType, InvocationSound, DisconnectSound, BroadcastSound, Broadcasting
    <3>3. QED BY <3>1, <3>2
  <2>3. CASE /\ row # NoRow
             /\ row.room # None
             /\ inv' = [inv EXCEPT ![g] = Broadcast([@ EXCEPT !.room = row.room],
                           UserEvent("user_left", row.room, row.user))]
    <3> DEFINE v == [inv[g] EXCEPT !.room = row.room]
               f == UserEvent("user_left", row.room, row.user)
    <3>1. f \in Frame /\ f.type # "message" /\ f.room = row.room /\ <<g, f.room>> \in joined
      BY <1>3, <2>3 DEF Row, Frame, UserEvent, RowSound
    <3>2. /\ v \in InvocationType /\ v.op = "disconnect" /\ v.conn = g
          /\ v.pc \notin Broadcasting /\ BroadcastSound(g, v) /\ v.room = row.room
      BY <1>1, <1>3, <2>3 DEF InvocationType, Row, BroadcastSound, Broadcasting
    <3>3. inv' = [inv EXCEPT ![g] = Broadcast(v, f)]
      BY <2>3
    <3> HIDE DEF v, f
    <3>4. /\ Broadcast(v, f) \in InvocationType
          /\ Broadcast(v, f).op = "disconnect" /\ Broadcast(v, f).conn = g
          /\ Broadcast(v, f).room = row.room /\ Broadcast(v, f).pc = "query"
          /\ BroadcastSound(g, Broadcast(v, f))
      BY <3>1, <3>2, BroadcastStart
    <3>5. InvocationSound(g, Broadcast(v, f))
      BY <1>1, <1>3, <2>3, <3>4 DEF InvocationSound, DisconnectSound, Broadcasting
    <3>6. QED BY <3>3, <3>4, <3>5
  <2>4. QED BY <1>2, <2>1, <2>2, <2>3
<1>5. QED BY <1>1, <1>4, ReadStep DEF DisconnectGetConnection

LEMMA DeleteConnectionStep ==
    ASSUME IInv, NEW g \in Conns, DeleteConnection(g), UNCHANGED localVars
    PROVE  IInv'
<1>1. /\ inv[g] \in InvocationType
      /\ inv[g].op = "disconnect"
      /\ inv[g].conn = g /\ phase[g] = "clean_up" /\ sendingTo[g] = None
  BY Typed, NotSending DEF DeleteConnection, At, InvocationSound, DisconnectSound
<1>2. PICK outcome \in WriteOutcomes :
         /\ PutRow(g, NoRow, outcome)
         /\ Return(g, IF outcome = "ok" THEN "ok" ELSE "failed")
  BY <1>1 DEF DeleteConnection
<1>3. UNCHANGED <<users, messages, joined, heard>>
  BY DEF DeleteConnection
<1>4. RowSound(g, NoRow)'
  BY DEF RowSound
<1>5. /\ RowsSound(g)'
      /\ connections' \in [Conns -> Row \cup {NoRow}]
      /\ readable' \in [Conns -> SUBSET (Row \cup {NoRow})]
      /\ \A d \in Conns \ {g} : /\ connections'[d] = connections[d]
                                /\ readable'[d] = readable[d]
      /\ connections'[g] = NoRow \/ "db" \in Faults
  BY <1>2, <1>3, <1>4, PutRowSound DEF WriteOutcomes
<1>6. inv' = [inv EXCEPT ![g] = IdleInvocation]
  BY <1>1, <1>2, ReturnedShape DEF Return
<1>7. IdleInvocation \in InvocationType /\ InvocationSound(g, IdleInvocation)'
  BY <1>1, <1>5
     DEF IdleInvocation, Invocation, InvocationType, PCs, Ops, InvocationSound, IdleSound,
         BroadcastSound, Broadcasting, localVars
<1>8. QED
  BY <1>1, <1>3, <1>5, <1>6, <1>7, CallStep DEF IInv, TypeOK, HandlersTypeOK

(***************************************************************************)
(* HandleJoinRoom.                                                         *)
(***************************************************************************)

LEMMA JoinGetRoomStep ==
    ASSUME IInv, NEW g \in Conns, JoinGetRoom(g), UNCHANGED localVars
    PROVE  IInv'
<1>1. /\ inv[g] \in InvocationType /\ InvocationSound(g, inv[g])
      /\ inv[g].op = "join" /\ inv[g].pc = "get_room" /\ sendingTo[g] = None
  BY Typed, NotSending DEF JoinGetRoom, At
<1>2. PICK pc \in {"get_conn", "send_error"} :
         Goto(g, pc) /\ (pc = "get_conn" => inv[g].room \in Rooms)
  BY DEF JoinGetRoom, GetRoomByID
<1> DEFINE w == [inv[g] EXCEPT !.pc = pc]
<1>3. w \in InvocationType /\ inv' = [inv EXCEPT ![g] = w]
  BY <1>1, <1>2, GotoType DEF Goto, PCs
<1>4. InvocationSound(g, w)
  BY <1>1, <1>2
     DEF InvocationType, InvocationSound, JoinSound, BroadcastSound, Broadcasting, NoFrame
<1> HIDE DEF w
<1>5. QED BY <1>1, <1>3, <1>4, ReadStep DEF JoinGetRoom

LEMMA JoinGetConnectionStep ==
    ASSUME IInv, NEW g \in Conns, JoinGetConnection(g), UNCHANGED localVars
    PROVE  IInv'
<1>1. /\ inv[g] \in InvocationType
      /\ inv[g].op = "join" /\ inv[g].pc = "get_conn" /\ inv[g].room \in Rooms
      /\ inv[g].conn = g /\ phase[g] = "serve" /\ sendingTo[g] = None
      /\ connections[g] # NoRow
      /\ BroadcastSound(g, inv[g])
  BY Typed, NotSending
     DEF JoinGetConnection, At, InvocationSound, JoinSound, GoroutineSound
<1>2. PICK row \in GetConnection(g) :
         \/ row = NoRow /\ Return(g, "failed")
         \/ /\ row # NoRow
            /\ row.room \in {None, inv[g].room}
            /\ inv' = [inv EXCEPT ![g].pc = "set_room", ![g].user = row.user]
         \/ /\ row # NoRow
            /\ row.room \notin {None, inv[g].room}
            /\ inv' = [inv EXCEPT ![g] =
                          Broadcast([@ EXCEPT !.user = row.user, !.left = row.room],
                                    UserEvent("user_left", row.room, row.user))]
  BY <1>1 DEF JoinGetConnection
<1>3. /\ row \in Row \cup {NoRow} /\ RowSound(g, row)
      /\ row # NoRow /\ "stale" \notin Faults => row = connections[g]
  BY ReadSound
<1>4. PICK w \in InvocationType :
         inv' = [inv EXCEPT ![g] = w] /\ InvocationSound(g, w)
  <2>1. CASE row = NoRow /\ Return(g, "failed")
    <3>1. inv' = [inv EXCEPT ![g] = IdleInvocation]
      BY <1>1, <2>1, ReturnedShape DEF Return
    <3>2. QED BY <1>1, <3>1, IdleFits
  <2>2. CASE /\ row # NoRow
             /\ row.room \in {None, inv[g].room}
             /\ inv' = [inv EXCEPT ![g].pc = "set_room", ![g].user = row.user]
    <3> DEFINE w == [inv[g] EXCEPT !.pc = "set_room", !.user = row.user]
    <3>1. inv' = [inv EXCEPT ![g] = w]
      BY <2>2, Typed
    <3>2. /\ w \in InvocationType /\ w.op = "join" /\ w.pc = "set_room"
          /\ w.conn = g /\ w.room = inv[g].room
          /\ w.frame = inv[g].frame /\ w.targets = inv[g].targets
      BY <1>1, <1>3, <2>2 DEF InvocationType, PCs, Row
    <3> HIDE DEF w
    <3>3. InvocationSound(g, w)
      BY <1>1, <1>3, <2>2, <3>2
         DEF InvocationType, InvocationSound, JoinSound, BroadcastSound, Broadcasting
    <3>4. QED BY <3>1, <3>2, <3>3
  <2>3. CASE /\ row # NoRow
             /\ row.room \notin {None, inv[g].room}
             /\ inv' = [inv EXCEPT ![g] =
                           Broadcast([@ EXCEPT !.user = row.user, !.left = row.room],
                                     UserEvent("user_left", row.room, row.user))]
    <3> DEFINE v == [inv[g] EXCEPT !.user = row.user, !.left = row.room]
               f == UserEvent("user_left", row.room, row.user)
    <3>1. f \in Frame /\ f.type = "user_left" /\ f.room = row.room /\ <<g, f.room>> \in joined
      BY <1>3, <2>3 DEF Row, Frame, UserEvent, RowSound
    <3>2. /\ v \in InvocationType /\ v.op = "join" /\ v.conn = g
          /\ v.room = inv[g].room /\ v.left = row.room
          /\ v.pc \notin Broadcasting /\ BroadcastSound(g, v)
      BY <1>1, <1>3, <2>3 DEF InvocationType, Row, BroadcastSound, Broadcasting
    <3>3. inv' = [inv EXCEPT ![g] = Broadcast(v, f)]
      BY <2>3
    <3> HIDE DEF v, f
    <3>4. /\ Broadcast(v, f) \in InvocationType
          /\ Broadcast(v, f).op = "join" /\ Broadcast(v, f).conn = g
          /\ Broadcast(v, f).room = inv[g].room /\ Broadcast(v, f).left = row.room
          /\ Broadcast(v, f).pc = "query"
          /\ BroadcastSound(g, Broadcast(v, f))
      BY <3>1, <3>2, BroadcastStart
    <3>5. InvocationSound(g, Broadcast(v, f))
      BY <1>1, <1>3, <2>3, <3>4
         DEF InvocationType, InvocationSound, JoinSound, Broadcasting
    <3>6. QED BY <3>3, <3>4, <3>5
  <2>4. QED BY <1>2, <2>1, <2>2, <2>3
<1>5. QED BY <1>1, <1>4, ReadStep DEF JoinGetConnection

\* The row is there, so that UpdateItem changes its room and nothing else.
LEMMA SetConnectionRoomStep ==
    ASSUME IInv, NEW g \in Conns, SetConnectionRoom(g), UNCHANGED localVars
    PROVE  /\ IInv'
           /\ \/ UNCHANGED joined
              \/ \E r \in Rooms : joined' = joined \cup {<<g, r>>}
<1>1. /\ inv[g] \in InvocationType
      /\ inv[g].op = "join" /\ inv[g].pc = "set_room" /\ inv[g].room \in Rooms
      /\ inv[g].conn = g /\ phase[g] = "serve" /\ sendingTo[g] = None
      /\ connections[g] # NoRow
      /\ BroadcastSound(g, inv[g])
  BY Typed, NotSending
     DEF SetConnectionRoom, At, InvocationSound, JoinSound, GoroutineSound
<1>2. connections[g] \in Row /\ connections[g].user = Owner[g]
  <2>1. connections[g] \in Row
    BY <1>1 DEF IInv, TypeOK, HandlersTypeOK
  <2>2. QED BY <1>1, <2>1, Typed DEF GoroutineSound, RowsSound, RowSound
<1>3. PICK row \in Row : row = SetRoom(connections[g], inv[g].room)
  BY <1>1, <1>2 DEF SetRoom, Row
<1>4. row # NoRow /\ row.user = Owner[g] /\ row.room = inv[g].room
  BY <1>1, <1>2, <1>3 DEF SetRoom, Row
<1>5. PICK outcome \in WriteOutcomes :
         /\ PutRow(g, row, outcome)
         /\ joined' = IF outcome = "refused" THEN joined
                      ELSE joined \cup {<<g, inv[g].room>>}
         /\ IF outcome = "ok" THEN Goto(g, "ack") ELSE Return(g, "failed")
  BY <1>1, <1>3 DEF SetConnectionRoom
<1>6. UNCHANGED <<users, messages, heard>>
  BY DEF SetConnectionRoom
<1>7. /\ RowsSound(g)'
      /\ connections' \in [Conns -> Row \cup {NoRow}]
      /\ readable' \in [Conns -> SUBSET (Row \cup {NoRow})]
      /\ \A d \in Conns \ {g} : /\ connections'[d] = connections[d]
                                /\ readable'[d] = readable[d]
      /\ connections'[g] # NoRow
  <2>1. CASE outcome = "refused"
    <3>1. UNCHANGED <<connections, readable, joined>>
      BY <1>5, <2>1 DEF PutRow
    <3>2. RowsSound(g)'
      BY <3>1, Typed DEF GoroutineSound, RowsSound, RowSound
    <3>3. QED BY <1>1, <3>1, <3>2 DEF IInv, TypeOK, HandlersTypeOK
  <2>2. CASE outcome # "refused"
    <3>1. RowSound(g, row)'
      BY <1>4, <1>5, <2>2 DEF RowSound
    <3>2. QED BY <1>4, <1>5, <2>2, <3>1, PutRowSound
  <2>3. QED BY <2>1, <2>2
<1>8. PICK w \in InvocationType : inv' = [inv EXCEPT ![g] = w] /\ InvocationSound(g, w)'
  <2>1. CASE outcome = "ok" /\ Goto(g, "ack")
    <3>0. PICK w : w = [inv[g] EXCEPT !.pc = "ack"]
      OBVIOUS
    <3>1. w \in InvocationType /\ inv' = [inv EXCEPT ![g] = w]
      BY <1>1, <2>1, <3>0, GotoType DEF Goto, PCs
    <3>2. /\ w.op = "join" /\ w.pc = "ack" /\ w.conn = g /\ w.room = inv[g].room
          /\ w.frame = NoFrame /\ w.targets = {}
      BY <1>1, <3>0 DEF InvocationType, BroadcastSound, Broadcasting
    <3>3. <<g, w.room>> \in joined' /\ phase'[g] = "serve"
      BY <1>1, <1>5, <2>1, <3>2 DEF localVars
    <3>4. InvocationSound(g, w)'
      BY <1>1, <3>2, <3>3
         DEF InvocationSound, JoinSound, BroadcastSound, Broadcasting, NoFrame
    <3>5. QED BY <3>1, <3>4
  <2>2. CASE Return(g, "failed")
    <3>1. inv' = [inv EXCEPT ![g] = IdleInvocation]
      BY <1>1, <2>2, ReturnedShape DEF Return
    <3>2. IdleInvocation \in InvocationType /\ InvocationSound(g, IdleInvocation)'
      BY <1>1
         DEF IdleInvocation, Invocation, InvocationType, PCs, Ops, InvocationSound,
             IdleSound, BroadcastSound, Broadcasting, localVars
    <3>3. QED BY <3>1, <3>2
  <2>3. QED BY <1>5, <2>1, <2>2
<1>9. /\ joined \subseteq joined'
      /\ joined' \subseteq joined \cup ({g} \X Rooms)
      /\ \/ UNCHANGED joined
         \/ \E r \in Rooms : joined' = joined \cup {<<g, r>>}
  BY <1>1, <1>5
<1>10. QED
  BY <1>1, <1>6, <1>7, <1>8, <1>9, CallStep DEF IInv, TypeOK, HandlersTypeOK

(***************************************************************************)
(* HandleSendMessage.                                                      *)
(***************************************************************************)

LEMMA SendGetConnectionStep ==
    ASSUME IInv, NEW g \in Conns, SendGetConnection(g), UNCHANGED localVars
    PROVE  IInv'
<1>1. /\ inv[g] \in InvocationType /\ InvocationSound(g, inv[g])
      /\ inv[g].op = "send" /\ inv[g].pc = "get_conn" /\ inv[g].room \in RoomIds
      /\ inv[g].conn = g /\ phase[g] = "serve" /\ sendingTo[g] = None
  BY Typed, NotSending DEF SendGetConnection, At, InvocationSound, SendSound
<1>2. PICK row \in GetConnection(g) :
         \/ row = NoRow /\ Return(g, "failed")
         \/ Goto(g, "send_error")
         \/ /\ row # NoRow
            /\ row.room = inv[g].room
            /\ inv' = [inv EXCEPT ![g].pc = "get_room", ![g].user = row.user]
  BY <1>1 DEF SendGetConnection
<1>3. row \in Row \cup {NoRow} /\ RowSound(g, row)
  BY ReadSound
<1>4. PICK w \in InvocationType :
         inv' = [inv EXCEPT ![g] = w] /\ InvocationSound(g, w)
  <2>1. CASE row = NoRow /\ Return(g, "failed")
    <3>1. inv' = [inv EXCEPT ![g] = IdleInvocation]
      BY <1>1, <2>1, ReturnedShape DEF Return
    <3>2. QED BY <1>1, <3>1, IdleFits
  <2>2. CASE Goto(g, "send_error")
    <3> DEFINE w == [inv[g] EXCEPT !.pc = "send_error"]
    <3>1. w \in InvocationType /\ inv' = [inv EXCEPT ![g] = w]
      BY <1>1, <2>2, GotoType DEF Goto, PCs
    <3>2. InvocationSound(g, w)
      BY <1>1
         DEF InvocationType, InvocationSound, SendSound, BroadcastSound, Broadcasting
    <3>3. QED BY <3>1, <3>2
  <2>3. CASE /\ row # NoRow
             /\ row.room = inv[g].room
             /\ inv' = [inv EXCEPT ![g].pc = "get_room", ![g].user = row.user]
    <3> DEFINE w == [inv[g] EXCEPT !.pc = "get_room", !.user = row.user]
    <3>1. inv' = [inv EXCEPT ![g] = w]
      BY <2>3, Typed
    <3>2. /\ w \in InvocationType /\ w.op = "send" /\ w.pc = "get_room"
          /\ w.conn = g /\ w.room = inv[g].room /\ w.user = row.user
          /\ w.frame = inv[g].frame /\ w.targets = inv[g].targets
      BY <1>1, <1>3, <2>3 DEF InvocationType, PCs, Row
    <3> HIDE DEF w
    <3>3. row.room # None /\ row.user = Owner[g] /\ <<g, w.room>> \in joined
      BY <1>1, <1>3, <2>3, <3>2 DEF RowSound
    <3>4. InvocationSound(g, w)
      BY <1>1, <3>2, <3>3 DEF InvocationSound, SendSound, BroadcastSound, Broadcasting
    <3>5. QED BY <3>1, <3>2, <3>4
  <2>4. QED BY <1>2, <2>1, <2>2, <2>3
<1>5. QED BY <1>1, <1>4, ReadStep DEF SendGetConnection

LEMMA SendGetRoomStep ==
    ASSUME IInv, NEW g \in Conns, SendGetRoom(g), UNCHANGED localVars
    PROVE  IInv'
<1>1. /\ inv[g] \in InvocationType /\ InvocationSound(g, inv[g])
      /\ inv[g].op = "send" /\ inv[g].pc = "get_room" /\ sendingTo[g] = None
  BY Typed, NotSending DEF SendGetRoom, At
<1>2. PICK pc \in {"insert_msg", "send_error"} : Goto(g, pc)
  BY DEF SendGetRoom
<1> DEFINE w == [inv[g] EXCEPT !.pc = pc]
<1>3. w \in InvocationType /\ inv' = [inv EXCEPT ![g] = w]
  BY <1>1, <1>2, GotoType DEF Goto, PCs
<1>4. InvocationSound(g, w)
  BY <1>1, <1>2
     DEF InvocationType, InvocationSound, SendSound, BroadcastSound, Broadcasting
<1> HIDE DEF w
<1>5. QED BY <1>1, <1>3, <1>4, ReadStep DEF SendGetRoom

\* The message stored names the owner of the sender, and its frame is of it.
LEMMA InsertMessageStep ==
    ASSUME IInv, NEW g \in Conns, InsertMessage(g), UNCHANGED localVars
    PROVE  /\ IInv'
           /\ \/ UNCHANGED messages
              \/ \E r \in RoomIds, id \in Msgs :
                    /\ <<g, r>> \in joined
                    /\ \A m \in messages : m.id # id
                    /\ messages' = messages \cup
                          {[id |-> id, room |-> r, user |-> Owner[g], from |-> g]}
<1>1. /\ inv[g] \in InvocationType /\ BroadcastSound(g, inv[g])
      /\ inv[g].op = "send" /\ inv[g].pc = "insert_msg" /\ inv[g].room \in RoomIds
      /\ inv[g].conn = g /\ phase[g] = "serve" /\ sendingTo[g] = None
      /\ inv[g].user = Owner[g] /\ <<g, inv[g].room>> \in joined
  BY Typed, NotSending DEF InsertMessage, At, InvocationSound, SendSound
<1> DEFINE M(id) == [id |-> id, room |-> inv[g].room, user |-> Owner[g], from |-> g]
<1>2. PICK id \in Msgs, outcome \in WriteOutcomes :
         /\ \A m \in messages : m.id # id
         /\ messages' = IF outcome = "refused" THEN messages ELSE messages \cup {M(id)}
         /\ inv' = [inv EXCEPT ![g] =
                      IF outcome = "ok"
                      THEN Broadcast(inv[g], ChatMessage(inv[g].room, Owner[g], id))
                      ELSE Returned(inv[g], "failed")]
  BY <1>1 DEF InsertMessage
<1>3. /\ M(id) \in MessageType /\ M(id).user = Owner[M(id).from]
      /\ M(id).id = id /\ M(id).room = inv[g].room
  BY <1>1 DEF MessageType
<1>4. UNCHANGED <<users, connections, readable, joined, heard>>
  BY DEF InsertMessage
<1>5. /\ messages \subseteq messages' /\ messages' \subseteq MessageType
      /\ \A m \in messages' : m.user = Owner[m.from]
  BY <1>2, <1>3 DEF IInv, TypeOK, HandlersTypeOK
<1>6. PICK w \in InvocationType : inv' = [inv EXCEPT ![g] = w] /\ InvocationSound(g, w)'
  <2>1. CASE outcome = "ok"
    <3>1. PICK f \in Frame : /\ f = ChatMessage(inv[g].room, Owner[g], id)
                            /\ f.type = "message" /\ f.room = inv[g].room /\ f.msg = id
      <4> DEFINE e == ChatMessage(inv[g].room, Owner[g], id)
      <4>1. e \in Frame /\ e.type = "message" /\ e.room = inv[g].room /\ e.msg = id
        BY <1>1 DEF Frame, ChatMessage
      <4> HIDE DEF e
      <4>2. \E f \in Frame : /\ f = e
                            /\ f.type = "message" /\ f.room = inv[g].room /\ f.msg = id
        BY <4>1
      <4>3. QED BY <4>2 DEF e
    <3>2. PICK w : w = Broadcast(inv[g], f)
      OBVIOUS
    <3>3. /\ w \in InvocationType /\ w.op = "send" /\ w.conn = g /\ w.room = inv[g].room
          /\ w.pc = "query" /\ w.frame = f /\ w.targets = {}
      BY <1>1, <3>2 DEF Broadcast, InvocationType, PCs, BroadcastSound, Broadcasting
    <3>4. inv' = [inv EXCEPT ![g] = w]
      BY <1>2, <2>1, <3>1, <3>2
    <3>5. \E m \in messages' : m.id = f.msg /\ m.room = f.room
      BY <1>2, <1>3, <2>1, <3>1
    <3>6. BroadcastSound(g, w)'
      BY <1>1, <1>4, <3>1, <3>3, <3>5 DEF BroadcastSound, Broadcasting
    <3>7. InvocationSound(g, w)'
      BY <1>1, <3>3, <3>6 DEF InvocationSound, SendSound, Broadcasting, localVars
    <3>8. QED BY <3>3, <3>4, <3>7
  <2>2. CASE outcome # "ok"
    <3>1. inv' = [inv EXCEPT ![g] = IdleInvocation]
      BY <1>1, <1>2, <2>2, ReturnedShape
    <3>2. IdleInvocation \in InvocationType /\ InvocationSound(g, IdleInvocation)'
      BY <1>1
         DEF IdleInvocation, Invocation, InvocationType, PCs, Ops, InvocationSound,
             IdleSound, BroadcastSound, Broadcasting, localVars
    <3>3. QED BY <3>1, <3>2
  <2>3. QED BY <2>1, <2>2
<1>7. RowsSound(g)' /\ (phase[g] \in {"add", "serve"} => connections'[g] # NoRow)
  BY <1>4, Typed DEF GoroutineSound, RowsSound, RowSound
<1>8. IInv'
  BY <1>1, <1>4, <1>5, <1>6, <1>7, CallStep DEF IInv, TypeOK, HandlersTypeOK
<1>9. QED BY <1>1, <1>2, <1>8

(***************************************************************************)
(* BroadcastToRoom, and ConnRegistry.Send.                                 *)
(***************************************************************************)

\* The loop of a broadcast goes on, or the handler resumes, with what the
\* goroutine has established.
LEMMA ContinueSound ==
    ASSUME NEW g \in Conns, NEW v \in InvocationType, InvocationSound(g, v),
           v.pc \in Broadcasting, NEW left \in SUBSET Conns,
           \A d \in left : <<d, v.frame.room>> \in joined
    PROVE  /\ Continue(v, left) \in InvocationType
           /\ InvocationSound(g, Continue(v, left))
<1>1. /\ v.op \in {"disconnect", "join", "send"} /\ v.conn = g
      /\ v.op # "disconnect" => phase[g] = "serve"
  BY DEF InvocationSound, IdleSound, ConnectSound, JoinSound, SendSound, Broadcasting,
         IdleInvocation, Invocation, InvocationType, Ops
<1>2. PICK w \in InvocationType : w = Continue(v, left)
  BY ContinueShape
<1>3. InvocationSound(g, w)
  <2>1. CASE w = [v EXCEPT !.pc = "post", !.targets = left, !.stale = None]
    <3>1. /\ w.pc = "post" /\ w.targets = left /\ w.op = v.op /\ w.conn = v.conn
          /\ w.room = v.room /\ w.left = v.left /\ w.frame = v.frame
      BY <2>1 DEF InvocationType
    <3>2. BroadcastSound(g, w)
      BY <3>1 DEF InvocationSound, BroadcastSound, Broadcasting
    <3>3. QED BY <1>1, <3>1, <3>2
              DEF InvocationSound, DisconnectSound, JoinSound, SendSound, Broadcasting
  <2>2. CASE v.op = "disconnect" /\ w = Resume(v, "delete_conn")
    <3>1. /\ w.pc = "delete_conn" /\ w.targets = {} /\ w.frame = NoFrame
          /\ w.op = v.op /\ w.conn = v.conn /\ w.room = v.room
      BY <2>2 DEF InvocationType, Resume
    <3>2. QED BY <1>1, <2>2, <3>1
              DEF InvocationSound, DisconnectSound, BroadcastSound, Broadcasting
  <2>3. CASE v.op = "join" /\ v.frame.type = "user_left" /\ w = Resume(v, "set_room")
    <3>1. /\ w.pc = "set_room" /\ w.targets = {} /\ w.frame = NoFrame
          /\ w.op = v.op /\ w.conn = v.conn /\ w.room = v.room /\ w.left = v.left
      BY <2>3 DEF InvocationType, Resume
    <3>2. QED BY <1>1, <2>3, <3>1
              DEF InvocationSound, JoinSound, BroadcastSound, Broadcasting
  <2>4. CASE v.op # "disconnect" /\ w = Returned(v, "ok")
    <3>1. w = IdleInvocation
      BY <1>1, <2>4, ReturnedShape
    <3>2. QED BY <1>1, <2>4, <3>1, IdleFits
  <2>5. QED BY <1>2, <2>1, <2>2, <2>3, <2>4, ContinueShape
<1>4. QED BY <1>2, <1>3

\* The connections a page of the room query lists have all been in the room.
LEMMA QueryAudience ==
    ASSUME IInv, NEW r \in RoomIds, NEW found \in GetConnectionsByRoom(r)
    PROVE  /\ found \in SUBSET Conns
           /\ \A d \in found : <<d, r>> \in joined
<1>1. \A d \in found : d \in Conns /\ \E row \in readable[d] : Listed(row, r)
  BY DEF GetConnectionsByRoom
<1>2. ASSUME NEW d \in found
      PROVE  <<d, r>> \in joined
  <2>1. d \in Conns
    BY <1>1
  <2>2. PICK row \in readable[d] : Listed(row, r)
    BY <1>1
  <2>3. RowSound(d, row)
    BY <2>1, <2>2, Typed DEF GoroutineSound, RowsSound
  <2>4. QED BY <2>2, <2>3 DEF Listed, RowSound
<1>3. QED BY <1>1, <1>2

LEMMA QueryRoomStep ==
    ASSUME IInv, NEW g \in Conns, QueryRoom(g), UNCHANGED localVars
    PROVE  IInv'
<1>1. /\ inv[g] \in InvocationType /\ InvocationSound(g, inv[g])
      /\ inv[g].pc = "query" /\ inv[g].pc \in Broadcasting /\ sendingTo[g] = None
      /\ inv[g].frame.room \in RoomIds
  BY Typed, NotSending
     DEF QueryRoom, Broadcasting, InvocationSound, BroadcastSound, Frame
<1>2. PICK found \in SUBSET Conns :
         /\ \A d \in found : <<d, inv[g].frame.room>> \in joined
         /\ inv' = [inv EXCEPT ![g] = Continue(inv[g], found)]
  BY <1>1, QueryAudience DEF QueryRoom
<1>3. /\ Continue(inv[g], found) \in InvocationType
      /\ InvocationSound(g, Continue(inv[g], found))
  BY <1>1, <1>2, ContinueSound
<1>4. QED BY <1>1, <1>2, <1>3, ReadStep DEF QueryRoom

\* When Send returns, whatever it was called for, the handler goes on soundly.
LEMMA SentSound ==
    ASSUME IInv, NEW g \in Conns, NEW d, Sent(g, d)
    PROVE  /\ \E w \in InvocationType :
                 inv' = [inv EXCEPT ![g] = w] /\ InvocationSound(g, w)
           /\ UNCHANGED <<users, connections, readable, messages, joined>>
<1>1. inv[g] \in InvocationType /\ InvocationSound(g, inv[g])
  BY Typed
<1>2. UNCHANGED <<users, connections, readable, messages, joined>>
  BY DEF Sent, SendAck, SendError
<1>3. CASE inv[g].pc = "post"
  <2>1. inv' = [inv EXCEPT ![g] = Continue(inv[g], inv[g].targets \ {d})]
    BY <1>3 DEF Sent, SendAck, SendError, At
  <2>2. /\ inv[g].targets \ {d} \in SUBSET Conns
        /\ \A e \in inv[g].targets \ {d} : <<e, inv[g].frame.room>> \in joined
    BY <1>1, <1>3 DEF InvocationSound, BroadcastSound, Broadcasting, InvocationType
  <2>3. /\ Continue(inv[g], inv[g].targets \ {d}) \in InvocationType
        /\ InvocationSound(g, Continue(inv[g], inv[g].targets \ {d}))
    BY <1>1, <1>3, <2>2, ContinueSound DEF Broadcasting
  <2>4. QED BY <1>2, <2>1, <2>3
<1>4. CASE inv[g].pc = "ack"
  <2>1. /\ inv[g].op = "join" /\ inv[g].conn = g /\ phase[g] = "serve"
        /\ inv[g].room \in Rooms /\ <<g, inv[g].room>> \in joined
        /\ BroadcastSound(g, inv[g]) /\ inv[g].pc \notin Broadcasting
    BY <1>1, <1>4
       DEF InvocationSound, IdleSound, ConnectSound, DisconnectSound, JoinSound,
           SendSound, IdleInvocation, Invocation, Broadcasting, InvocationType, Ops
  <2>2. inv' = [inv EXCEPT ![g] =
                  Broadcast(inv[g], UserEvent("user_joined", inv[g].room, inv[g].user))]
    BY <1>4 DEF Sent, SendAck, SendError
  <2> DEFINE f == UserEvent("user_joined", inv[g].room, inv[g].user)
             w == Broadcast(inv[g], f)
  <2>3. f \in Frame /\ f.type = "user_joined" /\ f.room = inv[g].room
    BY <1>1, <2>1 DEF Frame, UserEvent, InvocationType
  <2> HIDE DEF f
  <2>4. /\ w \in InvocationType /\ w.op = "join" /\ w.conn = g
        /\ w.room = inv[g].room /\ w.pc = "query" /\ w.frame = f
        /\ BroadcastSound(g, w)
    BY <1>1, <2>1, <2>3, BroadcastStart
  <2>5. inv' = [inv EXCEPT ![g] = w]
    BY <2>2 DEF f
  <2> HIDE DEF w
  <2>6. InvocationSound(g, w)
    BY <2>1, <2>3, <2>4 DEF InvocationSound, JoinSound, Broadcasting
  <2>7. QED BY <1>2, <2>4, <2>5, <2>6
<1>5. CASE inv[g].pc = "send_error"
  <2>1. inv[g].op \in {"join", "send"} /\ phase[g] = "serve"
    BY <1>1, <1>5
       DEF InvocationSound, IdleSound, ConnectSound, DisconnectSound, JoinSound,
           SendSound, IdleInvocation, Invocation, Broadcasting, InvocationType, Ops
  <2>2. inv' = [inv EXCEPT ![g] = IdleInvocation]
    BY <1>1, <1>5, <2>1, ReturnedShape DEF Sent, SendAck, SendError, Return, At
  <2>3. QED BY <1>2, <2>1, <2>2, IdleFits
<1>6. CASE inv[g].pc = "idle"
  <2>1. inv' = [inv EXCEPT ![g] = inv[g]]
    BY <1>6, Typed DEF Sent, SendAck, SendError, At
  <2>2. QED BY <1>1, <1>2, <2>1
<1>7. QED BY <1>3, <1>4, <1>5, <1>6 DEF Sent, SendAck, SendError, At

(***************************************************************************)
(* The steps of wsHandler.                                                 *)
(***************************************************************************)

\* A step of one goroutine that writes no table: it moves to the phase p and its
\* invocation to w.
LEMMA LocalStep ==
    ASSUME IInv, NEW g \in Conns, NEW w \in InvocationType, NEW p \in Phases,
           UNCHANGED <<users, connections, readable, messages, joined>>,
           inv' = [inv EXCEPT ![g] = w], phase' = [phase EXCEPT ![g] = p],
           heard' \subseteq Conns \X Msgs, registry' \subseteq Conns,
           writer' \in [Conns -> Conns \cup {None}],
           sendingTo' \in [Conns -> Conns \cup {None}],
           client' \in [Conns -> Clients],
           \A d \in Conns \ {g} : /\ sendingTo'[d] = sendingTo[d]
                                  /\ d \in registry' <=> d \in registry,
           g \in registry' <=> p \in Registered,
           p \in {"add", "serve"} => connections[g] # NoRow,
           p = phase[g] \/ p \in Registered \cup Gone
              \/ phase[g] \notin Registered \cup Gone,
           InvocationSound(g, w)', SendingSound(g)', MutexesInUse'
    PROVE  IInv'
<1>1. TypeOK'
  BY DEF IInv, TypeOK, HandlersTypeOK
<1>2. /\ phase'[g] = p /\ inv'[g] = w
      /\ \A d \in Conns \ {g} : phase'[d] = phase[d] /\ inv'[d] = inv[d]
  BY DEF IInv, TypeOK, HandlersTypeOK
<1>3. OthersUntouched(g)
  BY <1>2 DEF OthersUntouched
<1>4. GoroutineSound(g)'
  <2>1. RowsSound(g)'
    BY Typed DEF GoroutineSound, RowsSound, RowSound
  <2>2. InvocationSound(g, inv[g])'
    BY <1>2
  <2>3. \A r \in RoomIds : <<g, r>> \in joined' =>
           r \in Rooms /\ phase'[g] \in Registered \cup Gone
    BY <1>2, Typed DEF GoroutineSound
  <2>4. QED BY <1>2, <2>1, <2>2, <2>3 DEF GoroutineSound
<1>5. QED BY <1>1, <1>3, <1>4, OneMoves DEF IInv

LEMMA AcceptStep ==
    ASSUME IInv, NEW c \in Conns, Accept(c)
    PROVE  IInv'
<1>1. /\ phase[c] = "new" /\ c \notin registry
      /\ inv[c].op = "none" /\ inv[c] = IdleInvocation
  BY Typed
     DEF Accept, GoroutineSound, Registered, InvocationSound, IdleSound, ConnectSound,
         DisconnectSound, JoinSound, SendSound, InvocationType, Ops
<1>2. sendingTo[c] = None
  BY <1>1, Typed
     DEF GoroutineSound, SendingSound, IdleInvocation, Invocation
<1>3. PICK w \in InvocationType : w = Invocation("connect", c, None, "upsert_user")
  BY DEF Invocation, InvocationType, PCs, Ops
<1>4. /\ UNCHANGED <<users, connections, readable, messages, joined, heard,
                     registry, writer, sendingTo, client>>
      /\ inv' = [inv EXCEPT ![c] = w] /\ phase' = [phase EXCEPT ![c] = "connect"]
  BY <1>3 DEF Accept, Begin, GoTo
<1>5. phase'[c] = "connect"
  BY <1>4 DEF IInv, TypeOK
<1>6. InvocationSound(c, w)'
  BY <1>3, <1>5
     DEF Invocation, InvocationSound, ConnectSound, BroadcastSound, Broadcasting
<1>7. SendingSound(c)'
  BY <1>2, <1>4 DEF SendingSound
<1>8. MutexesInUse'
  BY <1>1, <1>4 DEF IInv, TypeOK, MutexesInUse
<1>9. QED BY <1>1, <1>4, <1>6, <1>7, <1>8, LocalStep
          DEF IInv, TypeOK, HandlersTypeOK, Phases, Registered, Gone

LEMMA ConnectedStep ==
    ASSUME IInv, NEW c \in Conns, Connected(c)
    PROVE  IInv'
<1>1. /\ phase[c] = "connect" /\ c \notin registry
      /\ inv[c].op = "connect"
      /\ inv[c].pc = "ok" => connections[c] # NoRow
      /\ inv[c].pc = "failed" => "db" \in Faults
  BY Typed
     DEF Connected, GoroutineSound, Registered, InvocationSound, IdleSound, ConnectSound,
         DisconnectSound, JoinSound, SendSound, InvocationType, Ops
<1>2. sendingTo[c] = None
  BY <1>1, Typed
     DEF Connected, GoroutineSound, SendingSound
<1>3. IdleInvocation \in InvocationType
  BY DEF IdleInvocation, Invocation, InvocationType, PCs, Ops
<1>4. PICK p \in {"add", "ended"} :
         /\ phase' = [phase EXCEPT ![c] = p]
         /\ p = "add" => connections[c] # NoRow
         /\ p = "ended" => "db" \in Faults
         /\ client' \in [Conns -> Clients]
  BY <1>1 DEF Connected, GoTo, IInv, TypeOK, Clients
<1>5. /\ UNCHANGED <<users, connections, readable, messages, joined, heard,
                     registry, writer, sendingTo>>
      /\ inv' = [inv EXCEPT ![c] = IdleInvocation]
  BY DEF Connected, Begin
<1>6. phase'[c] = p
  BY <1>4 DEF IInv, TypeOK
<1>7. InvocationSound(c, IdleInvocation)'
  BY <1>4, <1>5, <1>6
     DEF Invocation, IdleInvocation, InvocationSound, IdleSound, BroadcastSound, Broadcasting
<1>8. SendingSound(c)'
  BY <1>2, <1>5 DEF SendingSound
<1>9. MutexesInUse'
  BY <1>1, <1>4, <1>5 DEF IInv, TypeOK, MutexesInUse
<1>10. p \in Phases
  BY DEF Phases
<1>11. QED
  BY <1>1, <1>3, <1>4, <1>5, <1>7, <1>8, <1>9, <1>10, LocalStep
     DEF IInv, TypeOK, HandlersTypeOK, Registered, Gone

LEMMA AddStep ==
    ASSUME IInv, NEW c \in Conns, Add(c)
    PROVE  IInv'
<1>1. /\ phase[c] = "add" /\ connections[c] # NoRow
      /\ inv[c].op = "none" /\ inv[c] = IdleInvocation
  BY Typed
     DEF Add, GoroutineSound, InvocationSound, IdleSound, ConnectSound,
         DisconnectSound, JoinSound, SendSound, InvocationType, Ops
<1>2. sendingTo[c] = None
  BY <1>1, Typed DEF GoroutineSound, SendingSound, IdleInvocation, Invocation
<1>3. IdleInvocation \in InvocationType
  BY DEF IdleInvocation, Invocation, InvocationType, PCs, Ops
<1>4. /\ UNCHANGED <<users, connections, readable, messages, inv, joined, heard,
                     writer, sendingTo, client>>
      /\ inv' = [inv EXCEPT ![c] = IdleInvocation]
      /\ phase' = [phase EXCEPT ![c] = "serve"]
      /\ registry' = registry \cup {c}
  BY <1>1, Typed DEF Add, GoTo
<1>5. phase'[c] = "serve"
  BY <1>4 DEF IInv, TypeOK
<1>6. InvocationSound(c, IdleInvocation)'
  BY <1>5
     DEF Invocation, IdleInvocation, InvocationSound, IdleSound, BroadcastSound, Broadcasting
<1>7. SendingSound(c)'
  BY <1>2, <1>4 DEF SendingSound
<1>8. MutexesInUse'
  BY <1>1, <1>4 DEF IInv, TypeOK, MutexesInUse
<1>9. QED BY <1>1, <1>3, <1>4, <1>6, <1>7, <1>8, LocalStep
          DEF IInv, TypeOK, HandlersTypeOK, Phases, Registered, Gone

LEMMA RemoveStep ==
    ASSUME IInv, NEW c \in Conns, Remove(c)
    PROVE  IInv'
<1>1. /\ phase[c] = "clean_up" /\ inv[c] = IdleInvocation
      /\ connections[c] = NoRow \/ Faults \cap {"db", "stale"} # {}
  BY Typed
     DEF Remove, GoroutineSound, InvocationSound, IdleSound, IdleInvocation, Invocation
<1>2. sendingTo[c] = None
  BY <1>1, Typed DEF GoroutineSound, SendingSound, IdleInvocation, Invocation
<1>3. IdleInvocation \in InvocationType
  BY DEF IdleInvocation, Invocation, InvocationType, PCs, Ops
<1>4. /\ UNCHANGED <<users, connections, readable, messages, joined, heard,
                     writer, sendingTo, client>>
      /\ inv' = [inv EXCEPT ![c] = IdleInvocation]
      /\ phase' = [phase EXCEPT ![c] = "ended"]
      /\ registry' = registry \ {c}
  BY <1>1, Typed DEF Remove, GoTo
<1>5. phase'[c] = "ended"
  BY <1>4 DEF IInv, TypeOK
<1>6. InvocationSound(c, IdleInvocation)'
  BY <1>1, <1>4, <1>5
     DEF Invocation, IdleInvocation, InvocationSound, IdleSound, BroadcastSound, Broadcasting
<1>7. SendingSound(c)'
  BY <1>2, <1>4 DEF SendingSound
<1>8. MutexesInUse'
  BY <1>2, <1>4 DEF IInv, TypeOK, MutexesInUse
<1>9. QED BY <1>1, <1>3, <1>4, <1>6, <1>7, <1>8, LocalStep
          DEF IInv, TypeOK, HandlersTypeOK, Phases, Registered, Gone

\* A goroutine in ReadMessage is between two requests and holds nothing.
LEMMA ReadingSound ==
    ASSUME IInv, NEW c \in Conns, Reading(c)
    PROVE  /\ phase[c] = "serve" /\ inv[c] = IdleInvocation /\ sendingTo[c] = None
           /\ connections[c] # NoRow
           /\ c \in registry
           /\ \A d \in Conns : writer[d] # c
<1>1. /\ phase[c] = "serve" /\ inv[c] = IdleInvocation /\ sendingTo[c] = None
      /\ connections[c] # NoRow /\ c \in registry
  BY Typed DEF Reading, GoroutineSound, Registered
<1>2. QED BY <1>1 DEF IInv, MutexesInUse

\* The read loop hands a request to a handler.
LEMMA RequestStep ==
    ASSUME IInv, NEW c \in Conns, Reading(c), NEW w \in InvocationType,
           inv' = [inv EXCEPT ![c] = w],
           w.op \in {"join", "send"}, w.conn = c, w.room \in RoomIds,
           w.op = "join" => w.pc = "get_room",
           w.op = "send" => w.pc \in {"get_conn", "send_error"},
           w.frame = NoFrame, w.targets = {},
           UNCHANGED <<users, connections, readable, messages, joined, heard, localVars>>
    PROVE  IInv'
<1>1. /\ phase[c] = "serve" /\ sendingTo[c] = None
  BY ReadingSound
<1>2. InvocationSound(c, w)
  BY <1>1
     DEF InvocationSound, JoinSound, SendSound, BroadcastSound, Broadcasting, NoFrame
<1>3. QED BY <1>1, <1>2, ReadStep

LEMMA JoinRequestStep ==
    ASSUME IInv, NEW c \in Conns, NEW r \in Asks[c], JoinRequest(c, r)
    PROVE  IInv'
<1>1. PICK w \in InvocationType : w = Invocation("join", c, r, "get_room")
  BY DEF Invocation, InvocationType, PCs, Ops
<1>2. r \in RoomIds
  OBVIOUS
<1>3. /\ w.op = "join" /\ w.pc = "get_room" /\ w.conn = c /\ w.room = r
      /\ w.frame = NoFrame /\ w.targets = {}
  BY <1>1 DEF Invocation
<1>4. QED BY <1>1, <1>2, <1>3, RequestStep DEF JoinRequest, Begin

LEMMA SendRequestStep ==
    ASSUME IInv, NEW c \in Conns, NEW r \in Asks[c], SendRequest(c, r)
    PROVE  IInv'
<1>1. PICK pc \in {"get_conn", "send_error"} :
         inv' = [inv EXCEPT ![c] = Invocation("send", c, r, pc)]
  BY Zenon DEF SendRequest, Begin
<1>2. r \in RoomIds
  OBVIOUS
<1>3. PICK w \in InvocationType : w = Invocation("send", c, r, pc)
  BY <1>2 DEF Invocation, InvocationType, PCs, Ops
<1>4. /\ w.op = "send" /\ w.pc = pc /\ w.conn = c /\ w.room = r
      /\ w.frame = NoFrame /\ w.targets = {}
  BY <1>3 DEF Invocation
<1>5. QED BY <1>1, <1>2, <1>3, <1>4, RequestStep DEF SendRequest

LEMMA PingStep ==
    ASSUME IInv, NEW c \in Conns, Ping(c)
    PROVE  IInv'
<1>1. /\ phase[c] = "serve" /\ inv[c] = IdleInvocation /\ c \in registry
      /\ connections[c] # NoRow
      /\ \A d \in Conns : writer[d] # c
  BY ReadingSound DEF Ping
<1>2. PICK w \in InvocationType : w = inv[c] /\ InvocationSound(c, w)
  BY Typed
<1>3. /\ UNCHANGED <<users, connections, readable, messages, inv, joined, heard,
                     phase, registry, writer, client>>
      /\ inv' = [inv EXCEPT ![c] = w]
      /\ phase' = [phase EXCEPT ![c] = phase[c]]
      /\ sendingTo' = [sendingTo EXCEPT ![c] = c]
  BY <1>2, Typed DEF Ping, IInv, TypeOK
<1>4. InvocationSound(c, w)'
  BY <1>2, <1>3, InvocationKept
<1>5. SendingSound(c)'
  BY <1>1, <1>3 DEF SendingSound, IdleInvocation, Invocation
<1>6. MutexesInUse'
  BY <1>1, <1>3 DEF IInv, TypeOK, MutexesInUse
<1>7. QED BY <1>1, <1>3, <1>4, <1>5, <1>6, LocalStep
          DEF IInv, TypeOK, HandlersTypeOK, Phases, Registered

LEMMA ReadErrorStep ==
    ASSUME IInv, NEW c \in Conns, ReadError(c)
    PROVE  IInv'
<1>1. /\ phase[c] = "serve" /\ c \in registry /\ sendingTo[c] = None
      /\ connections[c] # NoRow
      /\ \A d \in Conns : writer[d] # c
  BY ReadingSound DEF ReadError
<1>2. PICK w \in InvocationType : w = Invocation("disconnect", c, None, "get_conn")
  BY DEF Invocation, InvocationType, PCs, Ops
<1>3. /\ UNCHANGED <<users, connections, readable, messages, joined, heard,
                     registry, writer, sendingTo, client>>
      /\ inv' = [inv EXCEPT ![c] = w]
      /\ phase' = [phase EXCEPT ![c] = "clean_up"]
  BY <1>2 DEF ReadError, Begin, GoTo
<1>4. phase'[c] = "clean_up"
  BY <1>3 DEF IInv, TypeOK
<1>5. InvocationSound(c, w)'
  BY <1>1, <1>2, <1>3, <1>4
     DEF Invocation, InvocationSound, DisconnectSound, BroadcastSound, Broadcasting
<1>6. SendingSound(c)'
  BY <1>1, <1>3 DEF SendingSound
<1>7. MutexesInUse'
  BY <1>3, <1>4 DEF IInv, TypeOK, MutexesInUse
<1>8. QED BY <1>1, <1>3, <1>5, <1>6, <1>7, LocalStep
          DEF IInv, TypeOK, HandlersTypeOK, Phases, Registered

(***************************************************************************)
(* The steps of ConnRegistry.Send.                                         *)
(***************************************************************************)

\* Addressees are the targets of a broadcast, or the goroutine's own connection
\* while it serves a request.
LEMMA AddresseesSound ==
    ASSUME IInv, NEW g \in Conns, NEW d \in Addressees(g)
    PROVE  /\ d \in Conns
           /\ \/ inv[g].pc = "post" /\ d \in inv[g].targets
              \/ inv[g].pc \in {"ack", "send_error"} /\ phase[g] = "serve"
<1>1. /\ inv[g] \in InvocationType /\ InvocationSound(g, inv[g])
  BY Typed
<1>2. CASE inv[g].pc = "post"
  BY <1>1, <1>2 DEF Addressees, InvocationType
<1>3. CASE inv[g].pc \in {"ack", "send_error"}
  <2>1. phase[g] = "serve"
    BY <1>1, <1>3
       DEF InvocationSound, IdleSound, ConnectSound, DisconnectSound, JoinSound,
           SendSound, IdleInvocation, Invocation, Broadcasting, InvocationType, Ops
  <2>2. QED BY <1>3, <2>1 DEF Addressees
<1>4. QED BY <1>2, <1>3 DEF Addressees

LEMMA LookUpStep ==
    ASSUME IInv, NEW g \in Conns, LookUp(g)
    PROVE  /\ IInv'
           /\ UNCHANGED <<messages, joined, heard>>
<1>1. PICK d \in Addressees(g) :
         \/ /\ d \in registry
            /\ sendingTo' = [sendingTo EXCEPT ![g] = d]
            /\ UNCHANGED <<users, connections, readable, messages, inv, joined>>
         \/ Sent(g, d) /\ UNCHANGED sendingTo
  BY DEF LookUp
<1>2. /\ sendingTo[g] = None
      /\ UNCHANGED <<heard, phase, registry, writer, client>>
  BY DEF LookUp
<1>3. CASE /\ sendingTo' = [sendingTo EXCEPT ![g] = d]
           /\ UNCHANGED <<users, connections, readable, messages, inv, joined>>
  <2>1. PICK w \in InvocationType : w = inv[g] /\ InvocationSound(g, w)
    BY Typed
  <2>2. /\ inv' = [inv EXCEPT ![g] = w]
        /\ phase' = [phase EXCEPT ![g] = phase[g]]
        /\ phase[g] \in Phases
        /\ d \in Conns
    BY <1>2, <1>3, <2>1, Typed, AddresseesSound DEF IInv, TypeOK
  <2>3. InvocationSound(g, w)'
    BY <1>2, <1>3, <2>1, InvocationKept
  <2>4. SendingSound(g)'
    BY <1>2, <1>3, AddresseesSound DEF SendingSound, IInv, TypeOK
  <2>5. MutexesInUse'
    BY <1>2, <1>3, <2>2 DEF IInv, TypeOK, MutexesInUse
  <2>6. g \in registry' <=> phase[g] \in Registered
    BY <1>2, Typed DEF GoroutineSound
  <2>7. phase[g] \in {"add", "serve"} => connections[g] # NoRow
    BY Typed DEF GoroutineSound
  <2>8. IInv'
    BY <1>2, <1>3, <2>2, <2>3, <2>4, <2>5, <2>6, <2>7, LocalStep
       DEF IInv, TypeOK, HandlersTypeOK
  <2>9. QED BY <1>2, <1>3, <2>8
<1>4. CASE Sent(g, d) /\ UNCHANGED sendingTo
  <2>1. /\ \E w \in InvocationType :
              inv' = [inv EXCEPT ![g] = w] /\ InvocationSound(g, w)
        /\ UNCHANGED <<users, connections, readable, messages, joined>>
    BY <1>4, SentSound
  <2>2. QED BY <1>2, <1>4, <2>1, ReadStep DEF localVars
<1>5. QED BY <1>1, <1>3, <1>4

LEMMA LockEntryStep ==
    ASSUME IInv, NEW g \in Conns, LockEntry(g)
    PROVE  /\ IInv'
           /\ UNCHANGED <<messages, joined, heard>>
<1>1. /\ sendingTo[g] \in Conns
      /\ writer' = [writer EXCEPT ![sendingTo[g]] = g]
      /\ UNCHANGED <<users, connections, readable, messages, inv, joined, heard,
                     phase, registry, sendingTo, client>>
  BY DEF LockEntry, IInv, TypeOK
<1>2. phase[g] \in Registered
  <2>1. phase[g] = "serve" \/ inv[g].pc = "post"
    BY <1>1, Typed DEF GoroutineSound, SendingSound
  <2>2. inv[g] \in InvocationType /\ InvocationSound(g, inv[g])
    BY Typed
  <2>3. inv[g].pc = "post" => inv[g].op \in {"disconnect", "join", "send"}
    BY <2>2
       DEF InvocationSound, IdleSound, ConnectSound, IdleInvocation, Invocation,
           InvocationType, Ops
  <2>4. QED BY <2>1, <2>2, <2>3
            DEF InvocationSound, DisconnectSound, JoinSound, SendSound, Registered
<1>3. TypeOK'
  BY <1>1 DEF IInv, TypeOK, HandlersTypeOK
<1>4. OthersUntouched(g)
  BY <1>1 DEF OthersUntouched
<1>5. GoroutineSound(g)'
  <2>1. InvocationSound(g, inv[g])'
    <3>1. PICK v : v = inv[g]
      OBVIOUS
    <3>2. InvocationSound(g, v)'
      BY <1>1, <3>1, Typed, InvocationKept
    <3>3. QED BY <1>1, <3>1, <3>2
  <2>2. RowsSound(g)' /\ SendingSound(g)'
    BY <1>1, Typed DEF GoroutineSound, RowsSound, RowSound, SendingSound
  <2>3. QED BY <1>1, <2>1, <2>2, Typed DEF GoroutineSound
<1>6. MutexesInUse'
  BY <1>1, <1>2 DEF IInv, TypeOK, MutexesInUse, Registered
<1>7. QED BY <1>1, <1>3, <1>4, <1>5, <1>6, OneMoves DEF IInv

\* A message that is delivered is one in the log of a room its receiver has
\* joined.
LEMMA WriteStep ==
    ASSUME IInv, NEW g \in Conns, Write(g)
    PROVE  /\ IInv'
           /\ UNCHANGED <<messages, joined>>
           /\ \/ UNCHANGED heard
              \/ \E d \in Conns, m \in messages :
                    /\ <<d, m.room>> \in joined
                    /\ heard' = heard \cup {<<d, m.id>>}
<1>1. PICK d : d = sendingTo[g]
  OBVIOUS
<1>2. /\ d \in Conns /\ writer[d] = g
      /\ Sent(g, d)
      /\ writer' = [writer EXCEPT ![d] = None]
      /\ sendingTo' = [sendingTo EXCEPT ![g] = None]
      /\ UNCHANGED <<phase, registry, client>>
  BY <1>1 DEF Write, UnlockEntry, IInv, TypeOK
<1>3. /\ \E w \in InvocationType :
            inv' = [inv EXCEPT ![g] = w] /\ InvocationSound(g, w)
      /\ UNCHANGED <<users, connections, readable, messages, joined>>
  BY <1>2, SentSound
<1>4. PICK w \in InvocationType : inv' = [inv EXCEPT ![g] = w] /\ InvocationSound(g, w)
  BY <1>3
<1>5. \/ UNCHANGED heard
      \/ \E m \in messages :
            /\ <<d, m.room>> \in joined
            /\ heard' = heard \cup {<<d, m.id>>}
  <2>1. CASE ~(client[d] = "open" /\ inv[g].frame.type = "message")
    BY <1>1, <2>1 DEF Write
  <2>2. CASE client[d] = "open" /\ inv[g].frame.type = "message"
    <3>1. heard' = heard \cup {<<d, inv[g].frame.msg>>}
      BY <1>1, <2>2 DEF Write
    <3>2. BroadcastSound(g, inv[g])
      BY Typed DEF InvocationSound
    <3>3. inv[g].pc \in Broadcasting
      BY <2>2, <3>2 DEF BroadcastSound, NoFrame
    <3>4. inv[g].pc = "post" /\ d \in inv[g].targets
      BY <1>1, <1>2, <3>3, Typed DEF GoroutineSound, SendingSound, Broadcasting
    <3>5. PICK m \in messages : m.id = inv[g].frame.msg /\ m.room = inv[g].frame.room
      BY <2>2, <3>2, <3>3 DEF BroadcastSound
    <3>6. <<d, m.room>> \in joined
      BY <3>2, <3>3, <3>4, <3>5 DEF BroadcastSound
    <3>7. QED BY <3>1, <3>5, <3>6
  <2>3. QED BY <2>1, <2>2
<1>6. heard' \subseteq Conns \X Msgs
  <2>1. \A m \in messages : m.id \in Msgs
    BY DEF IInv, TypeOK, HandlersTypeOK, MessageType
  <2>2. heard \subseteq Conns \X Msgs
    BY DEF IInv, TypeOK, HandlersTypeOK
  <2>3. \A m \in messages : <<d, m.id>> \in Conns \X Msgs
    BY <1>2, <2>1
  <2>4. QED BY <1>5, <2>2, <2>3
<1>7. InvocationSound(g, w)'
  BY <1>2, <1>3, <1>4, InvocationKept
<1>8. SendingSound(g)'
  BY <1>2 DEF SendingSound, IInv, TypeOK
<1>9. MutexesInUse'
  BY <1>1, <1>2 DEF IInv, TypeOK, MutexesInUse
<1>10. /\ phase' = [phase EXCEPT ![g] = phase[g]]
       /\ phase[g] \in Phases
       /\ g \in registry' <=> phase[g] \in Registered
       /\ phase[g] \in {"add", "serve"} => connections[g] # NoRow
  BY <1>2, Typed DEF IInv, TypeOK, GoroutineSound
<1>11. IInv'
  BY <1>2, <1>3, <1>4, <1>6, <1>7, <1>8, <1>9, <1>10, LocalStep
     DEF IInv, TypeOK, HandlersTypeOK
<1>12. QED BY <1>2, <1>3, <1>5, <1>11

(***************************************************************************)
(* Clients, and the process.                                               *)
(***************************************************************************)

LEMMA ClientStep ==
    ASSUME IInv, NEW c \in Conns, Stall(c) \/ ReadAgain(c) \/ CloseSocket(c)
    PROVE  IInv'
<1>1. /\ client' \in [Conns -> Clients]
      /\ UNCHANGED <<users, connections, readable, messages, inv, joined, heard,
                     phase, registry, writer, sendingTo>>
  BY DEF Stall, ReadAgain, CloseSocket, ClientDoes, IInv, TypeOK, Clients
<1>2. PICK w \in InvocationType : w = inv[c] /\ InvocationSound(c, w)
  BY Typed
<1>3. inv' = [inv EXCEPT ![c] = w] /\ phase' = [phase EXCEPT ![c] = phase[c]]
  BY <1>1, <1>2, Typed DEF IInv, TypeOK
<1>4. InvocationSound(c, w)'
  BY <1>1, <1>2, InvocationKept
<1>5. SendingSound(c)'
  BY <1>1, Typed DEF GoroutineSound, SendingSound
<1>6. MutexesInUse'
  BY <1>1 DEF IInv, MutexesInUse
<1>7. /\ phase[c] \in Phases
      /\ c \in registry' <=> phase[c] \in Registered
      /\ phase[c] \in {"add", "serve"} => connections[c] # NoRow
  BY <1>1, Typed DEF IInv, TypeOK, GoroutineSound
<1>8. QED BY <1>1, <1>3, <1>4, <1>5, <1>6, <1>7, LocalStep
          DEF IInv, TypeOK, HandlersTypeOK

\* A process that ends leaves idle slots and the tables behind.
LEMMA CrashStep ==
    ASSUME IInv, Crash
    PROVE  IInv'
<1>1. /\ phase' = [c \in Conns |-> IF phase[c] \in {"new"} \cup Gone
                                   THEN phase[c] ELSE "lost"]
      /\ client' = [c \in Conns |-> IF phase[c] = "new" THEN client[c] ELSE "closed"]
      /\ inv' = [c \in Conns |-> IdleInvocation]
      /\ registry' = {}
      /\ writer' = [c \in Conns |-> None]
      /\ sendingTo' = [c \in Conns |-> None]
      /\ UNCHANGED <<users, connections, readable, messages, joined, heard>>
  BY DEF Crash
<1>2. TypeOK'
  <2>1. IdleInvocation \in InvocationType
    BY DEF IdleInvocation, Invocation, InvocationType, PCs, Ops
  <2>2. HandlersTypeOK'
    BY <1>1, <2>1 DEF IInv, TypeOK, HandlersTypeOK
  <2>3. phase' \in [Conns -> Phases] /\ client' \in [Conns -> Clients]
    BY <1>1 DEF IInv, TypeOK, Phases, Clients
  <2>4. QED BY <1>1, <2>2, <2>3 DEF TypeOK
<1>3. MutexesInUse'
  BY <1>1 DEF MutexesInUse
<1>4. ASSUME NEW c \in Conns
      PROVE  GoroutineSound(c)'
  <2>1. /\ inv'[c] = IdleInvocation /\ sendingTo'[c] = None
        /\ phase'[c] = IF phase[c] \in {"new"} \cup Gone THEN phase[c] ELSE "lost"
    BY <1>1
  <2>2. RowsSound(c)' /\ SendingSound(c)'
    BY <1>1, <2>1, Typed DEF GoroutineSound, RowsSound, RowSound, SendingSound
  <2>3. phase[c] = "ended" => connections[c] = NoRow \/ Faults \cap {"db", "stale"} # {}
    BY Typed
       DEF InvocationSound, IdleSound, ConnectSound, DisconnectSound, JoinSound,
           SendSound, InvocationType, Ops
  <2>4. InvocationSound(c, inv[c])'
    BY <1>1, <2>1, <2>3
       DEF InvocationSound, IdleSound, IdleInvocation, Invocation, BroadcastSound,
           Broadcasting, Gone
  <2>5. QED BY <1>1, <2>1, <2>2, <2>4, Typed DEF GoroutineSound, Registered, Gone
<1>5. QED BY <1>1, <1>2, <1>3, <1>4 DEF IInv

(***************************************************************************)
(* The invariant is inductive.                                             *)
(***************************************************************************)

LEMMA InitInvariant ==
    Init => IInv
<1> SUFFICES ASSUME Init
             PROVE  IInv
  OBVIOUS
<1> USE DEF Init, HandlersInit
<1>1. IdleInvocation \in InvocationType
  BY DEF IdleInvocation, Invocation, InvocationType, PCs, Ops
<1>2. TypeOK
  BY <1>1 DEF TypeOK, HandlersTypeOK, Phases, Clients
<1>3. ASSUME NEW c \in Conns
      PROVE  GoroutineSound(c)
  <2>1. inv[c] = IdleInvocation /\ phase[c] = "new"
    OBVIOUS
  <2>2. InvocationSound(c, inv[c])
    BY <2>1, IdleFits
  <2>3. RowsSound(c) /\ SendingSound(c)
    BY DEF RowsSound, RowSound, SendingSound
  <2>4. QED BY <2>1, <2>2, <2>3 DEF GoroutineSound, Registered
<1>4. QED BY <1>2, <1>3 DEF IInv, MutexesInUse

\* What a step changes of the promise: a handler may let its connection into a room
\* or record a message; only Write lets anyone hear one.
HandlerPromises(g) ==
    \/ UNCHANGED <<joined, messages, heard>>
    \/ /\ \E r \in Rooms : joined' = joined \cup {<<g, r>>}
       /\ UNCHANGED <<messages, heard>>
    \/ /\ \E r \in RoomIds, id \in Msgs :
             /\ <<g, r>> \in joined
             /\ \A m \in messages : m.id # id
             /\ messages' = messages \cup
                   {[id |-> id, room |-> r, user |-> Owner[g], from |-> g]}
       /\ UNCHANGED <<joined, heard>>

\* A goroutine never comes to delete_stale: LocalSender reports no 410.
LEMMA HandlerNextStep ==
    ASSUME IInv, NEW g \in Conns, HandlerNext(g)
    PROVE  IInv' /\ HandlerPromises(g)
<1>1. UNCHANGED localVars /\ inv[g].pc \notin {"ack", "send_error"} /\ HandlerStep(g)
  BY DEF HandlerNext
<1>2. CASE UpsertUser(g) \/ InsertConnection(g)
  BY <1>1, <1>2, UpsertUserStep, InsertConnectionStep
     DEF HandlerPromises, UpsertUser, InsertConnection
<1>3. CASE DisconnectGetConnection(g) \/ DeleteConnection(g)
  BY <1>1, <1>3, DisconnectGetConnectionStep, DeleteConnectionStep
     DEF HandlerPromises, DisconnectGetConnection, DeleteConnection
<1>4. CASE JoinGetRoom(g) \/ JoinGetConnection(g)
  BY <1>1, <1>4, JoinGetRoomStep, JoinGetConnectionStep
     DEF HandlerPromises, JoinGetRoom, JoinGetConnection
<1>5. CASE SetConnectionRoom(g)
  BY <1>1, <1>5, SetConnectionRoomStep DEF HandlerPromises, SetConnectionRoom
<1>6. CASE SendGetConnection(g) \/ SendGetRoom(g)
  BY <1>1, <1>6, SendGetConnectionStep, SendGetRoomStep
     DEF HandlerPromises, SendGetConnection, SendGetRoom
<1>7. CASE InsertMessage(g)
  BY <1>1, <1>7, InsertMessageStep DEF HandlerPromises, InsertMessage
<1>8. CASE QueryRoom(g)
  BY <1>1, <1>8, QueryRoomStep DEF HandlerPromises, QueryRoom
<1>9. ~DeleteStale(g)
  <2>1. inv[g] \in InvocationType /\ InvocationSound(g, inv[g])
    BY Typed
  <2>2. inv[g].op \in Ops
    BY <2>1 DEF InvocationType
  <2>3. inv[g].pc # "delete_stale"
    BY <2>1, <2>2
       DEF InvocationSound, IdleSound, ConnectSound, DisconnectSound, JoinSound,
           SendSound, IdleInvocation, Invocation, Broadcasting, Ops
  <2>4. QED BY <2>3 DEF DeleteStale
<1>10. ~SendAck(g) /\ ~SendError(g)
  BY <1>1 DEF SendAck, SendError, At
<1>11. QED
  BY <1>1, <1>2, <1>3, <1>4, <1>5, <1>6, <1>7, <1>8, <1>9, <1>10
     DEF HandlerStep, HandleConnect, HandleDisconnect, HandleJoinRoom, HandleSendMessage

LEMMA NextInvariant ==
    IInv /\ [Next]_vars => IInv'
<1> SUFFICES ASSUME IInv, [Next]_vars
             PROVE  IInv'
  OBVIOUS
<1>1. ASSUME NEW g \in Conns, GoroutineStep(g)
      PROVE  IInv'
  BY <1>1, HandlerNextStep, ConnectedStep, AddStep, RemoveStep, LookUpStep
     DEF GoroutineStep
<1>2. ASSUME NEW g \in Conns, ReadError(g) \/ LockEntry(g) \/ Write(g)
      PROVE  IInv'
  BY <1>2, ReadErrorStep, LockEntryStep, WriteStep
<1>3. ASSUME NEW c \in Conns,
             Accept(c) \/ Ping(c) \/ Stall(c) \/ ReadAgain(c) \/ CloseSocket(c)
      PROVE  IInv'
  BY <1>3, AcceptStep, PingStep, ClientStep
<1>4. ASSUME NEW c \in Conns, NEW r \in Asks[c], JoinRequest(c, r) \/ SendRequest(c, r)
      PROVE  IInv'
  BY <1>4, JoinRequestStep, SendRequestStep
<1>5. CASE UNCHANGED vars
  <2>1. UNCHANGED <<users, connections, readable, messages, inv, joined, heard,
                    phase, registry, writer, sendingTo, client>>
    BY <1>5 DEF vars
  <2>2. TypeOK' /\ MutexesInUse'
    BY <2>1 DEF IInv, TypeOK, HandlersTypeOK, MutexesInUse
  <2>3. ASSUME NEW c \in Conns
        PROVE  GoroutineSound(c)'
    <3>1. PICK v : v = inv[c]
      OBVIOUS
    <3>2. InvocationSound(c, v)'
      BY <2>1, <3>1, Typed, InvocationKept
    <3>3. RowsSound(c)' /\ SendingSound(c)'
      BY <2>1, Typed DEF GoroutineSound, RowsSound, RowSound, SendingSound
    <3>4. QED BY <2>1, <3>1, <3>2, <3>3, Typed DEF GoroutineSound
  <2>4. QED BY <2>1, <2>2, <2>3 DEF IInv
<1>6. CASE Crash
  BY <1>6, CrashStep
<1>7. QED BY <1>1, <1>2, <1>3, <1>4, <1>5, <1>6 DEF Next

\* The inductive invariant holds in every reachable state, for any number of
\* sockets, rooms and messages and under every fault.
THEOREM LocalInvariance == Spec => []IInv
BY InitInvariant, NextInvariant, PTL DEF Spec

(***************************************************************************)
(* The safety properties.                                                  *)
(***************************************************************************)

\* Type correctness of the local server, the handlers and the tables.
THEOREM LocalTypeCorrectness == Spec => []TypeOK
<1>1. IInv => TypeOK
  BY DEF IInv
<1>2. QED BY <1>1, LocalInvariance, PTL

\* One goroutine per socket (wsHandler): no request puts back a row that is gone,
\* so that every row and every message names its owner, under every fault.
THEOREM OwnersAreNamed == Spec => []OwnersNamed
<1>1. IInv => OwnersNamed
  BY Typed DEF IInv, OwnersNamed, GoroutineSound, RowsSound, RowSound
<1>2. QED BY <1>1, LocalInvariance, PTL

\* HandleDisconnect runs before registry.Remove, HandleConnect before registry.Add:
\* a broadcast only skips connections that are gone for good.
THEOREM AddresseesAreRegistered == Spec => []AddresseesRegistered
<1>1. IInv => AddresseesRegistered
  <2> SUFFICES ASSUME IInv, NEW g \in Conns, NEW d \in Conns, d \in inv[g].targets
               PROVE  d \in registry \/ phase[d] \in Gone
    BY DEF AddresseesRegistered
  <2>1. BroadcastSound(g, inv[g])
    BY Typed DEF InvocationSound
  <2>2. inv[g].frame.room \in RoomIds /\ <<d, inv[g].frame.room>> \in joined
    BY <2>1 DEF BroadcastSound, Frame
  <2>3. phase[d] \in Registered \cup Gone
    BY <2>2, Typed DEF GoroutineSound
  <2>4. QED BY <2>3, Typed DEF GoroutineSound
<1>2. QED BY <1>1, LocalInvariance, PTL

\* ConnRegistry.Send: whoever holds the mutex of an entry is writing to it, so that
\* no goroutine waits for one mutex while it holds another.
THEOREM MutexesAreInUse == Spec => []MutexesInUse
<1>1. IInv => MutexesInUse
  BY DEF IInv
<1>2. QED BY <1>1, LocalInvariance, PTL

\* The deferred HandleDisconnect of wsHandler: a goroutine that ran to its end has
\* deleted its row.  Hence the assumption: a call that fails, or a read that lags
\* behind and misses the row, makes HandleDisconnect return and leave it.
THEOREM EndsWithoutRow ==
    ASSUME Faults \cap {"db", "stale"} = {}
    PROVE  Spec => []EndedWithoutRow
<1>1. IInv => EndedWithoutRow
  <2> SUFFICES ASSUME IInv, NEW c \in Conns, phase[c] = "ended"
               PROVE  connections[c] = NoRow
    BY DEF EndedWithoutRow
  <2>1. InvocationSound(c, inv[c]) /\ inv[c].op \in Ops
    BY Typed DEF InvocationType
  <2>2. inv[c].op = "none"
    BY <2>1 DEF InvocationSound, ConnectSound, DisconnectSound, JoinSound, SendSound, Ops
  <2>3. QED BY <2>1, <2>2 DEF InvocationSound, IdleSound
<1>2. QED BY <1>1, LocalInvariance, PTL

\* HandleDisconnect has told the room of the row it deletes, whatever calls failed
\* before: nothing of the same socket has moved the row since it was read.  Only a
\* read that lags behind the writes could have shown another room.
THEOREM DeparturesAreAnnounced ==
    ASSUME "stale" \notin Faults
    PROVE  Spec => DepartureAnnounced
<1>1. IInv /\ [Next]_vars =>
        [\A i \in Invs :
            At(i, "disconnect", "delete_conn") /\ inv'[i] # inv[i] =>
               LET row == connections[inv[i].conn]
               IN  row = NoRow \/ row.room \in {None, inv[i].room}]_<<connections, inv>>
  <2> SUFFICES ASSUME IInv, NEW i \in Conns, At(i, "disconnect", "delete_conn")
               PROVE  connections[inv[i].conn].room \in {None, inv[i].room}
    OBVIOUS
  <2>1. InvocationSound(i, inv[i])
    BY Typed
  <2>2. QED BY <2>1 DEF At, InvocationSound, DisconnectSound
<1>2. QED BY <1>1, LocalInvariance, PTL DEF Spec, DepartureAnnounced

\* HandleJoinRoom has told the room of the row it moves.
THEOREM MovesAreAnnounced ==
    ASSUME "stale" \notin Faults
    PROVE  Spec => MovesAnnounced
<1>1. IInv /\ [Next]_vars =>
        [\A i \in Invs :
            At(i, "join", "set_room") /\ inv'[i] # inv[i] =>
               LET row == connections[inv[i].conn]
               IN  \/ row = NoRow
                   \/ row.room \in {None, inv[i].room, inv[i].left}]_<<connections, inv>>
  <2> SUFFICES ASSUME IInv, NEW i \in Conns, At(i, "join", "set_room")
               PROVE  connections[inv[i].conn].room \in {None, inv[i].room, inv[i].left}
    OBVIOUS
  <2>1. InvocationSound(i, inv[i])
    BY Typed
  <2>2. QED BY <2>1 DEF At, InvocationSound, JoinSound
<1>2. QED BY <1>1, LocalInvariance, PTL DEF Spec, MovesAnnounced

(***************************************************************************)
(* The local server implements ChatRooms.                                  *)
(***************************************************************************)

LEMMA HandlerRefines ==
    ASSUME IInv, NEW g \in Conns, HandlerPromises(g)
    PROVE  Promise!Next \/ UNCHANGED Promise!vars
<1>1. CASE UNCHANGED <<joined, messages, heard>>
  BY <1>1 DEF Promise!vars
<1>2. CASE /\ \E r \in Rooms : joined' = joined \cup {<<g, r>>}
           /\ UNCHANGED <<messages, heard>>
  BY <1>2 DEF Promise!Next, Promise!Join
<1>3. CASE /\ \E r \in RoomIds, id \in Msgs :
                 /\ <<g, r>> \in joined
                 /\ \A m \in messages : m.id # id
                 /\ messages' = messages \cup
                       {[id |-> id, room |-> r, user |-> Owner[g], from |-> g]}
           /\ UNCHANGED <<joined, heard>>
  <2>1. PICK r \in RoomIds, id \in Msgs :
           /\ <<g, r>> \in joined
           /\ \A m \in messages : m.id # id
           /\ messages' = messages \cup
                 {[id |-> id, room |-> r, user |-> Owner[g], from |-> g]}
    BY <1>3
  <2>2. r \in Rooms
    BY <2>1, Typed DEF GoroutineSound
  <2>3. Promise!Say(g, r, id, Owner[g])
    BY <1>3, <2>1 DEF Promise!Say
  <2>4. QED BY <2>2, <2>3 DEF Promise!Next
<1>4. QED BY <1>1, <1>2, <1>3 DEF HandlerPromises

LEMMA StepRefines ==
    IInv /\ [Next]_vars => [Promise!Next]_(Promise!vars)
<1> SUFFICES ASSUME IInv, [Next]_vars
             PROVE  Promise!Next \/ UNCHANGED Promise!vars
  OBVIOUS
<1>1. ASSUME NEW g \in Conns, HandlerNext(g)
      PROVE  Promise!Next \/ UNCHANGED Promise!vars
  BY <1>1, HandlerNextStep, HandlerRefines
<1>2. ASSUME NEW g \in Conns, Write(g)
      PROVE  Promise!Next \/ UNCHANGED Promise!vars
  <2>1. UNCHANGED <<messages, joined>>
    BY <1>2, WriteStep
  <2>2. CASE UNCHANGED heard
    BY <2>1, <2>2 DEF Promise!vars
  <2>3. CASE \E d \in Conns, m \in messages :
                /\ <<d, m.room>> \in joined
                /\ heard' = heard \cup {<<d, m.id>>}
    BY <2>1, <2>3 DEF Promise!Next, Promise!Hear
  <2>4. QED BY <1>2, <2>2, <2>3, WriteStep
<1>3. ASSUME NEW g \in Conns, LookUp(g) \/ LockEntry(g)
      PROVE  UNCHANGED Promise!vars
  BY <1>3, LookUpStep, LockEntryStep DEF Promise!vars
<1>4. ASSUME NEW g \in Conns, Connected(g) \/ Add(g) \/ Remove(g) \/ ReadError(g)
      PROVE  UNCHANGED Promise!vars
  BY <1>4 DEF Connected, Add, Remove, ReadError, Promise!vars
<1>5. ASSUME NEW c \in Conns,
             Accept(c) \/ Ping(c) \/ Stall(c) \/ ReadAgain(c) \/ CloseSocket(c)
      PROVE  UNCHANGED Promise!vars
  BY <1>5 DEF Accept, Ping, Stall, ReadAgain, CloseSocket, ClientDoes, Promise!vars
<1>6. ASSUME NEW c \in Conns, NEW r \in Asks[c], JoinRequest(c, r) \/ SendRequest(c, r)
      PROVE  UNCHANGED Promise!vars
  BY <1>6 DEF JoinRequest, SendRequest, Promise!vars
<1>7. CASE Crash \/ UNCHANGED vars
  BY <1>7 DEF Crash, vars, Promise!vars
<1>8. QED BY <1>1, <1>2, <1>3, <1>4, <1>5, <1>6, <1>7 DEF Next, GoroutineStep

\* The server in one process keeps the promise of the deployed one: a message is
\* said only by a connection let into its room, stored once before it is heard, and
\* heard only by connections let into that room.
THEOREM LocalServerKeepsPromise == Spec => PromiseKept
<1>1. Init => Promise!Init
  BY DEF Init, HandlersInit, Promise!Init
<1>2. QED BY <1>1, LocalInvariance, StepRefines, PTL DEF Spec, PromiseKept, Promise!Spec
=================================================================================
