------------------------------ MODULE HttpApi_proofs ----------------------------
(***************************************************************************)
(* Proofs about the users and the rooms of HttpApi: for any subs, ids,     *)
(* names, rooms and requests in flight, a user is one user and loses       *)
(* nothing, and a room that shows when a request comes is not made again.  *)
(***************************************************************************)
EXTENDS HttpApi, TLAPS

USE HttpAssumption

\* An item after UpsertUser: an item, with the id it had if it had one and with
\* the name it had.
LEMMA UpsertedShape ==
    ASSUME NEW user \in User, NEW id \in UserIds
    PROVE  /\ Upserted(user, id) \in User
           /\ user.id # None => Upserted(user, id).id = user.id
           /\ Upserted(user, id).display = user.display
BY DEF Upserted, User

\* An item after UpdateDisplayName: the id it had, and a name.
LEMMA RenamedShape ==
    ASSUME NEW user \in User, NEW name \in DisplayNames
    PROVE  /\ [user EXCEPT !.display = name] \in User
           /\ [user EXCEPT !.display = name].id = user.id
           /\ [user EXCEPT !.display = name].display = name
BY DEF User

\* What requests are: new ones, those that end, and those that go on.
LEMMA RequestsFormed ==
    ASSUME NEW op, NEW sub, NEW arg, NEW pc
    PROVE  /\ Formed(Request(op, sub, arg, pc))
           /\ Request(op, sub, arg, pc).sub = sub
           /\ Request(op, sub, arg, pc).arg = arg
           /\ Request(op, sub, arg, pc).pc = pc
BY DEF Request, Formed

\* What a request has read before does not matter to its soundness.
LEMMA BeforeAside ==
    ASSUME NEW v, RequestSound(v), NEW x
    PROVE  RequestSound([v EXCEPT !.before = x])
BY DEF RequestSound, Formed

\* The same of a page, and of what there was when it was read.
LEMMA PageAside ==
    ASSUME NEW v, RequestSound(v), NEW x, NEW y
    PROVE  RequestSound([v EXCEPT !.of = x, !.page = y])
<1> DEFINE w == [v EXCEPT !.of = x]
<1>1. RequestSound(w)
  BY DEF RequestSound, Formed
<1> HIDE DEF w
<1>2. RequestSound([w EXCEPT !.page = y])
  BY <1>1 DEF RequestSound, Formed
<1>3. QED BY <1>2 DEF w

\* One request moves on: the others stay as they are.
LEMMA OneRequestMoves ==
    ASSUME UsersSound, NEW i \in Reqs, NEW v, RequestSound(v),
           req' = [req EXCEPT ![i] = v]
    PROVE  /\ req' = [j \in Reqs |-> req'[j]]
           /\ \A j \in Reqs : RequestSound(req'[j])
<1>1. \A j \in Reqs : req'[j] = IF j = i THEN v ELSE req[j]
  BY DEF UsersSound
<1>2. req' = [j \in Reqs |-> req'[j]]
  BY DEF UsersSound
<1>3. \A j \in Reqs : RequestSound(req'[j])
  BY <1>1 DEF UsersSound, RequestSound
<1>4. QED BY <1>2, <1>3

\* So does a slot without a request.
LEMMA IdleSound ==
    RequestSound(IdleRequest)
BY RequestsFormed DEF IdleRequest, RequestSound

\* The invariant after a step that writes no user.
LEMMA UsersUntouched ==
    ASSUME UsersSound, NEW i \in Reqs, NEW v, RequestSound(v),
           req' = [req EXCEPT ![i] = v], UNCHANGED <<users, handedOut>>
    PROVE  UsersSound'
<1>1. /\ req' = [j \in Reqs |-> req'[j]]
      /\ \A j \in Reqs : RequestSound(req'[j])
  BY OneRequestMoves
<1>2. QED BY <1>1 DEF UsersSound, RequestSound, Formed

\* The invariant after a write of the item of sub s that keeps its id.
LEMMA ItemWritten ==
    ASSUME UsersSound, NEW i \in Reqs, NEW v, RequestSound(v),
           req' = [req EXCEPT ![i] = v],
           NEW s \in Subs, NEW user \in User,
           users[s].id # None => user.id = users[s].id,
           users' = [users EXCEPT ![s] = user],
           \/ handedOut' = handedOut
           \/ handedOut' = [handedOut EXCEPT ![s] = @ \cup {user.id}]
    PROVE  UsersSound'
<1>1. /\ req' = [j \in Reqs |-> req'[j]]
      /\ \A j \in Reqs : RequestSound(req'[j])
  BY OneRequestMoves
<1>2. users' \in [Subs -> User] /\ user.id \in UserIds \cup {None}
  BY DEF UsersSound, User
<1>3. handedOut' \in [Subs -> SUBSET (UserIds \cup {None})]
  BY <1>2 DEF UsersSound
<1>4. ASSUME NEW t \in Subs
      PROVE  handedOut'[t] \subseteq {users'[t].id, None}
  <2>1. CASE t # s
    <3>1. handedOut'[t] = handedOut[t] /\ users'[t] = users[t]
      BY <2>1 DEF UsersSound
    <3>2. QED BY <3>1 DEF UsersSound
  <2>2. CASE t = s
    <3>1. users'[t] = user /\ handedOut[t] \subseteq {users[t].id, None}
      BY <2>2 DEF UsersSound
    <3>2. handedOut'[t] \subseteq handedOut[t] \cup {user.id}
      BY <2>2 DEF UsersSound
    <3>3. QED BY <2>2, <3>1, <3>2
  <2>3. QED BY <2>1, <2>2
<1>5. QED BY <1>1, <1>2, <1>3, <1>4 DEF UsersSound, RequestSound, Formed

(***************************************************************************)
(* One lemma for each action, or for those that do alike.                  *)
(***************************************************************************)

\* A request that arrives leaves the users alone.
LEMMA ArrivalKeeps ==
    ASSUME UsersSound, NEW i \in Reqs, NEW v, RequestSound(v), Arrive(i, v)
    PROVE  UsersSound'
BY UsersUntouched DEF Arrive

\* Every request that arrives is sound.
LEMMA ArrivalStep ==
    ASSUME UsersSound, NEW i \in Reqs, NEW s \in Subs,
           \/ GetMe(i, s)
           \/ \E d \in DisplayNames : UpdateMe(i, s, d)
           \/ \E n \in RoomNames : CreateRoom(i, s, n)
           \/ \E limit \in Limits : GetMessages(i, s, limit)
    PROVE  UsersSound'
<1>1. CASE GetMe(i, s)
  <2>1. RequestSound(Request("getMe", s, None, "upsert"))
    BY RequestsFormed DEF RequestSound
  <2>2. QED BY <1>1, <2>1, ArrivalKeeps DEF GetMe
<1>2. ASSUME NEW d \in DisplayNames, UpdateMe(i, s, d)
      PROVE  UsersSound'
  <2>1. RequestSound(Request("updateMe", s, d, "update"))
    BY RequestsFormed DEF RequestSound
  <2>2. QED BY <1>2, <2>1, ArrivalKeeps DEF UpdateMe
<1>3. ASSUME NEW n \in RoomNames, CreateRoom(i, s, n)
      PROVE  UsersSound'
  <2>1. RequestSound([Request("createRoom", s, n, "check") EXCEPT !.before = indexed])
    <3> DEFINE v == Request("createRoom", s, n, "check")
    <3>1. RequestSound(v)
      BY RequestsFormed DEF RequestSound
    <3> HIDE DEF v
    <3>2. RequestSound([v EXCEPT !.before = indexed])
      BY <3>1, BeforeAside
    <3>3. QED BY <3>2 DEF v
  <2>2. QED BY <1>3, <2>1, ArrivalKeeps DEF CreateRoom
<1>4. ASSUME NEW limit \in Limits, GetMessages(i, s, limit)
      PROVE  UsersSound'
  <2>1. RequestSound(Request("getMessages", s, limit, "upsert"))
    BY RequestsFormed DEF RequestSound
  <2>2. QED BY <1>4, <2>1, ArrivalKeeps DEF GetMessages
<1>5. QED BY <1>1, <1>2, <1>3, <1>4

\* A request that goes on to another call than a write of users.
LEMMA NextCallSound ==
    ASSUME UsersSound, NEW i \in Reqs, NEW pc \in {"query", "put"}
    PROVE  RequestSound([req[i] EXCEPT !.pc = pc])
<1>1. Formed(req[i])
  BY DEF UsersSound, RequestSound
<1>2. QED BY <1>1 DEF RequestSound, Formed

\* The item is written or not; its id and its name stay.
LEMMA UpsertUserStep ==
    ASSUME UsersSound, NEW i \in Reqs, UpsertUser(i)
    PROVE  /\ UsersSound'
           /\ \A s \in Subs :
                 /\ users'[s].display = users[s].display
                 /\ users[s].id # None => users'[s].id = users[s].id
<1> DEFINE s == req[i].sub
<1>1. s \in Subs /\ users[s] \in User
  BY DEF UpsertUser, UsersSound, RequestSound
<1>2. PICK id \in FreshUserIds(s), outcome \in WriteOutcomes :
         /\ users' = IF outcome = "refused" THEN users
                     ELSE [users EXCEPT ![s] = Upserted(users[s], id)]
         /\ handedOut' = IF outcome = "ok" /\ req[i].op = "getMe"
                         THEN [handedOut EXCEPT ![s] = @ \cup {Upserted(users[s], id).id}]
                         ELSE handedOut
  BY DEF UpsertUser
<1>3. /\ Upserted(users[s], id) \in User
      /\ users[s].id # None => Upserted(users[s], id).id = users[s].id
      /\ Upserted(users[s], id).display = users[s].display
  BY <1>1, UpsertedShape DEF FreshUserIds
<1>4. PICK v : RequestSound(v) /\ req' = [req EXCEPT ![i] = v]
  BY IdleSound, NextCallSound DEF UpsertUser, Finish
<1>5. CASE outcome = "refused"
  BY <1>2, <1>4, <1>5, UsersUntouched
<1>6. CASE outcome # "refused"
  <2>1. UsersSound'
    BY <1>1, <1>2, <1>3, <1>4, <1>6, ItemWritten
  <2>2. \A t \in Subs : users'[t] = IF t = s THEN Upserted(users[s], id) ELSE users[t]
    BY <1>2, <1>6 DEF UsersSound
  <2>3. QED BY <1>3, <2>1, <2>2
<1>7. QED BY <1>5, <1>6

\* The item is written or not; its id stays and it has a name.
LEMMA UpdateDisplayNameStep ==
    ASSUME UsersSound, NEW i \in Reqs, UpdateDisplayName(i)
    PROVE  /\ UsersSound'
           /\ \A s \in Subs :
                 /\ users[s].display # None => users'[s].display # None
                 /\ users'[s].id = users[s].id
<1> DEFINE s == req[i].sub
           user == [users[s] EXCEPT !.display = req[i].arg]
<1>1. s \in Subs /\ users[s] \in User /\ req[i].arg \in DisplayNames
  BY DEF UpdateDisplayName, At, UsersSound, RequestSound
<1>2. user \in User /\ user.id = users[s].id /\ user.display # None
  BY <1>1, RenamedShape
<1>3. PICK outcome \in WriteOutcomes :
         /\ users' = IF outcome = "refused" THEN users ELSE [users EXCEPT ![s] = user]
         /\ handedOut' = IF outcome = "ok"
                         THEN [handedOut EXCEPT ![s] = @ \cup {user.id}] ELSE handedOut
  BY DEF UpdateDisplayName
<1>4. RequestSound(IdleRequest) /\ req' = [req EXCEPT ![i] = IdleRequest]
  BY IdleSound DEF UpdateDisplayName, Finish
<1>5. CASE outcome = "refused"
  BY <1>3, <1>4, <1>5, UsersUntouched
<1>6. CASE outcome # "refused"
  <2>1. UsersSound'
    <3> HIDE DEF user
    <3>1. users' = [users EXCEPT ![s] = user]
      BY <1>3, <1>6
    <3>2. \/ handedOut' = handedOut
          \/ handedOut' = [handedOut EXCEPT ![s] = @ \cup {user.id}]
      BY <1>3
    <3>3. QED BY <1>1, <1>2, <1>4, <3>1, <3>2, ItemWritten
  <2>2. \A t \in Subs : users'[t] = IF t = s THEN user ELSE users[t]
    BY <1>3, <1>6 DEF UsersSound
  <2>3. QED BY <1>2, <2>1, <2>2
<1>7. QED BY <1>5, <1>6

\* Rooms, and the rest of the calls of a request, leave the users alone.
LEMMA OtherCallStep ==
    ASSUME UsersSound, NEW i \in Reqs,
           CheckName(i) \/ PutRoom(i) \/ QueryMessages(i) \/ Answer(i)
    PROVE  UsersSound' /\ UNCHANGED users
<1>1. UNCHANGED <<users, handedOut>>
  BY DEF CheckName, PutRoom, QueryMessages, Answer
<1>2. PICK v : RequestSound(v) /\ req' = [req EXCEPT ![i] = v]
  <2>1. CASE CheckName(i)
    BY <2>1, IdleSound, NextCallSound DEF CheckName, Finish
  <2>2. CASE PutRoom(i) \/ Answer(i)
    BY <2>2, IdleSound DEF PutRoom, Answer, Finish
  <2>3. CASE QueryMessages(i)
    <3> DEFINE v == Request("getMessages", None, None, "answer")
    <3>1. \/ \E page : req' = [req EXCEPT ![i] = [v EXCEPT !.of = settled, !.page = page]]
          \/ req' = [req EXCEPT ![i] = IdleRequest]
      BY <2>3 DEF QueryMessages, Finish
    <3>2. RequestSound(v)
      BY RequestsFormed DEF RequestSound
    <3> HIDE DEF v
    <3>3. \A page : RequestSound([v EXCEPT !.of = settled, !.page = page])
      BY <3>2, PageAside
    <3>4. QED BY <3>1, <3>3, IdleSound
  <2>4. QED BY <2>1, <2>2, <2>3
<1>3. QED BY <1>1, <1>2, UsersUntouched

(***************************************************************************)
(* The theorems.                                                           *)
(***************************************************************************)

\* UsersSound is inductive, and no step of it takes a name or an id away.
LEMMA UsersStep ==
    UsersSound /\ [Next]_vars =>
        /\ UsersSound'
        /\ \A s \in Subs :
              /\ users[s].display # None => users'[s].display # None
              /\ users[s].id # None => users'[s].id = users[s].id
<1> SUFFICES ASSUME UsersSound, [Next]_vars
             PROVE  /\ UsersSound'
                    /\ \A s \in Subs :
                          /\ users[s].display # None => users'[s].display # None
                          /\ users[s].id # None => users'[s].id = users[s].id
  OBVIOUS
<1>1. CASE \E i \in Reqs, s \in Subs :
              \/ GetMe(i, s)
              \/ \E d \in DisplayNames : UpdateMe(i, s, d)
              \/ \E n \in RoomNames : CreateRoom(i, s, n)
              \/ \E limit \in Limits : GetMessages(i, s, limit)
  <2>1. UsersSound'
    BY <1>1, ArrivalStep
  <2>2. UNCHANGED users
    BY <1>1 DEF GetMe, UpdateMe, CreateRoom, GetMessages, Arrive
  <2>3. QED BY <2>1, <2>2
<1>2. ASSUME NEW i \in Reqs, UpsertUser(i) \/ UpdateDisplayName(i)
      PROVE  /\ UsersSound'
             /\ \A s \in Subs :
                   /\ users[s].display # None => users'[s].display # None
                   /\ users[s].id # None => users'[s].id = users[s].id
  BY <1>2, UpsertUserStep, UpdateDisplayNameStep
<1>3. CASE \E i \in Reqs : CheckName(i) \/ PutRoom(i) \/ QueryMessages(i) \/ Answer(i)
  BY <1>3, OtherCallStep
<1>4. CASE \/ \E r \in rooms : IndexRoom(r)
           \/ (\E at \in Times : Post(at)) \/ (\E m \in messages : Settle(m))
           \/ UNCHANGED vars
  <2>1. UNCHANGED <<users, handedOut, req>>
    BY <1>4 DEF IndexRoom, Post, Settle, vars
  <2>2. QED BY <2>1 DEF UsersSound, Formed
<1>5. QED BY <1>1, <1>2, <1>3, <1>4 DEF Next

\* The inductive invariant of users holds for any number of overlapping requests
\* (UpsertUser and UpdateDisplayName are two upserts of one item).
THEOREM UsersInvariance == Spec => []UsersSound
<1>1. Init => UsersSound
  <2> SUFFICES ASSUME Init
               PROVE  UsersSound
    OBVIOUS
  <2>1. \A i \in Reqs : req[i] = IdleRequest
    BY DEF Init
  <2>2. RequestSound(IdleRequest) /\ NoUser \in User
    BY IdleSound DEF NoUser, User
  <2>3. QED BY <2>1, <2>2 DEF Init, UsersSound, RequestSound
<1>2. QED BY <1>1, UsersStep, PTL DEF Spec

\* Every id that the API answers to requests of a sub is the same.
THEOREM OneUserPerSub == Spec => []OneIdPerUser
<1>1. UsersSound => OneIdPerUser
  BY DEF UsersSound, OneIdPerUser
<1>2. QED BY <1>1, UsersInvariance, PTL

\* A display name once saved and an id once given are never taken away.
THEOREM UsersAreKept == Spec => UsersKeep
<1>1. UsersSound /\ [Next]_vars =>
         [\A s \in Subs :
            /\ users[s].display # None => users'[s].display # None
            /\ users[s].id # None => users'[s].id = users[s].id]_vars
  BY UsersStep
<1>2. QED BY <1>1, UsersInvariance, PTL DEF Spec, UsersKeep

(***************************************************************************)
(* Rooms.                                                                  *)
(***************************************************************************)

\* Why NoLateDuplicate holds, as an inductive invariant: the name index only grows,
\* so that what a request saw there when it came is still there when CheckName
\* looks.
RoomsSound ==
    /\ rooms \subseteq Room
    /\ indexed \subseteq rooms
    /\ \A i \in Reqs : req[i].op = "createRoom" =>
          /\ req[i].pc \in {"check", "put"}
          /\ req[i].arg \in RoomNames
          /\ req[i].before \subseteq indexed
    /\ NoLateDuplicate

\* A slot without a createRoom says nothing of rooms, and what the other requests
\* saw in the index is still there.
LEMMA RoomsUntouched ==
    ASSUME UsersSound, RoomsSound, NEW i \in Reqs, NEW v, v.op # "createRoom",
           req' = [req EXCEPT ![i] = v],
           rooms' \subseteq Room, indexed' \subseteq rooms', indexed \subseteq indexed'
    PROVE  RoomsSound'
<1>1. \A j \in Reqs : req'[j] = IF j = i THEN v ELSE req[j]
  BY DEF UsersSound
<1>2. \A j \in Reqs : req'[j].op = "createRoom" => j # i /\ req'[j] = req[j]
  BY <1>1
<1>3. ASSUME NEW j \in Reqs, req'[j].op = "createRoom"
      PROVE  /\ req'[j].pc \in {"check", "put"}
             /\ req'[j].arg \in RoomNames
             /\ req'[j].before \subseteq indexed'
  BY <1>2, <1>3 DEF RoomsSound
<1>4. NoLateDuplicate'
  BY <1>2 DEF RoomsSound, NoLateDuplicate, At
<1>5. QED BY <1>3, <1>4 DEF RoomsSound

\* The operation of a request that has come, of one that has read its room's
\* page, and of an empty slot.
LEMMA OpOfRequest ==
    ASSUME NEW op, NEW sub, NEW arg, NEW pc, NEW x, NEW y
    PROVE  /\ Request(op, sub, arg, pc).op = op
           /\ [Request(op, sub, arg, pc) EXCEPT !.of = x, !.page = y].op = op
           /\ IdleRequest.op = "none"
BY DEF Request, IdleRequest

\* A createRoom has seen what the index shows now; the others saw nothing.
LEMMA RoomsArrivalStep ==
    ASSUME UsersSound, RoomsSound, NEW i \in Reqs, NEW s \in Subs,
           \/ GetMe(i, s)
           \/ \E d \in DisplayNames : UpdateMe(i, s, d)
           \/ \E n \in RoomNames : CreateRoom(i, s, n)
           \/ \E limit \in Limits : GetMessages(i, s, limit)
    PROVE  RoomsSound'
<1>1. CASE \E n \in RoomNames : CreateRoom(i, s, n)
  <2>1. PICK n \in RoomNames : CreateRoom(i, s, n)
    BY <1>1
  <2>2. PICK v : /\ req' = [req EXCEPT ![i] = v]
                 /\ v.pc = "check" /\ v.arg = n /\ v.before = indexed
    <3>1. PICK v : v = [Request("createRoom", s, n, "check") EXCEPT !.before = indexed]
      OBVIOUS
    <3>2. v.pc = "check" /\ v.arg = n /\ v.before = indexed
      BY <3>1 DEF Request
    <3>3. req' = [req EXCEPT ![i] = v]
      BY <2>1, <3>1 DEF CreateRoom, Arrive
    <3>4. QED BY <3>2, <3>3
  <2>3. \A j \in Reqs : req'[j] = IF j = i THEN v ELSE req[j]
    BY <2>2 DEF UsersSound
  <2>4. UNCHANGED <<rooms, indexed>>
    BY <2>1 DEF CreateRoom, Arrive
  <2>5. ASSUME NEW j \in Reqs, req'[j].op = "createRoom"
        PROVE  /\ req'[j].pc \in {"check", "put"}
               /\ req'[j].arg \in RoomNames
               /\ req'[j].before \subseteq indexed'
    BY <2>2, <2>3, <2>4, <2>5 DEF RoomsSound
  <2>6. NoLateDuplicate'
    BY <2>2, <2>3 DEF RoomsSound, NoLateDuplicate, At
  <2>7. QED BY <2>4, <2>5, <2>6 DEF RoomsSound
<1>2. CASE ~ \E n \in RoomNames : CreateRoom(i, s, n)
  <2>1. PICK v : v.op # "createRoom" /\ req' = [req EXCEPT ![i] = v]
    BY <1>2, OpOfRequest DEF GetMe, UpdateMe, GetMessages, Arrive
  <2>2. UNCHANGED <<rooms, indexed>>
    BY <1>2 DEF GetMe, UpdateMe, GetMessages, Arrive
  <2>3. QED BY <2>1, <2>2, RoomsUntouched DEF RoomsSound
<1>3. QED BY <1>1, <1>2

\* The name that goes on to the put is none that the index shows.
LEMMA CheckNameStep ==
    ASSUME UsersSound, RoomsSound, NEW i \in Reqs, CheckName(i)
    PROVE  RoomsSound'
<1>1. UNCHANGED <<rooms, indexed>>
  BY DEF CheckName
<1>2. CASE Finish(i)
  <2>1. req' = [req EXCEPT ![i] = IdleRequest] /\ IdleRequest.op # "createRoom"
    BY <1>2, OpOfRequest DEF Finish
  <2>2. QED BY <1>1, <2>1, RoomsUntouched DEF RoomsSound
<1>3. CASE /\ \A r \in indexed : r.name # req[i].arg
           /\ req' = [req EXCEPT ![i].pc = "put"]
  <2>1. PICK v : v = [req[i] EXCEPT !.pc = "put"]
    OBVIOUS
  <2>2. /\ req[i].op = "createRoom"
        /\ v.op = req[i].op /\ v.pc = "put"
        /\ v.arg = req[i].arg /\ v.before = req[i].before
    <3>1. Formed(req[i])
      BY DEF UsersSound, RequestSound
    <3>2. QED BY <2>1, <3>1 DEF Formed, CheckName, At
  <2>3. \A j \in Reqs : req'[j] = IF j = i THEN v ELSE req[j]
    BY <1>3, <2>1 DEF UsersSound
  <2>4. ASSUME NEW j \in Reqs, req'[j].op = "createRoom"
        PROVE  /\ req'[j].pc \in {"check", "put"}
               /\ req'[j].arg \in RoomNames
               /\ req'[j].before \subseteq indexed'
    BY <1>1, <2>2, <2>3, <2>4 DEF RoomsSound
  <2>5. \A r \in v.before : r.name # v.arg
    BY <1>3, <2>2 DEF RoomsSound
  <2>6. NoLateDuplicate'
    BY <2>3, <2>5 DEF RoomsSound, NoLateDuplicate, At
  <2>7. QED BY <1>1, <2>4, <2>6 DEF RoomsSound
<1>4. QED BY <1>2, <1>3 DEF CheckName

\* The put adds a room of the name that the request asked for.
LEMMA PutRoomStep ==
    ASSUME UsersSound, RoomsSound, NEW i \in Reqs, PutRoom(i)
    PROVE  RoomsSound'
<1>1. PICK room : \E id \in RoomIds :
         /\ room = [id |-> id, name |-> req[i].arg]
         /\ \/ UNCHANGED <<rooms, indexed>>
            \/ /\ rooms' = rooms \cup {room}
               /\ indexed' = indexed \/ indexed' = indexed \cup {room}
  BY DEF PutRoom
<1>2. room \in Room
  BY <1>1 DEF PutRoom, At, RoomsSound, Room
<1>3. rooms' \subseteq Room /\ indexed' \subseteq rooms' /\ indexed \subseteq indexed'
  BY <1>1, <1>2 DEF RoomsSound
<1>4. req' = [req EXCEPT ![i] = IdleRequest] /\ IdleRequest.op # "createRoom"
  BY OpOfRequest DEF PutRoom, Finish
<1>5. QED BY <1>3, <1>4, RoomsUntouched

\* The calls of the other requests leave the rooms alone.
LEMMA CallElsewhereStep ==
    ASSUME UsersSound, RoomsSound, NEW i \in Reqs,
           \/ UpsertUser(i) \/ UpdateDisplayName(i)
           \/ QueryMessages(i) \/ Answer(i)
    PROVE  RoomsSound'
<1>1. UNCHANGED <<rooms, indexed>>
  BY DEF UpsertUser, UpdateDisplayName, QueryMessages, Answer
<1>2. PICK v : v.op # "createRoom" /\ req' = [req EXCEPT ![i] = v]
  <2>1. CASE Finish(i)
    BY <2>1, OpOfRequest DEF Finish
  <2>2. CASE UpsertUser(i) /\ ~Finish(i)
    <3>1. /\ req' = [req EXCEPT ![i] = [req[i] EXCEPT !.pc = "query"]]
          /\ req[i].pc = "upsert"
      BY <2>2 DEF UpsertUser
    <3>2. [req[i] EXCEPT !.pc = "query"].op = req[i].op
      BY DEF UsersSound, RequestSound, Formed
    <3>3. req[i].op # "createRoom"
      BY <3>1 DEF RoomsSound
    <3>4. QED BY <3>1, <3>2, <3>3
  <2>3. CASE QueryMessages(i) /\ ~Finish(i)
    <3>1. PICK page : req' = [req EXCEPT ![i] =
                         [Request("getMessages", None, None, "answer") EXCEPT
                            !.of = settled, !.page = page]]
      BY <2>3 DEF QueryMessages
    <3>2. [Request("getMessages", None, None, "answer") EXCEPT
             !.of = settled, !.page = page].op # "createRoom"
      BY OpOfRequest
    <3>3. QED BY <3>1, <3>2
  <2>4. QED BY <2>1, <2>2, <2>3 DEF UpdateDisplayName, Answer
<1>3. QED BY <1>1, <1>2, RoomsUntouched DEF RoomsSound

\* RoomsSound is inductive, beside UsersSound, which says what requests are.
LEMMA RoomsStep ==
    UsersSound /\ RoomsSound /\ [Next]_vars => RoomsSound'
<1> SUFFICES ASSUME UsersSound, RoomsSound, [Next]_vars
             PROVE  RoomsSound'
  OBVIOUS
<1>1. CASE \E i \in Reqs, s \in Subs :
              \/ GetMe(i, s)
              \/ \E d \in DisplayNames : UpdateMe(i, s, d)
              \/ \E n \in RoomNames : CreateRoom(i, s, n)
              \/ \E limit \in Limits : GetMessages(i, s, limit)
  BY <1>1, RoomsArrivalStep
<1>2. CASE \E i \in Reqs : CheckName(i)
  BY <1>2, CheckNameStep
<1>3. CASE \E i \in Reqs : PutRoom(i)
  BY <1>3, PutRoomStep
<1>4. CASE \E i \in Reqs : \/ UpsertUser(i) \/ UpdateDisplayName(i)
                           \/ QueryMessages(i) \/ Answer(i)
  BY <1>4, CallElsewhereStep
<1>5. CASE \E r \in rooms : IndexRoom(r)
  <2>1. /\ UNCHANGED <<req, rooms>>
        /\ indexed \subseteq indexed' /\ indexed' \subseteq rooms
    BY <1>5 DEF IndexRoom, RoomsSound
  <2>2. QED BY <2>1 DEF RoomsSound, NoLateDuplicate, At
<1>6. CASE \/ (\E at \in Times : Post(at)) \/ (\E m \in messages : Settle(m))
           \/ UNCHANGED vars
  <2>1. UNCHANGED <<req, rooms, indexed>>
    BY <1>6 DEF Post, Settle, vars
  <2>2. QED BY <2>1 DEF RoomsSound, NoLateDuplicate, At
<1>7. QED BY <1>1, <1>2, <1>3, <1>4, <1>5, <1>6 DEF Next

\* What a request saw in the name index stays there (CreateRoom's query of
\* name-index and its put are two calls, and the index may lag).
LEMMA RoomsInvariance == Spec => []RoomsSound
<1>1. Init => RoomsSound
  <2> SUFFICES ASSUME Init
               PROVE  RoomsSound
    OBVIOUS
  <2>1. \A i \in Reqs : req[i].op # "createRoom"
    BY OpOfRequest DEF Init
  <2>2. QED BY <2>1 DEF Init, RoomsSound, NoLateDuplicate, At
<1>2. QED BY <1>1, RoomsStep, UsersInvariance, PTL DEF Spec

\* No request creates a room of a name that the index showed when it came (the
\* query of name-index and the put of CreateRoom are two calls).
THEOREM NoLateDuplicates == Spec => []NoLateDuplicate
<1>1. RoomsSound => NoLateDuplicate
  BY DEF RoomsSound
<1>2. QED BY <1>1, RoomsInvariance, PTL
=================================================================================
