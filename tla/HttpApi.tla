--------------------------------- MODULE HttpApi --------------------------------
(***************************************************************************)
(* cmd/http-api: users, rooms and message history over the tables it       *)
(* shares with the WebSocket handlers.  A request goes through the calls   *)
(* its handler makes; any number of requests overlap.  UpsertUser is the   *)
(* same call in HandleConnect, Post stands for InsertMessage of that side. *)
(***************************************************************************)
EXTENDS FiniteSets, SequencesExt, TsId

CONSTANTS
    Subs,           \* Cognito subs
    UserIds,        \* ids uuid.NewString may return for a user
    DisplayNames,   \* names that pass the length check
    RoomIds,        \* ids uuid.NewString may return for a room
    RoomNames,      \* names a client may give a room
    MaxMessages,    \* bound on the messages of the room that is read
    DefaultLimit,   \* page size when none, or none in range, is asked for: 50
    MaxLimit,       \* largest page: 100
    Reqs,           \* request slots: bounds the requests in flight
    Faults,         \* "db": a call fails or succeeds unconfirmed; "lag": the
                    \* name index shows a room later than it was put; "stale":
                    \* a read of the messages may miss one put just before
    None            \* an absent attribute, or an absent item

ASSUME HttpAssumption ==
    /\ {DefaultLimit, MaxLimit, MaxMessages} \subseteq Nat
    /\ 0 < DefaultLimit /\ DefaultLimit <= MaxLimit
    /\ Faults \subseteq {"db", "lag", "stale"}
    /\ None \notin UserIds \cup DisplayNames \cup RoomIds \cup RoomNames \cup Subs

VARIABLES
    users,      \* users[s]: the item of sub s
    rooms,      \* the rooms table
    indexed,    \* the rooms that name-index shows
    messages,   \* the messages of a room
    settled,    \* those that every read of the room sees
    req,        \* req[i]: the request in slot i
    handedOut   \* history: handedOut[s], the ids answered to requests of s

vars == <<users, rooms, indexed, messages, settled, req, handedOut>>

User == [id : UserIds \cup {None}, display : DisplayNames \cup {None}]

NoUser == [id |-> None, display |-> None]

Room == [id : RoomIds, name : RoomNames]

Message == [id : 1 .. MaxMessages, at : Times]

\* before: the rooms indexed when the request came; of: the messages settled when
\* page was read.  Both are for the properties.
Request(op, sub, arg, pc) ==
    [op |-> op, sub |-> sub, arg |-> arg, pc |-> pc,
     before |-> {}, page |-> <<>>, of |-> {}]

IdleRequest == Request("none", None, None, "idle")

Init ==
    /\ users = [s \in Subs |-> NoUser]
    /\ rooms = {}
    /\ indexed = {}
    /\ messages = {}
    /\ settled = {}
    /\ req = [i \in Reqs |-> IdleRequest]
    /\ handedOut = [s \in Subs |-> {}]

At(i, op, pc) == req[i].op = op /\ req[i].pc = pc

Finish(i) == req' = [req EXCEPT ![i] = IdleRequest]

WriteOutcomes ==
    {"ok"} \cup (IF "db" \in Faults THEN {"refused", "unconfirmed"} ELSE {})

(***************************************************************************)
(* Requests arrive; the middleware has put the sub in their context.       *)
(***************************************************************************)
Arrive(i, r) ==
    /\ req[i] = IdleRequest
    /\ req' = [req EXCEPT ![i] = r]
    /\ UNCHANGED <<users, rooms, indexed, messages, settled, handedOut>>

GetMe(i, s) == Arrive(i, Request("getMe", s, None, "upsert"))

UpdateMe(i, s, d) == Arrive(i, Request("updateMe", s, d, "update"))

CreateRoom(i, s, n) ==
    Arrive(i, [Request("createRoom", s, n, "check") EXCEPT !.before = indexed])

GetMessages(i, s, limit) == Arrive(i, Request("getMessages", s, limit, "upsert"))

(***************************************************************************)
(* Users.                                                                  *)
(***************************************************************************)

\* Mutant: id = :id without if_not_exists.
FreshId(user, id) == [user EXCEPT !.id = id]

\* Mutant: the item is put, not updated.
PutUser(user, id) == [id |-> IF user.id = None THEN id ELSE user.id, display |-> None]

\* SET id = if_not_exists(id, :id), and no word of display_name.
Upserted(user, id) == IF user.id = None THEN [user EXCEPT !.id = id] ELSE user

\* Ids that another sub has are never drawn again.
FreshUserIds(s) == UserIds \ {users[t].id : t \in Subs \ {s}}

\* UpsertUser: getMe answers with the item, getMessages goes on in any case.
UpsertUser(i) ==
    LET s == req[i].sub IN
    /\ req[i].pc = "upsert"
    /\ \E id \in FreshUserIds(s), outcome \in WriteOutcomes :
          LET user == Upserted(users[s], id) IN
          /\ users' = IF outcome = "refused" THEN users ELSE [users EXCEPT ![s] = user]
          /\ handedOut' = IF outcome = "ok" /\ req[i].op = "getMe"
                          THEN [handedOut EXCEPT ![s] = @ \cup {user.id}] ELSE handedOut
    /\ IF req[i].op = "getMe" THEN Finish(i)
                              ELSE req' = [req EXCEPT ![i].pc = "query"]
    /\ UNCHANGED <<rooms, indexed, messages, settled>>

\* UpdateDisplayName, also for a sub that has no item yet: an upsert without id.
UpdateDisplayName(i) ==
    LET s == req[i].sub
        user == [users[s] EXCEPT !.display = req[i].arg]
    IN
    /\ At(i, "updateMe", "update")
    /\ \E outcome \in WriteOutcomes :
          /\ users' = IF outcome = "refused" THEN users ELSE [users EXCEPT ![s] = user]
          /\ handedOut' = IF outcome = "ok"
                          THEN [handedOut EXCEPT ![s] = @ \cup {user.id}] ELSE handedOut
    /\ Finish(i)
    /\ UNCHANGED <<rooms, indexed, messages, settled>>

(***************************************************************************)
(* Rooms.                                                                  *)
(***************************************************************************)

\* Mutant: the name is not looked up.
NoCheck(i) ==
    /\ At(i, "createRoom", "check")
    /\ req' = [req EXCEPT ![i].pc = "put"]
    /\ UNCHANGED <<users, rooms, indexed, messages, settled, handedOut>>

\* The query of name-index; a name it shows, or an error, ends the request.
CheckName(i) ==
    /\ At(i, "createRoom", "check")
    /\ \/ /\ \A r \in indexed : r.name # req[i].arg
          /\ req' = [req EXCEPT ![i].pc = "put"]
       \/ /\ "db" \in Faults \/ \E r \in indexed : r.name = req[i].arg
          /\ Finish(i)
    /\ UNCHANGED <<users, rooms, indexed, messages, settled, handedOut>>

\* The put of the room under a fresh id.
PutRoom(i) ==
    /\ At(i, "createRoom", "put")
    /\ \E id \in RoomIds \ {r.id : r \in rooms}, outcome \in WriteOutcomes :
          LET room == [id |-> id, name |-> req[i].arg] IN
          IF outcome = "refused" THEN UNCHANGED <<rooms, indexed>>
          ELSE /\ rooms' = rooms \cup {room}
               /\ indexed' = IF "lag" \in Faults THEN indexed ELSE indexed \cup {room}
    /\ Finish(i)
    /\ UNCHANGED <<users, messages, settled, handedOut>>

IndexRoom(r) ==
    /\ r \in rooms \ indexed
    /\ indexed' = indexed \cup {r}
    /\ UNCHANGED <<users, rooms, messages, settled, req, handedOut>>

(***************************************************************************)
(* Messages.                                                               *)
(***************************************************************************)

\* A message is stored by the WebSocket side; clocks of containers differ, so
\* that times come in any order.  The id tells apart messages of one time.
Post(at) ==
    /\ Cardinality(messages) < MaxMessages
    /\ LET twins   == {m \in messages : m.at = at}
           message == [id |-> Cardinality(twins) + 1, at |-> at]
       IN  /\ messages' = messages \cup {message}
           /\ settled' = IF "stale" \in Faults THEN settled ELSE settled \cup {message}
    /\ UNCHANGED <<users, rooms, indexed, req, handedOut>>

Settle(m) ==
    /\ m \in messages \ settled
    /\ settled' = settled \cup {m}
    /\ UNCHANGED <<users, rooms, indexed, messages, req, handedOut>>

\* Mutant: no upper bound.
AnySize(limit) == IF limit <= 0 THEN DefaultLimit ELSE limit

\* A limit out of range is not cut down to the largest page.
PageSize(limit) == IF limit <= 0 \/ limit > MaxLimit THEN DefaultLimit ELSE limit

\* Mutant: the query goes from the oldest message on.
OldestFirst(seen, size) ==
    LET Older(m) == {n \in seen : TsIdLess(n, m)}
        found    == {m \in seen : Cardinality(Older(m)) < size}
    IN  [p \in 1 .. Cardinality(found) |->
            CHOOSE m \in found : Cardinality(Older(m)) = Cardinality(found) - p]

Newer(seen, m) == {n \in seen : TsIdLess(m, n)}

\* The query over what the read sees: newest first by ts_id, up to a limit.
GetMessagesByRoom(seen, size) ==
    LET found == {m \in seen : Cardinality(Newer(seen, m)) < size}
    IN  [p \in 1 .. Cardinality(found) |->
            CHOOSE m \in found : Cardinality(Newer(seen, m)) = p - 1]

\* The query is not consistent: it sees what has settled, and any of the rest.
\* getMessagesHandler turns the page round before it answers.
QueryMessages(i) ==
    /\ At(i, "getMessages", "query")
    /\ \/ \E late \in SUBSET (messages \ settled) :
             req' = [req EXCEPT ![i] =
                [Request("getMessages", None, None, "answer") EXCEPT
                   !.of   = settled,
                   !.page = Reverse(GetMessagesByRoom(settled \cup late, PageSize(req[i].arg)))]]
       \/ "db" \in Faults /\ Finish(i)
    /\ UNCHANGED <<users, rooms, indexed, messages, settled, handedOut>>

Answer(i) ==
    /\ req[i].pc = "answer"
    /\ Finish(i)
    /\ UNCHANGED <<users, rooms, indexed, messages, settled, handedOut>>

(***************************************************************************)
(* The specification.                                                      *)
(***************************************************************************)
Limits == 0 .. MaxLimit + 1

Next ==
    \/ \E i \in Reqs, s \in Subs :
          \/ GetMe(i, s)
          \/ \E d \in DisplayNames : UpdateMe(i, s, d)
          \/ \E n \in RoomNames : CreateRoom(i, s, n)
          \/ \E limit \in Limits : GetMessages(i, s, limit)
    \/ \E i \in Reqs : \/ UpsertUser(i) \/ UpdateDisplayName(i)
                       \/ CheckName(i) \/ PutRoom(i) \/ QueryMessages(i) \/ Answer(i)
    \/ \E r \in rooms : IndexRoom(r)
    \/ \E m \in messages : Settle(m)
    \/ \E at \in Times : Post(at)

Spec == Init /\ [][Next]_vars

(***************************************************************************)
(* Properties.                                                             *)
(***************************************************************************)
TypeOK ==
    /\ users \in [Subs -> User]
    /\ rooms \subseteq Room
    /\ indexed \subseteq rooms
    /\ messages \subseteq Message
    /\ settled \subseteq messages
    /\ handedOut \in [Subs -> SUBSET (UserIds \cup {None})]
    /\ \A i \in Reqs :
          /\ req[i].pc \in {"idle", "upsert", "update", "check", "put", "query", "answer"}
          /\ At(i, "getMessages", "query") => req[i].arg \in Limits
          /\ req[i].page \in Seq(Message) /\ Len(req[i].page) <= MaxLimit
          /\ req[i].op = "updateMe" => req[i].arg \in DisplayNames
          /\ req[i].op = "createRoom" => req[i].arg \in RoomNames

\* A user is one user: every id the API has answered to requests of a sub is the
\* same, however first requests, renames and unconfirmed writes interleave; only
\* a rename that comes first is answered without an id.
OneIdPerUser ==
    \A s \in Subs : \A a, b \in handedOut[s] \ {None} : a = b

\* A display name once saved, and an id once given, are never taken away again.
UsersKeep ==
    [][\A s \in Subs :
          /\ users[s].display # None => users'[s].display # None
          /\ users[s].id # None => users'[s].id = users[s].id]_vars

\* A request is a record of these fields; if it goes on to write a user, it names
\* the sub, and the name that passed the check.
Formed(v) ==
    v = [op |-> v.op, sub |-> v.sub, arg |-> v.arg, pc |-> v.pc,
         before |-> v.before, page |-> v.page, of |-> v.of]

RequestSound(v) ==
    /\ Formed(v)
    /\ v.pc \in {"upsert", "update"} => v.sub \in Subs
    /\ v.pc = "update" => v.arg \in DisplayNames

\* Why they hold, as an inductive invariant: the ids answered to requests of a sub
\* (UpsertUser, UpdateDisplayName) are the id of its item as it is now.
UsersSound ==
    /\ users \in [Subs -> User]
    /\ handedOut \in [Subs -> SUBSET (UserIds \cup {None})]
    /\ \A s \in Subs : handedOut[s] \subseteq {users[s].id, None}
    /\ req = [i \in Reqs |-> req[i]]
    /\ \A i \in Reqs : RequestSound(req[i])

\* A room that the name index shows when a request comes is not created again by
\* it: two rooms of one name take two requests that overlap, or a lagging index.
NoLateDuplicate ==
    \A i \in Reqs :
        At(i, "createRoom", "put") => \A r \in req[i].before : r.name # req[i].arg

InTime(m, n) == ~LexLess(n.at, m.at) \/ CutShort(n.at, m.at)

\* A page of history is in order of time, and leaves out no settled message newer
\* than one it has, whichever later ones the read saw; but for times of one second
\* that ts_id cuts short.
HistoryOrdered ==
    \A i \in Reqs : req[i].pc = "answer" =>
        LET page  == req[i].page
            shown == {page[p] : p \in 1 .. Len(page)}
        IN  /\ \A p, q \in 1 .. Len(page) : p < q => InTime(page[p], page[q])
            /\ \A m \in req[i].of \ shown, n \in shown : InTime(m, n)

\* "Returns an error if the name already exists": no two rooms share a name.
RoomNamesUnique ==
    \A r, t \in rooms : r.name = t.name => r = t
================================================================================
