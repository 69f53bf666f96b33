---------------------------- MODULE HttpHistory_proofs --------------------------
(***************************************************************************)
(* Proofs about the message history of HttpApi: for any number of messages *)
(* and any times, and whichever of the late messages the query sees, a     *)
(* page is in order and leaves out no settled message newer than one it    *)
(* shows, and every variable keeps its type.                               *)
(*                                                                         *)
(* Of those it sees, it returns the messages that fewer than size follow.  *)
(* The number that follow a message is its place from the newest on: it    *)
(* tells messages apart, because ts_id orders them totally (MessageOrder), *)
(* and those of the messages found fill 0 .. n - 1 without a gap, because  *)
(* n different numbers below n are all of them.                            *)
(***************************************************************************)
EXTENDS HttpApi_proofs, TsId_proofs, FiniteSetTheorems

USE HttpAssumption, TsIdAssumption

\* A set of messages that a read may see.
Readable(seen) == seen \subseteq Message /\ IsFiniteSet(seen)

MessagesSound == Readable(messages) /\ settled \subseteq messages

Place(seen, m) == Cardinality(Newer(seen, m))

Found(seen, size) == {m \in seen : Place(seen, m) < size}

\* TsIdLess on the messages of a room.
LEMMA RoomOrder ==
    ASSUME NEW seen, Readable(seen), NEW k \in seen, NEW m \in seen, NEW n \in seen
    PROVE  /\ ~TsIdLess(m, m)
           /\ TsIdLess(k, m) /\ TsIdLess(m, n) => TsIdLess(k, n)
           /\ m = n \/ TsIdLess(m, n) \/ TsIdLess(n, m)
<1>1. /\ k \in Message /\ m \in Message /\ n \in Message
      /\ k.at \in Times /\ m.at \in Times /\ n.at \in Times
      /\ k.id \in Nat /\ m.id \in Nat /\ n.id \in Nat
  BY DEF Readable, Message
<1>2. m.at = n.at /\ m.id = n.id => m = n
  BY <1>1 DEF Message
<1>3. /\ ~TsIdLess(m, m)
      /\ TsIdLess(k, m) /\ TsIdLess(m, n) => TsIdLess(k, n)
      /\ (m.at = n.at /\ m.id = n.id) \/ TsIdLess(m, n) \/ TsIdLess(n, m)
  BY <1>1, MessageOrder
<1>4. QED BY <1>2, <1>3

\* A place is a number.
LEMMA PlaceType ==
    ASSUME NEW seen, Readable(seen), NEW m \in seen
    PROVE  Place(seen, m) \in Nat /\ Newer(seen, m) \subseteq seen /\ IsFiniteSet(Newer(seen, m))
<1>1. Newer(seen, m) \in SUBSET seen
  BY DEF Newer
<1>2. IsFiniteSet(Newer(seen, m))
  BY <1>1, FS_Subset DEF Readable
<1>3. QED BY <1>1, <1>2, FS_CardinalityType DEF Place

\* The later message has the smaller place.
LEMMA LaterIsNewer ==
    ASSUME NEW seen, Readable(seen), NEW m \in seen, NEW n \in seen, TsIdLess(m, n)
    PROVE  Place(seen, n) < Place(seen, m)
<1>1. Newer(seen, n) \in SUBSET Newer(seen, m)
  BY RoomOrder DEF Newer
<1>2. n \in Newer(seen, m) /\ n \notin Newer(seen, n)
  BY RoomOrder DEF Newer
<1>3. Cardinality(Newer(seen, n)) <= Cardinality(Newer(seen, m))
  BY <1>1, PlaceType, FS_Subset
<1>4. Cardinality(Newer(seen, n)) # Cardinality(Newer(seen, m))
  BY <1>1, <1>2, PlaceType, FS_Subset
<1>5. QED BY <1>3, <1>4, PlaceType DEF Place

\* Places and ts_ids say the same, so that no two messages share a place.
LEMMA PlacesOrder ==
    ASSUME NEW seen, Readable(seen), NEW m \in seen, NEW n \in seen
    PROVE  /\ Place(seen, n) < Place(seen, m) => TsIdLess(m, n)
           /\ Place(seen, n) = Place(seen, m) => m = n
<1>1. m = n \/ TsIdLess(m, n) \/ TsIdLess(n, m)
  BY RoomOrder
<1>2. TsIdLess(n, m) => Place(seen, m) < Place(seen, n)
  BY LaterIsNewer
<1>3. TsIdLess(m, n) => Place(seen, n) < Place(seen, m)
  BY LaterIsNewer
<1>4. Place(seen, m) \in Nat /\ Place(seen, n) \in Nat
  BY PlaceType
<1>5. QED BY <1>1, <1>2, <1>3, <1>4

\* The numbers below n are n.
LEMMA NumbersBelow ==
    ASSUME NEW n \in Nat
    PROVE  IsFiniteSet(0 .. n - 1) /\ Cardinality(0 .. n - 1) = n
<1>1. PICK first \in Int, last \in Int : first = 0 /\ last = n - 1
  OBVIOUS
<1>2. /\ IsFiniteSet(first .. last)
      /\ Cardinality(first .. last) =
            IF first > last THEN 0 ELSE last - first + 1
  BY FS_Interval, Zenon
<1>3. QED BY <1>1, <1>2

\* At most size messages are found, and their places are 0, 1, 2 and so on.
LEMMA FoundPlaces ==
    ASSUME NEW seen, Readable(seen), NEW size \in Nat
    PROVE  /\ Found(seen, size) \subseteq seen /\ IsFiniteSet(Found(seen, size))
           /\ Cardinality(Found(seen, size)) \in Nat /\ Cardinality(Found(seen, size)) <= size
           /\ \A m \in Found(seen, size) : Place(seen, m) \in 0 .. Cardinality(Found(seen, size)) - 1
           /\ \A p \in 0 .. Cardinality(Found(seen, size)) - 1 :
                 \E m \in Found(seen, size) : Place(seen, m) = p
<1> DEFINE F == Found(seen, size)
           N == Cardinality(F)
           place == [m \in F |-> Place(seen, m)]
<1>1. F \in SUBSET seen /\ IsFiniteSet(F) /\ N \in Nat
  <2>1. F \in SUBSET seen
    BY DEF Found
  <2>2. IsFiniteSet(F)
    BY <2>1, FS_Subset DEF Readable
  <2>3. QED BY <2>1, <2>2, FS_CardinalityType
<1>2. \A m \in F : Place(seen, m) \in 0 .. size - 1
  BY <1>1, PlaceType DEF Found
<1>3. \A m, n \in F : Place(seen, m) = Place(seen, n) => m = n
  BY <1>1, PlacesOrder
<1>4. ASSUME NEW m \in F
      PROVE  Place(seen, m) \in 0 .. N - 1
  <2>1. m \in seen /\ Place(seen, m) \in Nat /\ Place(seen, m) < size
    BY <1>1, PlaceType DEF Found
  <2>2. Newer(seen, m) \in SUBSET F
    <3> SUFFICES ASSUME NEW n \in Newer(seen, m)
                 PROVE  n \in F
      OBVIOUS
    <3>1. n \in seen /\ TsIdLess(m, n)
      BY DEF Newer
    <3>2. Place(seen, n) < Place(seen, m) /\ Place(seen, n) \in Nat
      BY <2>1, <3>1, LaterIsNewer, PlaceType
    <3>3. QED BY <2>1, <3>1, <3>2 DEF Found
  <2>3. m \notin Newer(seen, m)
    BY <2>1, RoomOrder DEF Newer
  <2>4. Place(seen, m) <= N /\ (Place(seen, m) = N => Newer(seen, m) = F)
    BY <1>1, <2>2, FS_Subset DEF Place
  <2>5. Place(seen, m) # N
    BY <2>3, <2>4
  <2>6. QED BY <1>1, <2>1, <2>4, <2>5
<1>5. N <= size
  <2>1. place \in [F -> 0 .. size - 1] /\ \A a, b \in DOMAIN place : place[a] = place[b] => a = b
    BY <1>2, <1>3
  <2>2. place \in Injection(F, 0 .. size - 1)
    BY <2>1 DEF Injection, IsInjective
  <2>3. IsFiniteSet(0 .. size - 1) /\ Cardinality(0 .. size - 1) = size
    BY NumbersBelow
  <2> HIDE DEF F, place
  <2>4. QED BY <2>2, <2>3, FS_Injection
<1>6. \A p \in 0 .. N - 1 : \E m \in F : Place(seen, m) = p
  <2>1. place \in [F -> 0 .. N - 1] /\ \A a, b \in DOMAIN place : place[a] = place[b] => a = b
    BY <1>3, <1>4
  <2>2. place \in Injection(F, 0 .. N - 1)
    BY <2>1 DEF Injection, IsInjective
  <2>3. IsFiniteSet(0 .. N - 1) /\ Cardinality(0 .. N - 1) = N
    <3> HIDE DEF F, N
    <3>1. QED BY <1>1, NumbersBelow
  <2>4. place \in Surjection(F, 0 .. N - 1)
    <3> HIDE DEF F, place
    <3>1. QED BY <2>2, <2>3, FS_Injection DEF N
  <2>5. \A p \in 0 .. N - 1 : \E m \in F : place[m] = p
    BY <2>4 DEF Surjection
  <2>6. QED BY <2>5
<1>7. QED BY <1>1, <1>4, <1>5, <1>6

\* A page as getMessages answers it: oldest first, and what it leaves
\* out of them is older still.
InOrder(page, of) ==
    LET shown == {page[p] : p \in 1 .. Len(page)}
    IN  /\ \A p, q \in 1 .. Len(page) : p < q => InTime(page[p], page[q])
        /\ \A m \in of \ shown, n \in shown : InTime(m, n)

\* The query's page: the messages found, by place.
LEMMA QueryPage ==
    ASSUME NEW seen, Readable(seen), NEW size \in Nat
    PROVE  LET page == GetMessagesByRoom(seen, size)
           IN  /\ page \in Seq(seen) /\ Len(page) <= size
               /\ \A p \in 1 .. Len(page) : Place(seen, page[p]) = p - 1
               /\ \A m \in seen : Place(seen, m) < size =>
                     \E p \in 1 .. Len(page) : page[p] = m
<1> DEFINE F == Found(seen, size)
           N == Cardinality(F)
<1>1. PICK page : page = GetMessagesByRoom(seen, size)
  OBVIOUS
<1>2. page = [p \in 1 .. N |-> CHOOSE m \in F : Place(seen, m) = p - 1]
  BY <1>1 DEF GetMessagesByRoom, Found, Place
<1>3. /\ F \subseteq seen /\ N \in Nat /\ N <= size
      /\ \A m \in F : Place(seen, m) \in 0 .. N - 1
      /\ \A p \in 0 .. N - 1 : \E m \in F : Place(seen, m) = p
  BY FoundPlaces
<1>4. ASSUME NEW p \in 1 .. N
      PROVE  page[p] \in F /\ Place(seen, page[p]) = p - 1
  <2>1. \E m \in F : Place(seen, m) = p - 1
    BY <1>3
  <2>2. page[p] = CHOOSE m \in F : Place(seen, m) = p - 1
    BY <1>2
  <2> HIDE DEF F
  <2>3. QED BY <2>1, <2>2
<1>5. page \in Seq(seen) /\ Len(page) = N
  <2>1. page \in [1 .. N -> seen]
    BY <1>2, <1>3, <1>4
  <2> HIDE DEF N
  <2>2. QED BY <1>3, <2>1
<1>6. ASSUME NEW m \in seen, Place(seen, m) < size
      PROVE  \E p \in 1 .. N : page[p] = m
  <2>1. m \in F
    BY <1>6 DEF Found
  <2>2. Place(seen, m) + 1 \in 1 .. N
    BY <1>3, <2>1
  <2>3. Place(seen, page[Place(seen, m) + 1]) = Place(seen, m) /\ page[Place(seen, m) + 1] \in seen
    BY <1>3, <1>4, <2>2, PlaceType
  <2>4. page[Place(seen, m) + 1] = m
    BY <2>3, PlacesOrder
  <2>5. QED BY <2>2, <2>4
<1>7. QED BY <1>1, <1>3, <1>4, <1>5, <1>6

\* What the handler makes of it: the page turned round.
LEMMA AnswerPage ==
    ASSUME NEW seen, Readable(seen), NEW of \in SUBSET seen, NEW size \in Nat
    PROVE  LET page == Reverse(GetMessagesByRoom(seen, size))
           IN  page \in Seq(Message) /\ Len(page) <= size /\ InOrder(page, of)
<1>1. PICK found : found = GetMessagesByRoom(seen, size)
  OBVIOUS
<1>2. PICK page : page = Reverse(found)
  OBVIOUS
<1>3. /\ found \in Seq(seen) /\ Len(found) <= size
      /\ \A p \in 1 .. Len(found) : Place(seen, found[p]) = p - 1
      /\ \A m \in seen : Place(seen, m) < size => \E p \in 1 .. Len(found) : found[p] = m
  BY <1>1, QueryPage
<1>4. PICK len \in Nat : len = Len(found)
  BY <1>3
<1>5. page = [p \in 1 .. len |-> found[len - p + 1]]
  BY <1>2, <1>4 DEF Reverse
<1>6. \A p \in 1 .. len : page[p] \in seen /\ Place(seen, page[p]) = len - p
  <2> SUFFICES ASSUME NEW p \in 1 .. len
               PROVE  page[p] \in seen /\ Place(seen, page[p]) = len - p
    OBVIOUS
  <2>1. PICK q \in 1 .. len : q = len - p + 1
    <3>1. len - p + 1 \in 1 .. len
      OBVIOUS
    <3>2. QED BY <3>1
  <2>2. page[p] = found[q]
    BY <1>5, <2>1
  <2>3. found[q] \in seen /\ Place(seen, found[q]) = q - 1
    BY <1>3, <1>4
  <2>4. QED BY <2>1, <2>2, <2>3
<1>7. page \in Seq(Message) /\ Len(page) = len
  BY <1>4, <1>5, <1>6 DEF Readable
<1>8. \A m, n \in seen : Place(seen, n) < Place(seen, m) => InTime(m, n)
  <2>1. \A m \in seen : m.at \in Times
    BY DEF Readable, Message
  <2>2. QED BY <2>1, PlacesOrder, KeysInTime DEF InTime
<1>9. \A p, q \in 1 .. len : p < q => InTime(page[p], page[q])
  <2> SUFFICES ASSUME NEW p \in 1 .. len, NEW q \in 1 .. len, p < q
               PROVE  InTime(page[p], page[q])
    OBVIOUS
  <2>1. Place(seen, page[q]) < Place(seen, page[p])
    BY <1>6
  <2>2. QED BY <1>6, <1>8, <2>1
<1>10. ASSUME NEW m \in seen, \A p \in 1 .. len : page[p] # m,
              NEW q \in 1 .. len
       PROVE  InTime(m, page[q])
  <2>1. Place(seen, page[q]) < size
    BY <1>3, <1>4, <1>6
  <2>2. ~(Place(seen, m) < size)
    <3> SUFFICES ASSUME Place(seen, m) < size
                 PROVE  FALSE
      OBVIOUS
    <3>1. PICK p \in 1 .. len : found[p] = m
      BY <1>3, <1>4
    <3>2. len - p + 1 \in 1 .. len /\ len - (len - p + 1) + 1 = p
      OBVIOUS
    <3>3. page[len - p + 1] = m
      BY <1>5, <3>1, <3>2
    <3>4. QED BY <1>10, <3>2, <3>3
  <2>3. Place(seen, page[q]) < Place(seen, m)
    BY <1>6, <2>1, <2>2, PlaceType
  <2>4. QED BY <1>6, <1>8, <2>3
<1>11. InOrder(page, of)
  BY <1>7, <1>9, <1>10 DEF InOrder
<1>12. QED BY <1>1, <1>2, <1>3, <1>4, <1>7, <1>11

\* The size of a page is in range, whatever limit is asked for.
LEMMA PageSizeShape ==
    ASSUME NEW limit \in Limits
    PROVE  PageSize(limit) \in 1 .. MaxLimit
BY DEF Limits, PageSize

(***************************************************************************)
(* The invariant: what TypeOK and HistoryOrdered say of one request.       *)
(***************************************************************************)
RequestTyped(v) ==
    /\ v.pc \in {"idle", "upsert", "update", "check", "put", "query", "answer"}
    /\ v.op = "getMessages" /\ v.pc \in {"upsert", "query"} => v.arg \in Limits
    /\ v.op = "updateMe" => v.arg \in DisplayNames
    /\ v.op = "createRoom" => v.arg \in RoomNames
    /\ v.page \in Seq(Message) /\ Len(v.page) <= MaxLimit
    /\ v.pc = "answer" => InOrder(v.page, v.of)

HistorySound ==
    /\ MessagesSound
    /\ \A i \in Reqs : RequestTyped(req[i])

\* The fields of a request that has come.
LEMMA RequestFields ==
    ASSUME NEW op, NEW sub, NEW arg, NEW pc, NEW x, NEW v,
           \/ v = Request(op, sub, arg, pc)
           \/ v = [Request(op, sub, arg, pc) EXCEPT !.before = x]
    PROVE  v.op = op /\ v.arg = arg /\ v.pc = pc /\ v.page = <<>>
BY DEF Request

\* No page is a page.
LEMMA EmptyPage == <<>> \in Seq(Message) /\ Len(<<>>) <= MaxLimit
OBVIOUS

\* A slot without a request has its types.
LEMMA IdleTyped == RequestTyped(IdleRequest)
<1>1. /\ IdleRequest.op = "none" /\ IdleRequest.pc = "idle"
      /\ IdleRequest.page = <<>>
  BY DEF IdleRequest, Request
<1>2. QED BY <1>1, EmptyPage DEF RequestTyped

\* A request that goes on to its next call keeps what it has.
LEMMA NextCallTyped ==
    ASSUME UsersSound, HistorySound, NEW i \in Reqs, NEW pc,
           \/ req[i].pc = "upsert" /\ pc = "query"
           \/ req[i].pc = "check" /\ pc = "put"
    PROVE  RequestTyped([req[i] EXCEPT !.pc = pc])
<1>1. PICK v : v = [req[i] EXCEPT !.pc = pc]
  OBVIOUS
<1>2. Formed(req[i]) /\ RequestTyped(req[i])
  BY DEF UsersSound, RequestSound, HistorySound
<1>3. /\ v.op = req[i].op /\ v.arg = req[i].arg /\ v.pc = pc
      /\ v.page = req[i].page /\ v.of = req[i].of
  BY <1>1, <1>2 DEF Formed
<1>4. RequestTyped(v)
  BY <1>2, <1>3 DEF RequestTyped
<1>5. QED BY <1>1, <1>4

\* One request moves on: the others stay as they are.
LEMMA OneTypedMoves ==
    ASSUME UsersSound, HistorySound, NEW i \in Reqs, NEW v, RequestTyped(v),
           req' = [req EXCEPT ![i] = v], UNCHANGED <<messages, settled>>
    PROVE  HistorySound'
<1>1. \A j \in Reqs : req'[j] = IF j = i THEN v ELSE req[j]
  BY DEF UsersSound
<1>2. \A j \in Reqs : RequestTyped(req'[j])
  BY <1>1 DEF HistorySound
<1>3. (\A j \in Reqs : RequestTyped(req[j]))'
  BY <1>2 DEF RequestTyped
<1>4. QED BY <1>3 DEF HistorySound, MessagesSound, Readable

(***************************************************************************)
(* One lemma for each action, or for those that do alike.                  *)
(***************************************************************************)

\* A request that arrives has the types of its handler.
LEMMA TypedArrivalStep ==
    ASSUME UsersSound, HistorySound, NEW i \in Reqs, NEW s \in Subs,
           \/ GetMe(i, s)
           \/ \E d \in DisplayNames : UpdateMe(i, s, d)
           \/ \E n \in RoomNames : CreateRoom(i, s, n)
           \/ \E limit \in Limits : GetMessages(i, s, limit)
    PROVE  HistorySound'
<1>1. ASSUME NEW v, RequestTyped(v), Arrive(i, v)
      PROVE  HistorySound'
  BY <1>1, OneTypedMoves DEF Arrive
<1>2. CASE GetMe(i, s)
  <2>1. PICK v : v = Request("getMe", s, None, "upsert")
    OBVIOUS
  <2>2. v.op = "getMe" /\ v.pc = "upsert" /\ v.page = <<>>
    BY <2>1, RequestFields
  <2>3. RequestTyped(v)
    BY <2>2, EmptyPage DEF RequestTyped
  <2>4. QED BY <1>1, <1>2, <2>1, <2>2, <2>3 DEF GetMe
<1>3. ASSUME NEW d \in DisplayNames, UpdateMe(i, s, d)
      PROVE  HistorySound'
  <2>1. PICK v : v = Request("updateMe", s, d, "update")
    OBVIOUS
  <2>2. v.op = "updateMe" /\ v.arg = d /\ v.pc = "update" /\ v.page = <<>>
    BY <2>1, RequestFields
  <2>3. RequestTyped(v)
    BY <2>2, EmptyPage DEF RequestTyped
  <2>4. QED BY <1>1, <1>3, <2>1, <2>2, <2>3 DEF UpdateMe
<1>4. ASSUME NEW n \in RoomNames, CreateRoom(i, s, n)
      PROVE  HistorySound'
  <2>1. PICK v : v = [Request("createRoom", s, n, "check") EXCEPT !.before = indexed]
    OBVIOUS
  <2>2. v.op = "createRoom" /\ v.arg = n /\ v.pc = "check" /\ v.page = <<>>
    BY <2>1, RequestFields
  <2>3. RequestTyped(v)
    BY <2>2, EmptyPage DEF RequestTyped
  <2>4. QED BY <1>1, <1>4, <2>1, <2>2, <2>3 DEF CreateRoom
<1>5. ASSUME NEW limit \in Limits, GetMessages(i, s, limit)
      PROVE  HistorySound'
  <2>1. PICK v : v = Request("getMessages", s, limit, "upsert")
    OBVIOUS
  <2>2. v.op = "getMessages" /\ v.arg = limit /\ v.pc = "upsert" /\ v.page = <<>>
    BY <2>1, RequestFields
  <2>3. RequestTyped(v)
    BY <2>2, EmptyPage DEF RequestTyped
  <2>4. QED BY <1>1, <1>5, <2>1, <2>2, <2>3 DEF GetMessages
<1>6. QED BY <1>2, <1>3, <1>4, <1>5

\* The answer of the query is a page in order, and leaves out no newer settled
\* message, whatever else the query saw.
LEMMA QueryMessagesStep ==
    ASSUME UsersSound, HistorySound, NEW i \in Reqs, QueryMessages(i)
    PROVE  HistorySound'
<1>1. UNCHANGED <<messages, settled>>
  BY DEF QueryMessages
<1>2. CASE Finish(i)
  BY <1>1, <1>2, IdleTyped, OneTypedMoves DEF Finish
<1>3. CASE ~Finish(i)
  <2>1. PICK size \in 1 .. MaxLimit : size = PageSize(req[i].arg)
    <3>1. req[i].op = "getMessages" /\ req[i].pc = "query"
      BY DEF QueryMessages, At
    <3>2. req[i].arg \in Limits
      BY <3>1 DEF HistorySound, RequestTyped
    <3>3. QED BY <3>2, PageSizeShape
  <2>2. PICK late \in SUBSET (messages \ settled) :
           req' = [req EXCEPT ![i] =
              [Request("getMessages", None, None, "answer") EXCEPT
                 !.of   = settled,
                 !.page = Reverse(GetMessagesByRoom(settled \cup late, size))]]
    BY <1>3, <2>1 DEF QueryMessages
  <2>3. PICK page : page = Reverse(GetMessagesByRoom(settled \cup late, size))
    OBVIOUS
  <2>4. Readable(settled \cup late)
    <3>1. settled \cup late \in SUBSET messages
      BY DEF HistorySound, MessagesSound
    <3>2. IsFiniteSet(settled \cup late)
      BY <3>1, FS_Subset DEF HistorySound, MessagesSound, Readable
    <3>3. QED BY <3>1, <3>2 DEF HistorySound, MessagesSound, Readable
  <2>5. page \in Seq(Message) /\ Len(page) <= size /\ InOrder(page, settled)
    <3>1. settled \in SUBSET (settled \cup late) /\ size \in Nat
      OBVIOUS
    <3>2. QED BY <2>3, <2>4, <3>1, AnswerPage
  <2>6. PICK v : v = [Request("getMessages", None, None, "answer") EXCEPT
                        !.of = settled, !.page = page]
    OBVIOUS
  <2>7. /\ v.op = "getMessages" /\ v.pc = "answer"
        /\ v.page = page /\ v.of = settled
    BY <2>6 DEF Request
  <2>8. RequestTyped(v)
    <3>1. Len(page) <= MaxLimit
      BY <2>1, <2>5
    <3>2. QED BY <2>5, <2>7, <3>1 DEF RequestTyped
  <2>9. req' = [req EXCEPT ![i] = v]
    BY <2>2, <2>3, <2>6
  <2>10. QED BY <1>1, <2>8, <2>9, OneTypedMoves
<1>4. QED BY <1>2, <1>3

\* The other calls of a request leave the messages alone.
LEMMA TypedCallStep ==
    ASSUME UsersSound, HistorySound, NEW i \in Reqs,
           \/ UpsertUser(i) \/ UpdateDisplayName(i)
           \/ CheckName(i) \/ PutRoom(i) \/ Answer(i)
    PROVE  HistorySound'
<1>1. UNCHANGED <<messages, settled>>
  BY DEF UpsertUser, UpdateDisplayName, CheckName, PutRoom, Answer
<1>2. CASE Finish(i)
  BY <1>1, <1>2, IdleTyped, OneTypedMoves DEF Finish
<1>3. CASE UpsertUser(i) /\ ~Finish(i)
  <2>1. RequestTyped([req[i] EXCEPT !.pc = "query"])
    BY <1>3, NextCallTyped DEF UpsertUser
  <2>2. req' = [req EXCEPT ![i] = [req[i] EXCEPT !.pc = "query"]]
    BY <1>3 DEF UpsertUser
  <2>3. QED BY <1>1, <2>1, <2>2, OneTypedMoves
<1>4. CASE CheckName(i) /\ ~Finish(i)
  <2>1. RequestTyped([req[i] EXCEPT !.pc = "put"])
    BY <1>4, NextCallTyped DEF CheckName, At
  <2>2. req' = [req EXCEPT ![i] = [req[i] EXCEPT !.pc = "put"]]
    BY <1>4 DEF CheckName
  <2>3. QED BY <1>1, <2>1, <2>2, OneTypedMoves
<1>5. QED BY <1>2, <1>3, <1>4 DEF UpdateDisplayName, PutRoom, Answer

\* A message is stored within the bound, beside those of its time.
LEMMA PostStep ==
    ASSUME HistorySound, NEW at \in Times, Post(at)
    PROVE  HistorySound'
<1> DEFINE twins == {m \in messages : m.at = at}
<1>1. PICK new : new = [id |-> Cardinality(twins) + 1, at |-> at]
  OBVIOUS
<1>2. /\ messages' = messages \cup {new} /\ UNCHANGED req
      /\ settled' \subseteq settled \cup {new}
  BY <1>1 DEF Post
<1>3. new \in Message
  <2>1. twins \in SUBSET messages
    OBVIOUS
  <2>2. IsFiniteSet(twins) /\ Cardinality(twins) <= Cardinality(messages)
    <3> HIDE DEF twins
    <3>1. QED BY <2>1, FS_Subset DEF HistorySound, MessagesSound, Readable
  <2>3. Cardinality(twins) \in Nat /\ Cardinality(messages) \in Nat
    <3> HIDE DEF twins
    <3>1. QED BY <2>2, FS_CardinalityType DEF HistorySound, MessagesSound, Readable
  <2>4. Cardinality(messages) < MaxMessages
    BY DEF Post
  <2> HIDE DEF twins
  <2>5. Cardinality(twins) + 1 \in 1 .. MaxMessages
    BY <2>2, <2>3, <2>4
  <2>6. QED BY <1>1, <2>5 DEF Message
<1>4. IsFiniteSet(messages \cup {new})
  BY FS_AddElement DEF HistorySound, MessagesSound, Readable
<1>5. MessagesSound'
  BY <1>2, <1>3, <1>4 DEF HistorySound, MessagesSound, Readable
<1>6. QED BY <1>2, <1>5 DEF HistorySound, RequestTyped

(***************************************************************************)
(* The theorems.                                                           *)
(***************************************************************************)

\* HistorySound is inductive, beside UsersSound.
LEMMA HistoryStep ==
    UsersSound /\ HistorySound /\ [Next]_vars => HistorySound'
<1> SUFFICES ASSUME UsersSound, HistorySound, [Next]_vars
             PROVE  HistorySound'
  OBVIOUS
<1>1. CASE \E i \in Reqs, s \in Subs :
              \/ GetMe(i, s)
              \/ \E d \in DisplayNames : UpdateMe(i, s, d)
              \/ \E n \in RoomNames : CreateRoom(i, s, n)
              \/ \E limit \in Limits : GetMessages(i, s, limit)
  BY <1>1, TypedArrivalStep
<1>2. CASE \E i \in Reqs : QueryMessages(i)
  BY <1>2, QueryMessagesStep
<1>3. CASE \E i \in Reqs : \/ UpsertUser(i) \/ UpdateDisplayName(i)
                           \/ CheckName(i) \/ PutRoom(i) \/ Answer(i)
  BY <1>3, TypedCallStep
<1>4. CASE \/ (\E r \in rooms : IndexRoom(r)) \/ (\E m \in messages : Settle(m))
           \/ UNCHANGED vars
  <2>1. /\ UNCHANGED <<req, messages>>
        /\ settled' \subseteq settled \cup messages
    BY <1>4 DEF IndexRoom, Settle, vars
  <2>2. QED BY <2>1 DEF HistorySound, MessagesSound, Readable, RequestTyped
<1>5. CASE \E at \in Times : Post(at)
  BY <1>5, PostStep
<1>6. QED BY <1>1, <1>2, <1>3, <1>4, <1>5 DEF Next

\* Whatever is stored and answered has its type, and every page is in order, in
\* every reachable state.
LEMMA HistoryInvariance == Spec => []HistorySound
<1>1. Init => HistorySound
  <2> SUFFICES ASSUME Init
               PROVE  HistorySound
    OBVIOUS
  <2>1. \A i \in Reqs : RequestTyped(req[i])
    BY IdleTyped DEF Init
  <2>2. MessagesSound
    BY FS_EmptySet DEF Init, MessagesSound, Readable
  <2>3. QED BY <2>1, <2>2 DEF HistorySound
<1>2. QED BY <1>1, HistoryStep, UsersInvariance, PTL DEF Spec

\* A page of history is in order of time and leaves out no settled message newer
\* than one it shows, although the query is not consistent, but for the times that
\* ts_id cuts short (GetMessagesByRoom, and getMessagesHandler, which turns the
\* page round).
THEOREM HistoryInOrder == Spec => []HistoryOrdered
<1>1. HistorySound => HistoryOrdered
  BY DEF HistorySound, RequestTyped, InOrder, HistoryOrdered
<1>2. QED BY <1>1, HistoryInvariance, PTL

\* Every variable keeps its type; no page is longer than the largest (limit).
THEOREM HttpTypeCorrectness == Spec => []TypeOK
<1>1. UsersSound /\ RoomsSound /\ HistorySound => TypeOK
  BY DEF UsersSound, RoomsSound, HistorySound, MessagesSound, Readable, RequestTyped, TypeOK, At
<1>2. QED BY <1>1, UsersInvariance, RoomsInvariance, HistoryInvariance, PTL
=================================================================================
