# ChatterChat in TLA+

ChatterChat is a chat service: a page (`frontend/app.js`) talks to a WebSocket
API and to an HTTP API; both are Go functions on AWS Lambda that keep everything
in four DynamoDB tables. `backend/cmd/local` runs the same handlers in one process
for development. This directory holds models of the parts that keep state, TLC
runs over small instances of them, and TLAPS proofs for all instances. Paths
below are relative to the repository.

## The system

| Part | Code | State | Operations | What is hard |
|---|---|---|---|---|
| WebSocket handlers | `backend/internal/ws/handlers.go` | none of their own: the connections, messages and users tables | HandleConnect, HandleDisconnect, HandleJoinRoom, HandleSendMessage | each is a chain of database calls; invocations of one connection overlap; some errors are only logged |
| Broadcast | `internal/ws/broadcast.go` | targets read from the room index | BroadcastToRoom, SendToConnection, isGone | the list of targets is old when it is used; one send fails; a 410 deletes a row |
| ws-handler Lambda | `cmd/ws-handler/main.go` | one invocation | routes $connect, $disconnect, joinRoom, sendMessage, ping | invocations time out between two calls; $disconnect is best effort |
| Queries and records | `internal/db/queries.go`, `internal/models` | the four tables | upserts, puts, deletes, index queries | unconditional upserts, eventually consistent reads, a text sort key |
| HTTP API | `cmd/http-api/main.go` | users, rooms, messages | getMe, updateMe, createRoom, getMessages, list and get rooms | check-then-put, two kinds of upsert of one item |
| Local server | `cmd/local/main.go` | ConnRegistry, a mutex per entry | wsHandler, Add, Remove, Send | goroutines that write to each other's sockets; a process that dies |
| Chat page | `frontend/app.js` | ws, currentRoomId, message area, timers | connect, disconnect, select room, send, save name | answers and frames in any order; delayed reconnects |
| Tokens, authorizer, DB client | `internal/auth`, `cmd/ws-authorizer`, `internal/db/client.go` | a key set, a client and their errors, each behind a sync.Once, per process | Middleware, the authorizer's handler, ValidateToken, fetchJWKS, Get | first requests race; what the first call gave, an error too, is kept for the life of the process; the fetch runs in the context of one request and serves all |

How they interact: the page opens a socket (`$connect`: HandleConnect writes the
user and the connection row, with a copy of the display name). joinRoom moves the
row into a room and tells both rooms; sendMessage stores a message and broadcasts
it to whatever the room index lists. The history comes from the HTTP API, which
shares the messages and users tables with the handlers. Before any of this a
token is validated (by the authorizer for `$connect`, by the gateway and the
middleware for HTTP) and the DynamoDB client is asked for; both come from caches
that live as long as the process. The tables are the only thing two Lambda
invocations share, and they have no transactions here: most hazards of the server
come from what happens between two calls. The hazards are listed one
by one, with their lines and the properties that cover them, in `PROJECT.json`.

What makes each part correct:

- handlers: an open connection has a row that names its owner; a message is
  stored under the sender's owner, only in a room it was let into, and before
  anybody hears it; nobody hears a room he was not let into; departures are
  announced; rows of closed connections go;
- broadcast: one failing send costs the others nothing; only a 410 deletes;
- HTTP API: one id per user, names that stay, rooms with names of their own,
  pages of history in order, without holes among the messages every read sees;
- local server: the same promise, with a registry in step with the table,
  mutexes that are always free again, and rows left behind only by a crash;
- tokens and client: only genuine ID tokens get through, everybody in one life of
  a process is told the same by a cache, and nobody waits for good for a first
  request that failed;
- page: what is shown live is of the room on screen, and what else is there is a
  late history; nothing the page is given is lost between history and live frames;
  it goes on reconnecting and its retries do not multiply; new messages carry the
  new name.

## The modules

| Module | Models | Notes |
|---|---|---|
| `ChatRooms` | nothing in particular: the abstract promise | who was let in (`joined`), what was recorded (`log`), who heard what (`heard`); three actions |
| `WsHandlers` | the four handlers, BroadcastToRoom up to the send, the queries they call | no deployment: extended by the next two |
| `LambdaGateway` | API Gateway and Lambda around `WsHandlers` | sockets, overlapping invocations, faults; `IInv`, the inductive invariant |
| `OnceCells` | nothing in particular: what "at most once per container" promises | a cell is filled once in a life and everybody is told its content |
| `Containers` | `cognito.go`, `middleware.go`, `ws-authorizer`, `client.go`, `main` of the local server | processes of all four programs, requests on their way to a handler; refines `OnceCells` |
| `LocalServer` | `cmd/local` around `WsHandlers` | goroutines, registry, entry mutexes, clients |
| `ChatPage` | the chat page of `app.js` | the server is kept to what a page can tell |
| `TsId`, `HttpApi` | the sort key of messages; the HTTP API over the shared tables | |
| `WsHandlers_proofs` | | lemmas about the handlers' operators, whatever deployment runs them |
| `LambdaGateway_proofs`, `LocalServer_proofs`, `ChatPage_proofs`, `HttpApi_proofs`, `HttpHistory_proofs`, `TsId_proofs`, `Containers_proofs` | | the theorems |
| `MC...` | small instances | definitions of constants and symmetry only |

**WsHandlers.** An invocation is a record `inv[i]`: the handler (`op`), the
connection and room of its request, the call it makes next (`pc`), what it holds
in local variables (`user`, `left`, the `frame` and `targets` of a broadcast). Each
database call or send is one action named after the query
(`DisconnectGetConnection`, `SetConnectionRoom`, `InsertMessage`, ...), with the
early returns of the lines around it, so that any other invocation may run between
two calls. `connections[c]` is the item, `readable[c]` the versions of it that a
GetItem or a query of the room index may still return (one version unless reads
are stale). `messages` and `users` are the tables. `joined` and `heard` are
histories for the properties. A write is `ok`, `refused` (an error, nothing
written) or `unconfirmed` (an error although it was written). Frames are
`user_joined`, `user_left` or `message` with room, user and message id; their JSON,
bodies and names are left out. An empty body and an unknown action change nothing
and are not distinguished further.

**LambdaGateway.** `socket[c]` is the socket as the gateway has it: it goes from
`new` over `connecting` and `open` to `closing` (its $disconnect is not delivered
yet) and `closed`. Requests start in any free slot of `Invs`. `PostToConnection`
is the send loop: 410 for a socket that is not open, delivery or any error
otherwise. `SdkErrors` says in which form the SDK hands over an HTTP error:
"bare", or "wrapped" as aws-sdk-go-v2 does; `isGone` recognises the first only.
`Faults` turns on failing calls ("db"), failing sends ("post"), killed invocations
("kill"), lost $disconnects ("drop") and stale reads ("stale").

**LocalServer.** The slots are the connections: a goroutine runs the requests of
its socket one after the other. `phase[c]` is its place in wsHandler, `LookUp`,
`LockEntry` and `Write` are ConnRegistry.Send, `client[c]` is the other end, which
may stop reading. `Asks`, `Senders` and `Pingers` bound what clients request.
The registry's own RWMutex is held for one map operation and
never while waiting, so each of those operations is atomic.

**ChatPage.** A socket is its number; `ws` is the variable of that name. `timers`
counts the pending `setTimeout(connectWebSocket, 3000)`. `area` is the set of
messages on screen with the way they came; `load[k]` is the history request of the
k-th click. Page code between two awaits is one action. The server is one that may
fail at each of its calls: it joins, stores and answers in any order, a join or a
message may come to nothing, a stored message may reach a socket late or never
(`ServerPosts` is not fair and need not follow `ServerSends`), and the rooms in
which a lagging index lists a socket (`listed`) are all it has been put in. A
history is any page of the room's messages up to `HistoryLimit`, as its read is
not consistent. `posted` remembers the frames sent, for the properties. It is
assumed that the session's token is there (no sign-out) and that the network may
close any socket.

**HttpApi.** `req[i]` walks through the calls of a handler. `indexed` are the rooms
name-index shows. Messages come from the WebSocket side with any time, as the
clocks of containers differ. `settled` are the messages every read sees: the query
of a page sets no ConsistentRead (`queries.go:195-203`), so that with "stale" it
sees those and any of the later ones. `TsId` treats a time as a sequence of digits whose
text loses the zeros at its end and is followed by "Z", which sorts after digits:
the effect of RFC3339Nano in the code's sort key, in any base and any width. The
query of a page (ScanIndexForward false, Limit) takes the messages that fewer than
`size` newer ones follow, each at the place that their number gives it.

**Containers.** `once[k]` and `cell[k]` are the sync.Once and what it guards, one
pair for the key set and one for the client in every process. `req[i]` is a
request on its way: `auth` (Middleware, or the authorizer's handler), `once` (it
calls Do, or waits in it), `run` (it executes the function), `ran` (Do returns to
the caller that executed it), `answer`. A Lambda
container takes one request at a time, the local server any number. The fetch
gives the keys published at that moment, or an error when the network fails or the
client of the very request has left (`Leave`), which only the local server
notices; its handler goes on all the same. A client object says nothing of
DynamoDB: db.Get loads configuration and contacts nobody. `Kill`
is a timeout, a recycled container or the end of the local server: cells and
requests of the process are gone. `told` and `accepted` are histories. A token is
its key, whether its audience is this app, and its use; claims are left out. Keys
are published and never withdrawn. `LambdaGateway!Connect` and `HttpApi!Arrive`
begin where `allowed` and `served` end here.

## What the runs check

| Run | Bounds | Shows |
|---|---|---|
| `gateway_faults` | 2 connections with owners of their own, 1 room, 1 message, 2 slots, all five faults, both error forms | types, `IInv`, `LiveConnectionKept`, `MessagesAttributed`, `FramesTruthful`, refinement of `ChatRooms` |
| `gateway_liveness` | 1 room, fairness, no faults | a broadcast reaches settled members; rows of closed connections go |
| `local_server` | 2 sockets, 2 rooms, 1 message, a crash; one client moves and pings, the other sends; fairness | types, `IInv`, owners named, moves and departures announced, registry and mutexes, rows left behind only by a crash, refinement of `ChatRooms`, no blocking for good |
| `containers` | an authorizer, an HTTP container and a local server, 2 keys, 1 token of the later one, 2 requests, failing fetches and configurations, kills, fairness | types, `AcceptedGenuine`, `OneVerdict`, `LocalHasClient`, `CellsSound`, refinement of `OnceCells`, every request ends |
| `chat_page` | 3 sockets, 2 rooms, 2 clicks, 1 message, pages of 1, 1 rename | types, `PageInv`, `LiveFramesOfRoom`, `StraysAreLate`, `NothingMissed`, `SocketsBounded`, `NewMessagesUseName` |
| `http_api` | 1 sub, 2 candidate ids, 1 room, 3 messages, 2 slots, failing calls, a lagging index, stale reads | types, `OneIdPerUser`, `UsersSound`, `UsersKeep`, `NoLateDuplicate`, `HistoryOrdered` |
| `ghost_row`, `silent_departure`, `stale_row`, `reconnect`, `room_names`, `sticky_error` | the smallest instance | the findings below |

Why the bounds are enough: two slots let any two handlers overlap at every point,
and the hazards of this code are pairs (a join and a $disconnect, two creations, a
rename and a first request); two connections give a sender and a listener, or the
two ends of a circle of writers; two rooms let a move happen (the gateway runs have
one, since there the theorems cover any number). Two requests race for a first
call, and a token of a key published later is one that an old key set refuses and
a new one accepts. Three messages and
pages of one or two give a page that leaves something out; times have one digit of
seconds and one of the fraction, the least at which the key and the time
disagree (5Z and 5.1Z). One room is enough for `NoLateDuplicate`, which is about
putting a name that was there before; `room_names` has two. One message is
enough for the page, whose properties speak of one message at a time, and as a
read of the history may miss it, a page of one covers the cut of a long history.
For every safety property the theorems remove the bounds; only the
liveness properties rest on them. `MaxSockets`,
`MaxSelections`, `MaxRenames`, `MaxMessages`, `Msgs`, `Pingers`, `Senders`, `Asks`,
`Keys` and the slots are
bounds of the models, not of the code. `HistoryLimit`, `DefaultLimit` and
`MaxLimit` stand for page sizes of the code (50, 50 and 100), `PageLimit` for a
limit of DynamoDB (1 MB per page), which the runs keep at the number of
connections.

The mutants in the modules (operators marked "Mutant") are plausible bugs of the
same lines; each property of a passing run has one that breaks it.

Deadlock is not checked: sockets end, clicks and messages are bounded, and when
all of them are used up the system has really nothing left to do.

### Fairness

- `LambdaGateway!FairSpec`: a running invocation makes its next call and returns
  (Lambda runs it; `gateway_liveness` and `stale_row` have no "kill"), and a
  $disconnect that is not lost is delivered. The latter is strong because the slots, which bound the
  model only, may be busy again and again; Lambda would start another container.
- `LocalServer!FairSpec`: goroutines run; a goroutine that waits for an entry's
  mutex gets it sooner or later (sync.Mutex hands over to a starving waiter), so
  locking and writing are strongly fair; ReadError likewise, since the messages
  that a closed socket still had to read are finitely many. That a stalled client
  reads again or closes is an assumption: the code sets no write deadline, and
  without it `MessageReachesMembers` fails.
- `Containers!FairSpec`: goroutines run, and a fetch comes to an end, with keys,
  with an error or because its context ends. The last is an assumption about the
  network: the code sets no timeout on the fetch, and Lambda's own is a `Kill`.
- No liveness is claimed of the page or of the handlers of the HTTP API.

## Findings

| Run | Code | What it shows |
|---|---|---|
| `ghost_row` | `queries.go:286` | SetConnectionRoom is an upsert: a join that overlaps the $disconnect of its connection brings the row back without an owner, for good |
| `silent_departure` | `handlers.go:37` | the same overlap leaves the new room untold of the departure |
| `stale_row` | `broadcast.go:112` | isGone looks at the outermost error only, so a wrapped 410 is never recognised and the row stays |
| `reconnect` | `app.js:215` | `ws.onclose = null` does not remove the listener: a deliberate disconnect is followed by a reconnect, and the page gains a socket |
| `room_names` | `queries.go:148` | two overlapping creations make two rooms of one name |
| `sticky_error` | `cognito.go:37` | one failed fetch of the key set makes a process answer 401 "invalid token" to the valid token of a later request, which fetches nothing itself |

The properties of the passing runs say how far each of these goes: a row brought
back never belongs to an open connection and its messages name nobody
(`MessagesAttributed`), the page gains at most one socket for each saved name
(`SocketsBounded`; a page without the bug satisfies it too), duplicate
rooms need an overlap or a lagging index (`NoLateDuplicate`), and a process never changes its mind about a token that lasts
(`OneVerdict`). Rows of dead sockets stay on two more ways: a lost $disconnect
(`stale_row` has it) and the end of the local server (`EndedWithoutRow` shows that
there is no other as long as the tables answer). `HistoryOrdered` and `KeyOrder`
document one more: ts_id is "lexicographically
sortable" (`queries.go:222`) except for times of one second of which one ends
where the other goes on (5.1Z and 5.123Z); `HistoryOrdered` allows exactly these.

One more disagreement needs no run, since no code here contacts DynamoDB at that
point: "Fail fast if DB is unreachable" (`cmd/local/main.go:73`) promises more
than db.Get does, which loads the configuration and builds a client
(`client.go:20-30`). `LocalHasClient` is about that client only.

## What is proved

Every invariant and every action property of the passing runs, and the three
refinements, are theorems of the specifications for all values of the constants;
three of the local server's have a hypothesis on the faults.
The inductive invariants (`IInv` of the gateway and of the local server, `PageInv`,
`UsersSound`, `CellsSound`) stand in the modules themselves, under a
heading that says why the properties hold, and the runs check them too; those
about rooms and history of the HTTP API stand with their proofs.

`LambdaGateway_proofs` proves, for any sets of connections, users, rooms,
messages and slots, any combination of faults and any error forms:

| Theorem | Statement |
|---|---|
| `Invariance` | `Spec => []IInv` |
| `TypeCorrectness` | `Spec => []TypeOK` |
| `LiveConnectionsAreKept` | `Spec => []LiveConnectionKept` |
| `MessagesAreAttributed` | `Spec => []MessagesAttributed` |
| `FramesAreTruthful` | `Spec => []FramesTruthful` |
| `ServerKeepsPromise` | `Spec => PromiseKept`: the gateway implements `ChatRooms` |

Assumptions: `ConstantsAssumption` (module `WsHandlers`; every connection has an
owner, rooms are room ids, sentinels are not ordinary values) and
`SdkErrorsAssumption`. TLC evaluates them in the gateway runs.

None of the properties is inductive alone. `LiveConnectionKept` survives the
removal of a stale row only because an invocation that is about to delete a row
does so for a socket that was gone when it was posted to; this is a fact about
local variables of invocations. `IInv` adds what each invocation has established
by the time it reaches its next call (`Sound`, split by handler: `ConnectSound`,
`DisconnectSound`, `JoinSound`, `SendSound`, and `BroadcastSound` for the
broadcast all share), what every readable version of a row says (`RowsSound`: its
user is the owner, or nobody if the socket is past; its room is one the
connection was let into), that only admitted connections were let into rooms
(`JoinedSound`), and that one invocation opens a connection (`ConnectsUnique`:
otherwise a late InsertConnection could rewrite the row of an open socket). The
argument has two halves, and the lemmas follow them: what a step does to its own
invocation (`...Step`, one for each action), and why it leaves the others alone
(`SoundKept`: sockets only advance, histories and tables only grow). The
refinement maps `log` to `messages`; SetConnectionRoom is Join, InsertMessage is
Say, a delivered PostToConnection is Hear, and every other step stutters.

`LocalServer_proofs` proves, for any sockets, users, rooms, messages and faults:

| Theorem | Statement |
|---|---|
| `LocalInvariance` | `Spec => []IInv` |
| `LocalTypeCorrectness` | `Spec => []TypeOK` |
| `OwnersAreNamed` | `Spec => []OwnersNamed` |
| `AddresseesAreRegistered` | `Spec => []AddresseesRegistered` |
| `MutexesAreInUse` | `Spec => []MutexesInUse` |
| `EndsWithoutRow` | `Spec => []EndedWithoutRow`, if `Faults` has neither "db" nor "stale" |
| `DeparturesAreAnnounced` | `Spec => DepartureAnnounced`, if reads are not "stale" |
| `MovesAreAnnounced` | `Spec => MovesAnnounced`, if reads are not "stale" |
| `LocalServerKeepsPromise` | `Spec => PromiseKept`: the local server implements `ChatRooms` |

The gateway's `IInv` will not do here, because more is true: a goroutine runs the
requests of its socket one after the other, so it alone moves its phase, its row,
its invocation and its registry entry. `GoroutineSound(c)` collects what it has
established about them: how phase and entry go together, that its row, if there is
one, names its owner in every version (`RowSound`; no upsert brings a deleted row
back, because the $disconnect of a socket runs after its joins, which is what the
gateway lacks), and what each handler knows before its next call. What the others
do only adds messages and rooms joined (`OthersUntouched`), and `OthersSound` says
once for all actions that this keeps their parts true. `MutexesInUse` is a conjunct
of its own: it relates a holder to the entry it writes to. The hypotheses on
`Faults` are needed, and are what the code depends on: HandleDisconnect returns
early when it cannot read the row, which then stays, and a lagging read shows it a
row of another room, or none, whose members it then does not tell. Neither
excludes killed processes or, for the announcements, failing writes. Assumptions:
`ConstantsAssumption` and `LocalAssumption`.

`ChatPage_proofs` proves, for any sockets, clicks, renames, rooms and messages:

| Theorem | Statement |
|---|---|
| `PageInvariance` | `Spec => []PageInv` |
| `PageTypeCorrectness` | `Spec => []TypeOK` |
| `LiveFramesAreOfRoom` | `Spec => []LiveFramesOfRoom` |
| `StraysAreLateOnes` | `Spec => []StraysAreLate` |
| `NothingIsMissed` | `Spec => []NothingMissed` |
| `SocketsAreBounded` | `Spec => []SocketsBounded` |
| `NamesAreUsed` | `Spec => []NewMessagesUseName` |

`PageInv` has a part for each concern. `SocketsSound`: sockets are opened in order
and never become new again, so that the one a reconnect opens counts once
(`SocketsBounded` is a count, and the lemmas on `Alive` say how the cardinality
changes when one socket does). `NamesSound`: the name on screen was saved before
the socket in `ws` was connected, and what was sent under a name went over a socket
whose row has it or a later one; with it `NewMessagesUseName` survives any order of
answers. `LoadsSound`: the requests for histories are those of the clicks so far,
the last one for the room on screen, and no frame was sent after more clicks than
there have been; with it a click, which empties the area, leaves `NothingMissed`
with nothing to ask for, and what arrives later is added and stays until the next
click. Nothing is assumed of the server's delivery. Assumption: `PageAssumption`.

`HttpApi_proofs` and `HttpHistory_proofs` prove, for any subs, ids, names, rooms,
messages, clocks, page sizes and slots:

| Theorem | Statement |
|---|---|
| `UsersInvariance` | `Spec => []UsersSound` |
| `OneUserPerSub` | `Spec => []OneIdPerUser` |
| `UsersAreKept` | `Spec => UsersKeep` |
| `NoLateDuplicates` | `Spec => []NoLateDuplicate` |
| `HistoryInOrder` | `Spec => []HistoryOrdered` |
| `HttpTypeCorrectness` | `Spec => []TypeOK` |

`OneIdPerUser` speaks of answers of the past, so `UsersSound` ties them to the item
as it is now (all ids ever answered are its id) and adds what a request that is
about to write names. `UpsertedShape` and `RenamedShape` say what the two upserts
leave alone; every other call leaves the users alone. `OneIdPerUser` follows at once
and `UsersKeep` from the step that keeps `UsersSound`. `NoLateDuplicate` compares a
name with the index as it was when the request came; the inductive `RoomsSound`
adds that this index is a part of the present one, in which CheckName looks.
`HistoryOrdered` is about one query, over any finite set of messages that contains
the settled ones: `PlacesOrder` says that the number of newer messages tells
messages apart and orders them as ts_id does, `FoundPlaces` that the numbers of
those found are 0, 1, 2 and so on (as many different numbers below n as there are
numbers below n), so that the page is complete for what the read saw, hence for
the settled messages, and sorted by ts_id, and `KeysInTime` what
that says of time. Assumptions: `HttpAssumption` (page sizes, and
that the sentinel is not an id or a name) and `TsIdAssumption`.

`Containers_proofs` proves, for any processes, keys, tokens, requests and faults:

| Theorem | Statement |
|---|---|
| `CellsInvariance` | `Spec => []CellsSound` |
| `OneVerdictPerLife` | `Spec => []OneVerdict` |
| `GenuineTokensOnly` | `Spec => []AcceptedGenuine` |
| `LocalServerHasClient` | `Spec => []LocalHasClient` |
| `CellsRefine` | `Spec => CellsKept`: the caches implement `OnceCells` |
| `ContainersTypeCorrectness` | `Spec => []TypeOK` |

`OneVerdict` compares a refusal with acceptances of the past, and the refinement
what was told with what is told now. `CellsSound` turns both into facts about the
cells as they are: what a cell told is its content, what a process accepted its
present key set verifies, and a refusal of a token that lasts means that it does
not (`RequestSound`). That needs a conjunct about the Once, `RunnerInside`: a cell is filled by a request that
is inside its function, only while the Once is running, so a second result never
replaces a first. A key set holds published keys only, so what it verifies is
genuine. The lemmas follow the steps: `RequestStep` for those that change one
request and no cell, one lemma each for `Do`, `RunOnce`, `Start` and `Kill`, which
change the cells. Assumption: `ContainersAssumption`.

`TsId_proofs` proves two theorems about the sort key, for any base and number of
digits. `KeyOrder`: if the key of one time sorts before the key of an earlier one,
the pair is `CutShort`. `MessageOrder`: ts_id orders messages strictly and totally,
since "Z" ends each text, so that no key is the beginning of another. That the places
a text keeps exist at all, and that two different times have a first difference,
needs a least element of a set of numbers, which `LeastNumber` takes from the
well-foundedness of `<`.

Only model-checked: the liveness properties (`MessageReachesMembers`,
`ClosedRowsGo`, `ClosedSocketsEnd`, `EveryRequestEnds`), which are out of the
prover's reach, and the findings, which are counterexamples.

## What is not modelled

- The text of claims and of LOCAL_DEV_USER; keys that a user pool withdraws (the
  cached set would go on to accept them for the life of the process); requests
  that are refused for their form before db.Get, CORS and the health check;
  panics, which Recoverer turns into a 500.
- Sign-in, sign-up, token refresh and sign-out of the page; the text of the room
  title and of joined and left lines; sockets of a page that is closed.
- Handlers that only read rooms; ping of the gateway (no state); descriptions,
  e-mail addresses and timestamps of users and rooms.
- A room query of more than one page (`queries.go:304`): members beyond it get
  nothing, which needs no model to see.
- Infrastructure, markup, and the SQL migrations of the predecessor, which nothing
  runs.

- The order in which messages arrive (`handlers.go:139`): two senders store and
  broadcast without a common order, nothing in the repository promises one, and
  the models keep frames as sets.
- A joinRoom that the page drops because its socket is not open (`app.js:222`): the
  model drops it as the code does, but no comment promises a retry, so no property
  asks for one.

## Plan

Done, in this order: `ChatRooms`, `WsHandlers`, `LambdaGateway` with its proofs,
`LocalServer`, `ChatPage`, `TsId` and `HttpApi` with the proofs about times and
users, `OnceCells` and `Containers` with their proofs, the proofs about
`LocalServer` and `ChatPage`, those about rooms and history of `HttpApi` and about
the types of `Containers`.

Next: lemmas that carry the liveness arguments as far as safety goes (that a
goroutine which holds a mutex is never the one that waits for it, that an
invocation which is running has a next call), and sharper versions of the
conditional theorems of `LocalServer`: which single failing call it is that leaves
a row or a departure untold.

New questions share the runs there are: small instances of one module are one run
where their bounds allow it.
