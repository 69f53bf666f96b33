------------------------------ MODULE LocalServer ------------------------------
(***************************************************************************)
(* cmd/local: the handlers of WsHandlers in one process.  A goroutine per  *)
(* socket handles one request of it after the other, so the invocation     *)
(* slots are the connections themselves.  LocalSender bypasses the         *)
(* gateway: a frame is written to the socket the registry holds, under the *)
(* mutex of its entry, and a client that does not read holds the writer.   *)
(***************************************************************************)
EXTENDS WsHandlers

CONSTANTS
    Pingers,    \* connections whose client pings: bounds the pings in the model
    Senders,    \* connections whose client sends messages: bounds the requests
    Asks        \* Asks[c]: rooms the client of c asks for: bounds its choices

\* "kill": the process ends (Ctrl-C, a crash); its successor has new ids only.
ASSUME LocalAssumption ==
    /\ Invs = Conns
    /\ Pingers \cup Senders \subseteq Conns
    /\ Asks \in [Conns -> SUBSET RoomIds]

VARIABLES
    phase,        \* phase[c]: where the goroutine of socket c is in wsHandler
    registry,     \* connections the ConnRegistry holds
    writer,       \* writer[c]: goroutine that holds the mutex of the entry of c
    sendingTo,    \* sendingTo[g]: whose entry goroutine g has looked up
    client        \* client[c]: what the other end of socket c does

localVars == <<phase, registry, writer, sendingTo, client>>
vars == <<users, connections, readable, messages, inv, joined, heard,
          phase, registry, writer, sendingTo, client>>

\* "add": about to call registry.Add; "serve": the read loop; "clean_up": the
\* deferred function; "lost": the process ended first.
Phases == {"new", "connect", "add", "serve", "clean_up", "ended", "lost"}

Gone == {"ended", "lost"}

\* "stalled": open, but nothing reads from it and its buffers are full.
Clients == {"open", "stalled", "closed"}

Init ==
    /\ HandlersInit
    /\ phase = [c \in Conns |-> "new"]
    /\ registry = {}
    /\ writer = [c \in Conns |-> None]
    /\ sendingTo = [c \in Conns |-> None]
    /\ client = [c \in Conns |-> "open"]

GoTo(c, p) == phase' = [phase EXCEPT ![c] = p]

Begin(c, invocation) == inv' = [inv EXCEPT ![c] = invocation]

(***************************************************************************)
(* wsHandler.                                                              *)
(***************************************************************************)

\* A socket is upgraded and HandleConnect is called.
Accept(c) ==
    /\ phase[c] = "new"
    /\ GoTo(c, "connect")
    /\ Begin(c, Invocation("connect", c, None, "upsert_user"))
    /\ UNCHANGED <<users, connections, readable, messages, joined, heard,
                   registry, writer, sendingTo, client>>

\* HandleConnect has returned; after an error the socket is closed at once.
Connected(c) ==
    /\ phase[c] = "connect"
    /\ \/ /\ inv[c].pc = "ok"
          /\ GoTo(c, "add")
          /\ UNCHANGED client
       \/ /\ inv[c].pc = "failed"
          /\ GoTo(c, "ended")
          /\ client' = [client EXCEPT ![c] = "closed"]
    /\ Begin(c, IdleInvocation)
    /\ UNCHANGED <<users, connections, readable, messages, joined, heard,
                   registry, writer, sendingTo>>

Add(c) ==
    /\ phase[c] = "add"
    /\ registry' = registry \cup {c}
    /\ GoTo(c, "serve")
    /\ UNCHANGED <<users, connections, readable, messages, inv, joined, heard,
                   writer, sendingTo, client>>

\* The goroutine waits in ReadMessage; what the client sent before it closed the
\* socket is still read.
Reading(c) ==
    /\ phase[c] = "serve"
    /\ inv[c] = IdleInvocation
    /\ sendingTo[c] = None

JoinRequest(c, r) ==
    /\ Reading(c)
    /\ Begin(c, Invocation("join", c, r, "get_room"))
    /\ UNCHANGED <<users, connections, readable, messages, joined, heard, localVars>>

\* sendMessage; the handler refuses an empty body before anything else.
SendRequest(c, r) ==
    /\ c \in Senders
    /\ Reading(c)
    /\ \/ MessagesLeft /\ Begin(c, Invocation("send", c, r, "get_conn"))
       \/ Begin(c, Invocation("send", c, r, "send_error"))
    /\ UNCHANGED <<users, connections, readable, messages, joined, heard, localVars>>

\* The pong goes through the registry like every other frame.
Ping(c) ==
    /\ c \in Pingers
    /\ Reading(c)
    /\ sendingTo' = [sendingTo EXCEPT ![c] = c]
    /\ UNCHANGED <<users, connections, readable, messages, inv, joined, heard,
                   phase, registry, writer, client>>

\* Mutant: the deferred function takes the socket out of the registry first.
RemoveFirst(c) ==
    /\ Reading(c)
    /\ client[c] = "closed"
    /\ registry' = registry \ {c}
    /\ GoTo(c, "clean_up")
    /\ Begin(c, Invocation("disconnect", c, None, "get_conn"))
    /\ UNCHANGED <<users, connections, readable, messages, joined, heard,
                   writer, sendingTo, client>>

\* ReadMessage fails: the loop ends and the deferred function calls
\* HandleDisconnect, while the socket is still in the registry.
ReadError(c) ==
    /\ Reading(c)
    /\ client[c] = "closed"
    /\ GoTo(c, "clean_up")
    /\ Begin(c, Invocation("disconnect", c, None, "get_conn"))
    /\ UNCHANGED <<users, connections, readable, messages, joined, heard,
                   registry, writer, sendingTo, client>>

\* HandleDisconnect has returned, with or without an error.
Remove(c) ==
    /\ phase[c] = "clean_up"
    /\ inv[c] = IdleInvocation
    /\ registry' = registry \ {c}
    /\ GoTo(c, "ended")
    /\ UNCHANGED <<users, connections, readable, messages, inv, joined, heard,
                   writer, sendingTo, client>>

(***************************************************************************)
(* ConnRegistry.Send.                                                      *)
(***************************************************************************)

\* The connections goroutine g may send to next: those left of a broadcast, or
\* its own for an ack or an error.
Addressees(g) ==
    CASE inv[g].pc = "post"                  -> inv[g].targets
      [] inv[g].pc \in {"ack", "send_error"} -> {g}
      [] OTHER                               -> {}

\* Send has returned, with or without an error: the loop of the broadcast, or
\* the handler, goes on.
Sent(g, d) ==
    \/ /\ inv[g].pc = "post"
       /\ inv' = [inv EXCEPT ![g] = Continue(@, @.targets \ {d})]
       /\ UNCHANGED <<users, connections, readable, messages, joined>>
    \/ /\ inv[g].pc = "ack"
       /\ SendAck(g)
    \/ /\ inv[g].pc = "send_error"
       /\ SendError(g)
    \/ /\ inv[g].pc = "idle"
       /\ UNCHANGED <<users, connections, readable, messages, inv, joined>>

\* The registry is asked for d; a connection it does not hold counts as sent.
LookUp(g) ==
    /\ sendingTo[g] = None
    /\ \E d \in Addressees(g) :
          \/ /\ d \in registry
             /\ sendingTo' = [sendingTo EXCEPT ![g] = d]
             /\ UNCHANGED <<users, connections, readable, messages, inv, joined>>
          \/ /\ d \notin registry
             /\ Sent(g, d)
             /\ UNCHANGED sendingTo
    /\ UNCHANGED <<heard, phase, registry, writer, client>>

LockEntry(g) ==
    /\ sendingTo[g] # None
    /\ writer[sendingTo[g]] = None
    /\ writer' = [writer EXCEPT ![sendingTo[g]] = g]
    /\ UNCHANGED <<users, connections, readable, messages, inv, joined, heard,
                   phase, registry, sendingTo, client>>

\* Mutant: the mutex is not released when the write fails.
KeepOnError(d) == IF client[d] = "closed" THEN writer ELSE [writer EXCEPT ![d] = None]

UnlockEntry(d) == [writer EXCEPT ![d] = None]

\* WriteMessage returns: at once when the client reads, with an error when the
\* socket is closed, and not before either while the client is stalled.
Write(g) ==
    /\ sendingTo[g] # None
    /\ writer[sendingTo[g]] = g
    /\ LET d == sendingTo[g] IN
          /\ client[d] # "stalled"
          /\ heard' = IF client[d] = "open" /\ inv[g].frame.type = "message"
                      THEN heard \cup {<<d, inv[g].frame.msg>>} ELSE heard
          /\ Sent(g, d)
          /\ writer' = UnlockEntry(d)
    /\ sendingTo' = [sendingTo EXCEPT ![g] = None]
    /\ UNCHANGED <<phase, registry, client>>

(***************************************************************************)
(* Clients, and the process.                                               *)
(***************************************************************************)
ClientDoes(c, from, to) ==
    /\ phase[c] # "new"
    /\ client[c] = from
    /\ client' = [client EXCEPT ![c] = to]
    /\ UNCHANGED <<users, connections, readable, messages, inv, joined, heard,
                   phase, registry, writer, sendingTo>>

Stall(c) == ClientDoes(c, "open", "stalled")

ReadAgain(c) == ClientDoes(c, "stalled", "open")

CloseSocket(c) == ClientDoes(c, "open", "closed") \/ ClientDoes(c, "stalled", "closed")

\* The process ends: goroutines, sockets and registry are gone, the tables stay.
Crash ==
    /\ "kill" \in Faults
    /\ \E c \in Conns : phase[c] \notin {"new"} \cup Gone
    /\ phase' = [c \in Conns |-> IF phase[c] \in {"new"} \cup Gone
                                 THEN phase[c] ELSE "lost"]
    /\ client' = [c \in Conns |-> IF phase[c] = "new" THEN client[c] ELSE "closed"]
    /\ inv' = [c \in Conns |-> IdleInvocation]
    /\ registry' = {}
    /\ writer' = [c \in Conns |-> None]
    /\ sendingTo' = [c \in Conns |-> None]
    /\ UNCHANGED <<users, connections, readable, messages, joined, heard>>

(***************************************************************************)
(* The specification.                                                      *)
(***************************************************************************)

\* A step of a handler that is not a send.
HandlerNext(g) ==
    /\ inv[g].pc \notin {"ack", "send_error"}
    /\ HandlerStep(g)
    /\ UNCHANGED localVars

GoroutineStep(g) ==
    \/ HandlerNext(g)
    \/ Connected(g) \/ Add(g) \/ Remove(g)
    \/ LookUp(g)

Next ==
    \/ \E g \in Conns : GoroutineStep(g) \/ ReadError(g) \/ LockEntry(g) \/ Write(g)
    \/ \E c \in Conns : Accept(c) \/ Ping(c) \/ Stall(c) \/ ReadAgain(c) \/ CloseSocket(c)
    \/ \E c \in Conns : \E r \in Asks[c] : JoinRequest(c, r) \/ SendRequest(c, r)
    \/ Crash

Spec == Init /\ [][Next]_vars

\* Goroutines run, and come to the end of what a closed socket still had to
\* read.  A sync.Mutex is handed to a waiter that starves.  Clients are assumed
\* to read again or to close: nothing in the code limits how long a write waits.
FairSpec ==
    /\ Spec
    /\ \A g \in Conns : WF_vars(GoroutineStep(g)) /\ SF_vars(ReadError(g))
    /\ \A g \in Conns : SF_vars(LockEntry(g) \/ Write(g))
    /\ \A c \in Conns : WF_vars(ReadAgain(c))

(***************************************************************************)
(* Properties.                                                             *)
(***************************************************************************)
TypeOK ==
    /\ HandlersTypeOK
    /\ phase \in [Conns -> Phases]
    /\ registry \subseteq Conns
    /\ writer \in [Conns -> Conns \cup {None}]
    /\ sendingTo \in [Conns -> Conns \cup {None}]
    /\ client \in [Conns -> Clients]

\* Requests of one connection never overlap, so that no row comes back once it
\* is deleted: rows and messages name the owner of the connection they are of.
OwnersNamed ==
    /\ \A c \in Conns : connections[c] # NoRow => connections[c].user = Owner[c]
    /\ \A m \in messages : m.user = Owner[m.from]

\* A connection that Send does not find has been taken out for good: rows are
\* deleted before the registry forgets them and are in no room before it has
\* them, so no frame to a connection being served is skipped as if delivered.
AddresseesRegistered ==
    \A g, d \in Conns :
        d \in inv[g].targets => d \in registry \/ phase[d] \in Gone

\* The mutex of an entry is held by a goroutine that is writing to that very
\* entry, so that nobody waits for one mutex while holding another.
MutexesInUse ==
    \A d \in Conns : writer[d] # None =>
        sendingTo[writer[d]] = d /\ phase[writer[d]] \in {"serve", "clean_up"}

\* The local server keeps the same promise as the deployed one.
Promise == INSTANCE ChatRooms WITH log <- messages

PromiseKept == Promise!Spec

\* A message about to be broadcast reaches every connection listed in its room
\* that is being served, unless its socket closes or it moves: no circle of
\* goroutines that wait for each other's clients, no mutex left held.
MessageReachesMembers ==
    \A d \in Conns, m \in Msgs :
        (\E g \in Conns : /\ inv[g].pc = "query" /\ inv[g].frame.msg = m
                          /\ Listed(connections[d], inv[g].frame.room) /\ phase[d] = "serve")
            ~> \/ <<d, m>> \in heard \/ client[d] = "closed"
               \/ \E x \in messages : x.id = m /\ ~Listed(connections[d], x.room)

\* A closed socket's goroutine comes to its end: its deferred function is not
\* held for ever behind the mutexes of the clients it has to tell.
ClosedSocketsEnd ==
    \A c \in Conns : client[c] = "closed" ~> phase[c] \in Gone

\* While the tables answer, only a process that ends leaves a row behind: every
\* goroutine that ran to its end has deleted the row it inserted, and no request
\* of it that was under way when the client left has put it back.
EndedWithoutRow ==
    \A c \in Conns : phase[c] = "ended" => connections[c] = NoRow

(***************************************************************************)
(* Why the safety properties hold: an inductive invariant.  A goroutine    *)
(* alone moves its phase, its row and its invocation, so that everything   *)
(* it has established about them is still true at its next call.           *)
(***************************************************************************)

\* The phases between registry.Add and registry.Remove.
Registered == {"serve", "clean_up"}

RowSound(c, row) ==
    row # NoRow =>
        /\ row.user = Owner[c]
        /\ row.room # None => <<c, row.room>> \in joined

RowsSound(c) ==
    /\ connections[c] \in readable[c]
    /\ \A row \in readable[c] : RowSound(c, row)
    /\ "stale" \notin Faults => readable[c] = {connections[c]}

Broadcasting == {"query", "post"}

\* Between two requests; a row that the clean-up left is one a call failed for.
IdleSound(c, v) ==
    /\ v = IdleInvocation
    /\ phase[c] # "connect"
    /\ phase[c] \in {"clean_up", "ended"} =>
          connections[c] = NoRow \/ Faults \cap {"db", "stale"} # {}

ConnectSound(c, v) ==
    /\ phase[c] = "connect"
    /\ v.pc \in {"upsert_user", "insert_conn", "ok", "failed"}
    /\ v.pc = "ok" => connections[c] # NoRow
    /\ v.pc = "failed" => "db" \in Faults

DisconnectSound(c, v) ==
    /\ phase[c] = "clean_up"
    /\ v.pc \in {"get_conn", "delete_conn"} \cup Broadcasting
    /\ connections[c] # NoRow
    /\ v.pc # "get_conn" /\ "stale" \notin Faults =>
          connections[c].room \in {None, v.room}

JoinSound(c, v) ==
    /\ phase[c] = "serve"
    /\ v.pc \in {"get_room", "get_conn", "set_room", "ack", "send_error"} \cup Broadcasting
    /\ v.room \in RoomIds
    /\ v.pc \notin {"get_room", "send_error"} => v.room \in Rooms
    /\ v.pc = "ack" => <<c, v.room>> \in joined
    /\ v.pc = "set_room" \/ v.frame.type = "user_left" =>
          "stale" \in Faults \/ connections[c].room \in {None, v.room, v.left}

SendSound(c, v) ==
    /\ phase[c] = "serve"
    /\ v.pc \in {"get_conn", "get_room", "insert_msg", "send_error"} \cup Broadcasting
    /\ v.room \in RoomIds
    /\ v.pc \in {"get_room", "insert_msg"} =>
          v.user = Owner[c] /\ <<c, v.room>> \in joined

BroadcastSound(c, v) ==
    IF v.pc \in Broadcasting
    THEN /\ v.frame \in Frame
         /\ <<c, v.frame.room>> \in joined
         /\ v.frame.type = "message" =>
               \E m \in messages : m.id = v.frame.msg /\ m.room = v.frame.room
         /\ \A d \in v.targets : <<d, v.frame.room>> \in joined
    ELSE v.frame = NoFrame /\ v.targets = {}

InvocationSound(c, v) ==
    /\ v.op = "none" => IdleSound(c, v)
    /\ v.op # "none" => v.conn = c
    /\ v.op = "connect" => ConnectSound(c, v)
    /\ v.op = "disconnect" => DisconnectSound(c, v)
    /\ v.op = "join" => JoinSound(c, v)
    /\ v.op = "send" => SendSound(c, v)
    /\ BroadcastSound(c, v)

\* A goroutine in Send is in its read loop, or sends what it broadcasts.
SendingSound(c) ==
    sendingTo[c] # None =>
        \/ phase[c] = "serve" /\ inv[c].pc \in {"idle", "ack", "send_error"}
        \/ inv[c].pc = "post" /\ sendingTo[c] \in inv[c].targets

GoroutineSound(c) ==
    /\ c \in registry <=> phase[c] \in Registered
    /\ phase[c] \in {"add", "serve"} => connections[c] # NoRow
    /\ \A r \in RoomIds : <<c, r>> \in joined =>
          r \in Rooms /\ phase[c] \in Registered \cup Gone
    /\ RowsSound(c)
    /\ InvocationSound(c, inv[c])
    /\ SendingSound(c)

\* The inductive invariant: the safety properties follow from it.
IInv ==
    /\ TypeOK
    /\ \A m \in messages : m.user = Owner[m.from]
    /\ \A c \in Conns : GoroutineSound(c)
    /\ MutexesInUse
================================================================================
