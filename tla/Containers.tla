------------------------------- MODULE Containers -------------------------------
(***************************************************************************)
(* The way of a request to its handler: auth.Middleware and the authorizer *)
(* Lambda, which check a token against the key set that fetchJWKS keeps,   *)
(* and db.Get, which keeps the DynamoDB client.  Both keep what their      *)
(* first call in a process gave, a failure too, behind a sync.Once.  A     *)
(* Lambda container runs one invocation at a time; the local server runs   *)
(* them all in one process, where callers wait for each other in Do.       *)
(***************************************************************************)
EXTENDS Naturals, FiniteSets

CONSTANTS
    Procs,      \* processes: containers of the Lambdas and local servers
    Kind,       \* Kind[p]: the program that p runs
    Keys,       \* signing keys the user pool may publish: bounds the rotations
    FirstKey,   \* the one it starts with
    Tokens,     \* tokens that clients present
    Reqs,       \* request slots: bounds the requests in flight
    Faults,     \* what may go wrong: see FaultKinds
    Failed,     \* an error
    Client,     \* the DynamoDB client
    None        \* an absent token, a key that is not the user pool's, no process

\* "net": the key set cannot be fetched; "config": no AWS configuration;
\* "kill": a container is cut short or recycled, a local server ends.
FaultKinds == {"net", "config", "kill"}

Kinds == {"ws-authorizer", "http-api", "ws-handler", "local"}

\* aud: the audience is this app's client; use: the claim token_use.
Token == [key : Keys \cup {None}, aud : BOOLEAN, use : {"id", "access"}]

ASSUME ContainersAssumption ==
    /\ Kind \in [Procs -> Kinds]
    /\ FirstKey \in Keys
    /\ Tokens \subseteq Token
    /\ Faults \subseteq FaultKinds
    /\ None \notin Keys \cup Procs \cup Tokens
    /\ Failed # Client /\ None \notin {Failed, Client}
    /\ \A S \in SUBSET Keys : S \notin {Failed, Client, None}

VARIABLES
    published,  \* keys that the user pool has published
    expired,    \* tokens past their lifetime
    up,         \* processes that take requests
    dev,        \* those that have LOCAL_DEV_USER in their environment
    once,       \* once[k]: the sync.Once of cell k
    cell,       \* cell[k]: what it guards, None before the first call is over
    req,        \* req[i]: the request in slot i
    told,       \* history: told[k], what cell k gave to its callers
    accepted    \* history: accepted[p], tokens accepted by process p

poolVars == <<published, expired>>
onceVars == <<once, cell, told>>
vars == <<published, expired, up, dev, once, cell, req, told, accepted>>

Cells == Procs \X {"jwks", "ddb"}

KeySets == SUBSET Keys

Results == {Client, Failed} \cup KeySets

\* A request of op in process proc: "authorize" is the authorizer's event,
\* "route" an HTTP route behind the middleware, "event" what goes to a WebSocket
\* handler.  at names the cell it asks, gone says that its client has left.
Request(op, proc, token, pc, at) ==
    [op |-> op, proc |-> proc, token |-> token, pc |-> pc, at |-> at,
     gone |-> FALSE, verdict |-> "none"]

IdleRequest == Request("none", None, None, "idle", "none")

Init ==
    /\ published = {FirstKey}
    /\ expired = {}
    /\ up = {p \in Procs : Kind[p] # "local"}
    /\ dev = {}
    /\ once = [k \in Cells |-> "new"]
    /\ cell = [k \in Cells |-> None]
    /\ req = [i \in Reqs |-> IdleRequest]
    /\ told = [k \in Cells |-> {}]
    /\ accepted = [p \in Procs |-> {}]

(***************************************************************************)
(* The user pool.                                                          *)
(***************************************************************************)
Publish(k) ==
    /\ k \in Keys \ published
    /\ published' = published \cup {k}
    /\ UNCHANGED <<expired, up, dev, onceVars, req, accepted>>

Expire(t) ==
    /\ t \in Tokens \ expired
    /\ expired' = expired \cup {t}
    /\ UNCHANGED <<published, up, dev, onceVars, req, accepted>>

(***************************************************************************)
(* Requests arrive.                                                        *)
(***************************************************************************)
Busy(p) == \E i \in Reqs : req[i].pc # "idle" /\ req[i].proc = p

Arrive(i, r) ==
    /\ req[i].pc = "idle"
    /\ r.proc \in up
    /\ Kind[r.proc] # "local" => ~Busy(r.proc)
    /\ req' = [req EXCEPT ![i] = r]
    /\ UNCHANGED <<poolVars, up, dev, onceVars, accepted>>

\* The gateway asks the authorizer only if there is a token.
ConnectAttempt(i, p, t) ==
    /\ Kind[p] = "ws-authorizer"
    /\ Arrive(i, Request("authorize", p, t, "auth", "none"))

\* A signed token of this app that has not expired, for any use.
GatewayAdmits(t) == t.key \in published /\ t.aud /\ t \notin expired

\* The HTTP gateway has an authorizer of its own; the local server has none.
CallRoute(i, p, t) ==
    /\ Kind[p] \in {"http-api", "local"}
    /\ Kind[p] = "http-api" => t # None /\ GatewayAdmits(t)
    /\ Arrive(i, Request("route", p, t, "auth", "none"))

\* An event of the WebSocket gateway, or a socket that the local server upgrades.
Event(i, p) ==
    /\ Kind[p] \in {"ws-handler", "local"}
    /\ Arrive(i, Request("event", p, None, "once", "ddb"))

(***************************************************************************)
(* sync.Once: the first caller runs the function, others wait until it has *)
(* returned.                                                               *)
(***************************************************************************)
CellOf(i) == <<req[i].proc, req[i].at>>

\* Mutant: a test for nil in place of the Once.
UntilSet(k) == cell[k] = None

\* Mutant: the function runs again after a failure.
UntilGood(k) == once[k] = "new" \/ (once[k] = "done" /\ cell[k] = Failed)

FirstCall(k) == once[k] = "new"

Do(i) ==
    /\ req[i].pc = "once"
    /\ FirstCall(CellOf(i))
    /\ once' = [once EXCEPT ![CellOf(i)] = "running"]
    /\ req' = [req EXCEPT ![i].pc = "run"]
    /\ UNCHANGED <<poolVars, up, dev, cell, told, accepted>>

\* jwk.Fetch with the context of this very request, which on the local server
\* ends when its client leaves.
Fetched(i) ==
    {published} \cup (IF "net" \in Faults \/ req[i].gone THEN {Failed} ELSE {})

\* Mutant: the error is lost, neither client nor error is kept.
LoadedQuietly == {Client} \cup (IF "config" \in Faults THEN {None} ELSE {})

\* config.LoadDefaultConfig.
Loaded == {Client} \cup (IF "config" \in Faults THEN {Failed} ELSE {})

\* Mutant: the early return leaves the callers waiting.
StuckOnError(result) == IF result = Failed THEN "running" ELSE "done"

Released(result) == "done"

\* The function returns, and with it Do, for everybody: "ran" tells the caller who
\* ran it from those who did not.
RunOnce(i) ==
    /\ req[i].pc = "run"
    /\ \E result \in IF req[i].at = "jwks" THEN Fetched(i) ELSE Loaded :
          /\ cell' = [cell EXCEPT ![CellOf(i)] = result]
          /\ once' = [once EXCEPT ![CellOf(i)] = Released(result)]
    /\ req' = [req EXCEPT ![i].pc = "ran"]
    /\ UNCHANGED <<poolVars, up, dev, told, accepted>>

\* Do has returned, the cell is read.
Passed(i, at) ==
    /\ req[i].pc \in {"once", "ran"}
    /\ req[i].at = at
    /\ once[CellOf(i)] = "done"
    /\ told' = [told EXCEPT ![CellOf(i)] = @ \cup {cell[CellOf(i)]}]

(***************************************************************************)
(* Middleware, the authorizer's handler, ValidateToken.                    *)
(***************************************************************************)
Conclude(i, verdict) ==
    req' = [req EXCEPT ![i].pc = "answer", ![i].verdict = verdict]

AskFor(i, at) == req' = [req EXCEPT ![i].pc = "once", ![i].at = at]

\* The development user takes the place of a token on HTTP routes; a request
\* without a token is refused before anything is fetched.
Middleware(i) ==
    /\ req[i].pc = "auth"
    /\ \/ /\ req[i].op = "route" /\ req[i].proc \in dev
          /\ AskFor(i, "ddb")
       \/ /\ ~(req[i].op = "route" /\ req[i].proc \in dev)
          /\ req[i].token = None
          /\ Conclude(i, "unauthorized")
       \/ /\ ~(req[i].op = "route" /\ req[i].proc \in dev)
          /\ req[i].token # None
          /\ AskFor(i, "jwks")
    /\ UNCHANGED <<poolVars, up, dev, onceVars, accepted>>

\* Mutant: the error of the fetch is dropped, and no keys verify nothing.
KeysOrAny(keys, t) == (keys # Failed => t.key \in keys) /\ t.aud /\ t.use = "id"

\* The token is signed by a key of the set, for this app, and an ID token.
Verified(keys, t) == keys # Failed /\ t.key \in keys /\ t.aud /\ t.use = "id"

ValidateToken(i) ==
    LET t == req[i].token
        p == req[i].proc
    IN
    /\ Passed(i, "jwks")
    /\ \/ /\ ~Verified(cell[CellOf(i)], t) \/ t \in expired
          /\ Conclude(i, "unauthorized")
          /\ UNCHANGED accepted
       \/ /\ Verified(cell[CellOf(i)], t) /\ t \notin expired
          /\ accepted' = [accepted EXCEPT ![p] = @ \cup {t}]
          /\ IF req[i].op = "authorize" THEN Conclude(i, "allowed") ELSE AskFor(i, "ddb")
    /\ UNCHANGED <<poolVars, up, dev, once, cell>>

\* db.Get: without a client every handler answers 500.
Get(i) ==
    /\ Passed(i, "ddb")
    /\ Conclude(i, IF cell[CellOf(i)] = Failed THEN "db unavailable" ELSE "served")
    /\ UNCHANGED <<poolVars, up, dev, once, cell, accepted>>

Answer(i) ==
    /\ req[i].pc = "answer"
    /\ req' = [req EXCEPT ![i] = IdleRequest]
    /\ UNCHANGED <<poolVars, up, dev, onceVars, accepted>>

(***************************************************************************)
(* Clients and processes.                                                  *)
(***************************************************************************)

\* The client of a route of the local server closes its connection: the context
\* of the request ends, the handler goes on.
Leave(i) ==
    /\ req[i].pc \in {"auth", "once", "run", "ran"}
    /\ req[i].op = "route" /\ Kind[req[i].proc] = "local" /\ ~req[i].gone
    /\ req' = [req EXCEPT ![i].gone = TRUE]
    /\ UNCHANGED <<poolVars, up, dev, onceVars, accepted>>

\* Mutant: main does not ask for the client.
StartAtOnce(p) ==
    /\ p \in Procs \ up
    /\ up' = up \cup {p}
    /\ dev' \in {dev, dev \cup {p}}
    /\ UNCHANGED <<poolVars, onceVars, req, accepted>>

\* main of the local server: db.Get first, and no server without a client.
Start(p) ==
    /\ p \in Procs \ up
    /\ up' = up \cup {p}
    /\ dev' \in {dev, dev \cup {p}}
    /\ once' = [once EXCEPT ![<<p, "ddb">>] = "done"]
    /\ cell' = [cell EXCEPT ![<<p, "ddb">>] = Client]
    /\ UNCHANGED <<poolVars, req, told, accepted>>

\* A container is recycled, or cut short by its timeout, or a local server ends:
\* its requests and all it kept are gone.  Lambda starts another in its place.
Kill(p) ==
    /\ "kill" \in Faults
    /\ p \in up
    /\ up' = IF Kind[p] = "local" THEN up \ {p} ELSE up
    /\ dev' = dev \ {p}
    /\ once' = [k \in Cells |-> IF k[1] = p THEN "new" ELSE once[k]]
    /\ cell' = [k \in Cells |-> IF k[1] = p THEN None ELSE cell[k]]
    /\ told' = [k \in Cells |-> IF k[1] = p THEN {} ELSE told[k]]
    /\ req' = [i \in Reqs |-> IF req[i].proc = p THEN IdleRequest ELSE req[i]]
    /\ accepted' = [accepted EXCEPT ![p] = {}]
    /\ UNCHANGED poolVars

(***************************************************************************)
(* The specification.                                                      *)
(***************************************************************************)
Step(i) ==
    \/ Middleware(i) \/ Do(i) \/ RunOnce(i)
    \/ ValidateToken(i) \/ Get(i) \/ Answer(i)

Next ==
    \/ \E k \in Keys : Publish(k)
    \/ \E t \in Tokens : Expire(t)
    \/ \E i \in Reqs, p \in Procs : Event(i, p)
    \/ \E i \in Reqs, p \in Procs, t \in Tokens : ConnectAttempt(i, p, t)
    \/ \E i \in Reqs, p \in Procs, t \in Tokens \cup {None} : CallRoute(i, p, t)
    \/ \E i \in Reqs : Step(i) \/ Leave(i)
    \/ \E p \in Procs : Start(p) \/ Kill(p)

Spec == Init /\ [][Next]_vars

\* Goroutines run, and a fetch comes to an end: with the key set, with an error,
\* or because its context ends.
FairSpec == Spec /\ \A i \in Reqs : WF_vars(Step(i))

(***************************************************************************)
(* Properties.                                                             *)
(***************************************************************************)
TypeOK ==
    /\ published \subseteq Keys
    /\ expired \subseteq Tokens
    /\ up \subseteq Procs /\ dev \subseteq up
    /\ once \in [Cells -> {"new", "running", "done"}]
    /\ cell \in [Cells -> {None} \cup Results]
    /\ \A p \in Procs : /\ cell[<<p, "jwks">>] \in {Failed, None} \cup KeySets
                        /\ cell[<<p, "ddb">>] \in {Client, Failed, None}
    /\ \A k \in Cells : once[k] = "done" <=> cell[k] # None
    /\ told \in [Cells -> SUBSET Results]
    /\ accepted \in [Procs -> SUBSET Tokens]
    /\ req \in [Reqs ->
         [op : {"none", "authorize", "route", "event"}, proc : Procs \cup {None},
          token : Tokens \cup {None}, pc : {"idle", "auth", "once", "run", "ran", "answer"},
          at : {"none", "jwks", "ddb"}, gone : BOOLEAN,
          verdict : {"none", "unauthorized", "allowed", "db unavailable", "served"}]]

\* Whatever was accepted was an ID token for this app, signed by a key that the
\* user pool has published, also where the key set could not be fetched.
AcceptedGenuine ==
    \A p \in Procs, t \in Tokens :
        t \in accepted[p] => t.key \in published /\ t.aud /\ t.use = "id"

\* While a token lasts, a process gives it one verdict: what it accepted once it
\* refuses only when it has expired, however many first requests raced.
OneVerdict ==
    \A i \in Reqs :
        req[i].verdict = "unauthorized" /\ req[i].token # None =>
            \/ req[i].token \notin accepted[req[i].proc]
            \/ req[i].token \in expired

\* A local server that takes requests has a client object, because its main stops
\* without one: none of its requests is told that there is none.  That DynamoDB can
\* be reached is another matter: db.Get loads configuration and contacts nobody.
LocalHasClient ==
    \A i \in Reqs :
        req[i].verdict = "db unavailable" => Kind[req[i].proc] # "local"

\* "Called at most once per container": the two caches, as their callers see them.
Promise == INSTANCE OnceCells WITH value <- cell, Unset <- None

CellsKept == Promise!Spec

\* Every request is answered, or its process ends: nobody waits in Do for good.
EveryRequestEnds == \A i \in Reqs : req[i].pc # "idle" ~> req[i].pc = "idle"

\* Why they hold, as an inductive invariant.  What a cell told, and every verdict
\* that came of it, agrees with what the cell has now; a cell that is empty has
\* told nothing, and those of a process that takes no requests are empty.
CellSound(k) ==
    /\ once[k] = "done" <=> cell[k] # None
    /\ told[k] \subseteq {cell[k]} \ {None}
    /\ k[1] \notin up => once[k] = "new"

KeysOf(p) == cell[<<p, "jwks">>]

Formed(v) ==
    v = [op |-> v.op, proc |-> v.proc, token |-> v.token, pc |-> v.pc,
         at |-> v.at, gone |-> v.gone, verdict |-> v.verdict]

RequestSound(v) ==
    /\ Formed(v)
    /\ v.pc # "idle" => v.proc \in up
    /\ v.verdict # "none" => v.pc = "answer"
    /\ v.pc \in {"once", "run", "ran"} => v.at \in {"jwks", "ddb"}
    /\ v.token \in Tokens \cup {None}
    /\ v.at = "jwks" => v.token # None
    /\ v.verdict = "db unavailable" => cell[<<v.proc, "ddb">>] = Failed
    /\ v.verdict = "unauthorized" /\ v.token \notin expired \cup {None} =>
          KeysOf(v.proc) # None /\ ~Verified(KeysOf(v.proc), v.token)

Runs(i, k) == req[i].pc = "run" /\ CellOf(i) = k

\* sync.Once, while a call of Do is under way: one caller is inside the function.
RunnerInside ==
    \A k \in Cells :
        /\ once[k] = "running" <=> \E i \in Reqs : Runs(i, k)
        /\ \A i, j \in Reqs : Runs(i, k) /\ Runs(j, k) => i = j

CellsSound ==
    /\ published \subseteq Keys
    /\ up \subseteq Procs
    /\ once \in [Cells -> {"new", "running", "done"}]
    /\ cell \in [Cells -> {None} \cup Results]
    /\ told \in [Cells -> SUBSET Results]
    /\ accepted \in [Procs -> SUBSET Tokens]
    /\ req = [i \in Reqs |-> req[i]]
    /\ \A k \in Cells : CellSound(k)
    /\ \A p \in up : Kind[p] = "local" => cell[<<p, "ddb">>] = Client
    /\ \A p \in Procs : \A t \in accepted[p] :
          KeysOf(p) # None /\ Verified(KeysOf(p), t)
    /\ \A i \in Reqs : RequestSound(req[i])
    /\ RunnerInside

\* "Returns 401 if the token is missing or invalid": a request that does not fetch
\* the key set itself is not refused for anything but its token.
OnlyInvalidRefused ==
    [][\A i \in Reqs :
          req[i].pc = "once" /\ req'[i].verdict = "unauthorized" =>
              req[i].token \in expired \/ ~Verified(published, req[i].token)]_vars
================================================================================
