--------------------------- MODULE Containers_proofs ---------------------------
(***************************************************************************)
(* Containers for any processes, keys, tokens and requests in flight:      *)
(* CellsSound is inductive, the caches implement OnceCells, and verdicts   *)
(* do not change while a token lasts.                                      *)
(***************************************************************************)
EXTENDS Containers, TLAPS

USE ContainersAssumption

\* A record with one field changed.
LEMMA PcSet ==
    ASSUME NEW v, Formed(v), NEW x, NEW w, w = [v EXCEPT !.pc = x]
    PROVE  /\ Formed(w)
           /\ w.pc = x /\ w.op = v.op /\ w.proc = v.proc /\ w.token = v.token
           /\ w.at = v.at /\ w.gone = v.gone /\ w.verdict = v.verdict
BY DEF Formed

\* The same of the field at.
LEMMA AtSet ==
    ASSUME NEW v, Formed(v), NEW x, NEW w, w = [v EXCEPT !.at = x]
    PROVE  /\ Formed(w)
           /\ w.at = x /\ w.op = v.op /\ w.proc = v.proc /\ w.token = v.token
           /\ w.pc = v.pc /\ w.gone = v.gone /\ w.verdict = v.verdict
BY DEF Formed

\* The same of the field verdict.
LEMMA VerdictSet ==
    ASSUME NEW v, Formed(v), NEW x, NEW w, w = [v EXCEPT !.verdict = x]
    PROVE  /\ Formed(w)
           /\ w.verdict = x /\ w.op = v.op /\ w.proc = v.proc /\ w.token = v.token
           /\ w.pc = v.pc /\ w.gone = v.gone /\ w.at = v.at
BY DEF Formed

\* An idle request is sound.
LEMMA IdleSound ==
    /\ RequestSound(IdleRequest)
    /\ IdleRequest.pc = "idle"
    /\ IdleRequest.verdict = "none"
<1> PICK v : v = IdleRequest
    OBVIOUS
<1>1. /\ Formed(v) /\ v.pc = "idle" /\ v.verdict = "none"
      /\ v.token = None /\ v.at = "none"
    BY DEF IdleRequest, Request, Formed
<1>2. RequestSound(v)
    BY <1>1 DEF RequestSound
<1> QED  BY <1>1, <1>2

\* No result is None.
LEMMA NoneIsNoResult == None \notin Results
BY DEF Results, KeySets

\* CellsSound holds in the initial states.
LEMMA InitSound == Init => CellsSound
<1> SUFFICES ASSUME Init PROVE CellsSound
    OBVIOUS
<1>1. \A i \in Reqs : req[i] = IdleRequest
    BY DEF Init
<1>2. \A i \in Reqs : RequestSound(req[i])
    BY <1>1, IdleSound
<1>3. RunnerInside
    <2>1. \A i \in Reqs : req[i].pc = "idle"
        BY <1>1, IdleSound
    <2> QED  BY <2>1 DEF RunnerInside, Runs, Init
<1>4. \A k \in Cells : CellSound(k)
    BY DEF Init, CellSound
<1> QED  BY <1>2, <1>3, <1>4 DEF CellsSound, Init

\* Requests stay sound while the cells stay as they are and tokens expire.
LEMMA SoundAfter ==
    ASSUME UNCHANGED <<up, cell>>, expired \subseteq expired',
           \A i \in Reqs : RequestSound(req'[i])
    PROVE  (\A i \in Reqs : RequestSound(req[i]))'
<1> SUFFICES ASSUME NEW i \in Reqs PROVE RequestSound(req[i])'
    OBVIOUS
<1> PICK v : v = req'[i]
    OBVIOUS
<1>1. RequestSound(v)
    OBVIOUS
<1>2. UNCHANGED <<up, cell>> /\ expired \subseteq expired'
    OBVIOUS
<1>3. RequestSound(v)'
    BY <1>1, <1>2 DEF RequestSound, KeysOf
<1> QED  BY <1>3

\* A step that changes one request only, without letting it into the function of
\* a Once or out of it, and tells no more than what a cell has.
LEMMA RequestStep ==
    ASSUME CellsSound, NEW i \in Reqs, NEW w,
           req' = [req EXCEPT ![i] = w],
           UNCHANGED <<published, expired, up, once, cell>>,
           told' \in [Cells -> SUBSET Results],
           \A k \in Cells : told'[k] \subseteq {cell[k]} \ {None},
           accepted' \in [Procs -> SUBSET Tokens],
           \A p \in Procs : \A t \in accepted'[p] :
              KeysOf(p) # None /\ Verified(KeysOf(p), t),
           RequestSound(w),
           w.pc = "run" <=> req[i].pc = "run",
           w.pc = "run" => w.proc = req[i].proc /\ w.at = req[i].at
    PROVE  CellsSound'
<1>1. \A j \in Reqs : req'[j] = IF j = i THEN w ELSE req[j]
    BY DEF CellsSound
<1>2. \A j \in Reqs : RequestSound(req'[j])
    BY <1>1 DEF CellsSound
<1>3. (\A j \in Reqs : RequestSound(req[j]))'
    BY <1>2, SoundAfter
<1>4. \A k \in Cells : CellSound(k)'
    BY DEF CellsSound, CellSound
<1>5. \A j \in Reqs, k \in Cells : Runs(j, k)' <=> Runs(j, k)
    BY <1>1 DEF Runs, CellOf
<1>6. RunnerInside'
    BY <1>5 DEF CellsSound, RunnerInside
<1>7. (req = [j \in Reqs |-> req[j]])'
    BY DEF CellsSound
<1>8. (\A p \in Procs : \A t \in accepted[p] : KeysOf(p) # None /\ Verified(KeysOf(p), t))'
    BY DEF KeysOf
<1> QED  BY <1>3, <1>4, <1>6, <1>7, <1>8 DEF CellsSound

\* The user pool publishes a key or a token expires.
LEMMA PoolSound ==
    ASSUME CellsSound, UNCHANGED <<up, once, cell, req, told, accepted>>,
           published' \subseteq Keys, expired \subseteq expired'
    PROVE  CellsSound'
<1>1. (\A j \in Reqs : RequestSound(req[j]))'
    BY SoundAfter DEF CellsSound
<1>2. (\A k \in Cells : CellSound(k))'
    BY DEF CellsSound, CellSound
<1>3. RunnerInside'
    BY DEF CellsSound, RunnerInside, Runs, CellOf
<1>4. (\A p \in Procs : \A t \in accepted[p] : KeysOf(p) # None /\ Verified(KeysOf(p), t))'
    BY DEF CellsSound, KeysOf
<1> QED  BY <1>1, <1>2, <1>3, <1>4 DEF CellsSound

\* A request arrives at a process that takes requests.
LEMMA ArriveSound ==
    ASSUME CellsSound, NEW i \in Reqs, NEW op, NEW p, NEW token, NEW pc, NEW at,
           Arrive(i, Request(op, p, token, pc, at)),
           pc \in {"auth", "once"}, pc = "once" => at = "ddb",
           at # "jwks", token \in Tokens \cup {None}
    PROVE  CellsSound'
<1> PICK w : w = Request(op, p, token, pc, at)
    OBVIOUS
<1>1. /\ Formed(w)
      /\ w.proc = p /\ w.token = token /\ w.pc = pc /\ w.at = at /\ w.verdict = "none"
    BY DEF Request, Formed
<1>2. /\ req' = [req EXCEPT ![i] = w] /\ w.proc \in up /\ req[i].pc = "idle"
      /\ UNCHANGED <<published, expired, up, once, cell, told, accepted>>
    BY DEF Arrive, poolVars, onceVars
<1>3. RequestSound(w)
    BY <1>1, <1>2 DEF RequestSound
<1>4. /\ told' \in [Cells -> SUBSET Results]
      /\ accepted' \in [Procs -> SUBSET Tokens]
      /\ \A k \in Cells : told'[k] \subseteq {cell[k]} \ {None}
      /\ \A q \in Procs : \A t \in accepted'[q] :
            KeysOf(q) # None /\ Verified(KeysOf(q), t)
    BY <1>2 DEF CellsSound, CellSound
<1> QED  BY <1>1, <1>2, <1>3, <1>4, RequestStep

\* A request asks for a cell: it waits in Do.
LEMMA AskForFields ==
    ASSUME CellsSound, NEW i \in Reqs, NEW at \in {"jwks", "ddb"}, AskFor(i, at),
           req[i].pc # "idle", req[i].pc # "answer", at = "jwks" => req[i].token # None
    PROVE  \E w : /\ req' = [req EXCEPT ![i] = w] /\ RequestSound(w) /\ w.pc = "once"
<1> PICK v : v = req[i]
    OBVIOUS
<1> PICK u : u = [v EXCEPT !.pc = "once"]
    OBVIOUS
<1> PICK w : w = [u EXCEPT !.at = at]
    OBVIOUS
<1>1. RequestSound(v)
    BY DEF CellsSound
<1>2. req' = [req EXCEPT ![i] = w]
    BY DEF AskFor
<1>3. /\ Formed(w) /\ w.pc = "once" /\ w.at = at
      /\ w.proc = v.proc /\ w.token = v.token /\ w.verdict = v.verdict
    <2>1. Formed(v)
        BY <1>1 DEF RequestSound
    <2>2. /\ Formed(u) /\ u.pc = "once"
          /\ u.proc = v.proc /\ u.token = v.token /\ u.verdict = v.verdict
        BY ONLY <2>1, u = [v EXCEPT !.pc = "once"], PcSet
    <2> QED  BY ONLY <2>2, w = [u EXCEPT !.at = at], AtSet
<1>4. v.pc # "idle" /\ v.pc # "answer" /\ (at = "jwks" => v.token # None)
    OBVIOUS
<1>5. RequestSound(w)
    BY <1>1, <1>3, <1>4 DEF RequestSound
<1> QED  BY <1>2, <1>3, <1>5

\* A request gets its verdict.
LEMMA ConcludeFields ==
    ASSUME CellsSound, NEW i \in Reqs, NEW verdict, Conclude(i, verdict),
           req[i].pc # "idle",
           verdict = "db unavailable" => cell[<<req[i].proc, "ddb">>] = Failed,
           verdict = "unauthorized" /\ req[i].token \notin expired \cup {None} =>
              KeysOf(req[i].proc) # None /\ ~Verified(KeysOf(req[i].proc), req[i].token)
    PROVE  \E w : /\ req' = [req EXCEPT ![i] = w] /\ RequestSound(w) /\ w.pc = "answer"
<1> PICK v : v = req[i]
    OBVIOUS
<1> PICK u : u = [v EXCEPT !.pc = "answer"]
    OBVIOUS
<1> PICK w : w = [u EXCEPT !.verdict = verdict]
    OBVIOUS
<1>1. RequestSound(v)
    BY DEF CellsSound
<1>2. req' = [req EXCEPT ![i] = w]
    BY DEF Conclude
<1>3. /\ v.pc # "idle"
      /\ verdict = "db unavailable" => cell[<<v.proc, "ddb">>] = Failed
      /\ verdict = "unauthorized" /\ v.token \notin expired \cup {None} =>
            KeysOf(v.proc) # None /\ ~Verified(KeysOf(v.proc), v.token)
    OBVIOUS
<1>4. /\ Formed(w) /\ w.pc = "answer" /\ w.proc = v.proc
      /\ w.token = v.token /\ w.at = v.at /\ w.verdict = verdict
    <2>1. Formed(v)
        BY <1>1 DEF RequestSound
    <2>2. /\ Formed(u) /\ u.pc = "answer" /\ u.proc = v.proc
          /\ u.token = v.token /\ u.at = v.at
        BY ONLY <2>1, u = [v EXCEPT !.pc = "answer"], PcSet
    <2> QED  BY ONLY <2>2, w = [u EXCEPT !.verdict = verdict], VerdictSet
<1>5. RequestSound(w)
    BY <1>1, <1>3, <1>4 DEF RequestSound
<1> QED  BY <1>2, <1>4, <1>5

\* What a step that leaves cells and histories alone keeps of them.
LEMMA HistoriesKept ==
    ASSUME CellsSound, UNCHANGED <<cell, told, accepted>>
    PROVE  /\ told' \in [Cells -> SUBSET Results]
           /\ accepted' \in [Procs -> SUBSET Tokens]
           /\ \A k \in Cells : told'[k] \subseteq {cell[k]} \ {None}
           /\ \A q \in Procs : \A t \in accepted'[q] :
                 KeysOf(q) # None /\ Verified(KeysOf(q), t)
BY DEF CellsSound, CellSound

\* The middleware.
LEMMA MiddlewareSound ==
    ASSUME CellsSound, NEW i \in Reqs, Middleware(i)
    PROVE  CellsSound'
<1>1. /\ req[i].pc = "auth"
      /\ UNCHANGED <<published, expired, up, once, cell, told, accepted>>
    BY DEF Middleware, poolVars, onceVars
<1>2. \E w : /\ req' = [req EXCEPT ![i] = w] /\ RequestSound(w)
             /\ w.pc \in {"once", "answer"}
    <2>1. CASE AskFor(i, "ddb") \/ (req[i].token # None /\ AskFor(i, "jwks"))
        BY <1>1, <2>1, AskForFields
    <2>2. CASE req[i].token = None /\ Conclude(i, "unauthorized")
        BY <1>1, <2>2, ConcludeFields
    <2> QED  BY <2>1, <2>2 DEF Middleware
<1> QED  BY <1>1, <1>2, RequestStep, HistoriesKept

\* The result of a Once is told to a caller.
LEMMA PassedTells ==
    ASSUME CellsSound, NEW i \in Reqs, NEW at, Passed(i, at)
    PROVE  /\ req[i].pc \in {"once", "ran"} /\ req[i].at = at /\ at \in {"jwks", "ddb"}
           /\ req[i].proc \in Procs /\ CellOf(i) = <<req[i].proc, at>>
           /\ CellOf(i) \in Cells /\ cell[CellOf(i)] # None
           /\ told' \in [Cells -> SUBSET Results]
           /\ \A k \in Cells : told'[k] \subseteq {cell[k]} \ {None}
           /\ told' = [told EXCEPT ![CellOf(i)] = @ \cup {cell[CellOf(i)]}]
<1>1. RequestSound(req[i]) /\ req[i].pc \in {"once", "ran"} /\ req[i].at = at
    BY DEF CellsSound, Passed
<1>2. /\ req[i].proc \in Procs /\ at \in {"jwks", "ddb"}
      /\ CellOf(i) = <<req[i].proc, at>> /\ CellOf(i) \in Cells
    BY <1>1 DEF RequestSound, CellsSound, CellOf, Cells
<1>3. cell[CellOf(i)] # None /\ cell[CellOf(i)] \in Results
    BY <1>2 DEF Passed, CellsSound, CellSound
<1>4. told' = [told EXCEPT ![CellOf(i)] = @ \cup {cell[CellOf(i)]}]
    BY DEF Passed
<1>5. told \in [Cells -> SUBSET Results] /\ \A k \in Cells : told[k] \subseteq {cell[k]} \ {None}
    BY DEF CellsSound, CellSound
<1> QED  BY <1>1, <1>2, <1>3, <1>4, <1>5

\* ValidateToken.
LEMMA ValidateTokenSound ==
    ASSUME CellsSound, NEW i \in Reqs, ValidateToken(i)
    PROVE  CellsSound'
<1> DEFINE t == req[i].token
           p == req[i].proc
<1>1. Passed(i, "jwks") /\ UNCHANGED <<published, expired, up, once, cell>>
    BY DEF ValidateToken, poolVars
<1>2. /\ req[i].pc \in {"once", "ran"} /\ p \in Procs
      /\ cell[CellOf(i)] = KeysOf(p) /\ KeysOf(p) # None
      /\ told' \in [Cells -> SUBSET Results]
      /\ \A k \in Cells : told'[k] \subseteq {cell[k]} \ {None}
    BY <1>1, PassedTells DEF KeysOf
<1>3. /\ accepted \in [Procs -> SUBSET Tokens]
      /\ \A q \in Procs : \A u \in accepted[q] : KeysOf(q) # None /\ Verified(KeysOf(q), u)
    BY DEF CellsSound
<1>4. CASE /\ ~Verified(KeysOf(p), t) \/ t \in expired
           /\ Conclude(i, "unauthorized")
           /\ UNCHANGED accepted
    <2>1. \E w : /\ req' = [req EXCEPT ![i] = w] /\ RequestSound(w) /\ w.pc = "answer"
        BY <1>2, <1>4, ConcludeFields
    <2> QED  BY <1>1, <1>2, <1>3, <1>4, <2>1, RequestStep
<1>5. CASE /\ Verified(KeysOf(p), t) /\ t \notin expired
           /\ accepted' = [accepted EXCEPT ![p] = @ \cup {t}]
           /\ Conclude(i, "allowed") \/ AskFor(i, "ddb")
    <2>1. \E w : /\ req' = [req EXCEPT ![i] = w] /\ RequestSound(w)
                 /\ w.pc \in {"once", "answer"}
        BY <1>2, <1>5, ConcludeFields, AskForFields
    <2>2. t \in Tokens
        BY <1>2, <1>1 DEF CellsSound, RequestSound, Passed
    <2>3. /\ accepted' \in [Procs -> SUBSET Tokens]
          /\ \A q \in Procs : \A u \in accepted'[q] : KeysOf(q) # None /\ Verified(KeysOf(q), u)
        BY <1>2, <1>3, <1>5, <2>2
    <2> QED  BY <1>1, <1>2, <2>1, <2>3, RequestStep
<1> QED  BY <1>2, <1>4, <1>5 DEF ValidateToken

\* db.Get.
LEMMA GetSound ==
    ASSUME CellsSound, NEW i \in Reqs, Get(i)
    PROVE  CellsSound'
<1>1. /\ Passed(i, "ddb") /\ UNCHANGED <<published, expired, up, once, cell, accepted>>
      /\ Conclude(i, IF cell[CellOf(i)] = Failed THEN "db unavailable" ELSE "served")
    BY DEF Get, poolVars
<1>2. /\ req[i].pc \in {"once", "ran"} /\ CellOf(i) = <<req[i].proc, "ddb">>
      /\ told' \in [Cells -> SUBSET Results]
      /\ \A k \in Cells : told'[k] \subseteq {cell[k]} \ {None}
    BY <1>1, PassedTells
<1>3. /\ accepted' \in [Procs -> SUBSET Tokens]
      /\ \A q \in Procs : \A u \in accepted'[q] : KeysOf(q) # None /\ Verified(KeysOf(q), u)
    BY <1>1 DEF CellsSound
<1>4. \E w : /\ req' = [req EXCEPT ![i] = w] /\ RequestSound(w) /\ w.pc = "answer"
    <2> DEFINE verdict == IF cell[CellOf(i)] = Failed THEN "db unavailable" ELSE "served"
    <2>1. /\ verdict # "unauthorized"
          /\ verdict = "db unavailable" => cell[<<req[i].proc, "ddb">>] = Failed
        BY <1>2
    <2>2. Conclude(i, verdict)
        BY <1>1
    <2> HIDE DEF verdict
    <2> QED  BY <1>2, <2>1, <2>2, ConcludeFields
<1> QED  BY <1>1, <1>2, <1>3, <1>4, RequestStep

\* The answer is sent.
LEMMA AnswerSound ==
    ASSUME CellsSound, NEW i \in Reqs, Answer(i)
    PROVE  CellsSound'
<1>1. /\ req[i].pc = "answer" /\ req' = [req EXCEPT ![i] = IdleRequest]
      /\ UNCHANGED <<published, expired, up, once, cell, told, accepted>>
    BY DEF Answer, poolVars, onceVars
<1> QED  BY <1>1, IdleSound, HistoriesKept, RequestStep

\* A client leaves.
LEMMA LeaveSound ==
    ASSUME CellsSound, NEW i \in Reqs, Leave(i)
    PROVE  CellsSound'
<1> PICK v : v = req[i]
    OBVIOUS
<1> PICK w : w = [v EXCEPT !.gone = TRUE]
    OBVIOUS
<1>1. /\ req' = [req EXCEPT ![i] = w]
      /\ UNCHANGED <<published, expired, up, once, cell, told, accepted>>
    BY DEF Leave, poolVars, onceVars
<1>2. RequestSound(v)
    BY DEF CellsSound
<1>3. /\ Formed(w)
      /\ w.pc = v.pc /\ w.op = v.op /\ w.proc = v.proc /\ w.token = v.token
      /\ w.at = v.at /\ w.verdict = v.verdict
    <2>1. Formed(v)
        BY <1>2 DEF RequestSound
    <2> QED  BY <2>1 DEF Formed
<1>4. RequestSound(w)
    BY <1>2, <1>3 DEF RequestSound
<1> QED  BY <1>1, <1>3, <1>4, HistoriesKept, RequestStep

\* The first caller of a Once goes into its function.
LEMMA DoSound ==
    ASSUME CellsSound, NEW i \in Reqs, Do(i)
    PROVE  CellsSound'
<1> DEFINE k == CellOf(i)
<1> PICK v : v = req[i]
    OBVIOUS
<1> PICK w : w = [v EXCEPT !.pc = "run"]
    OBVIOUS
<1>1. /\ v.pc = "once" /\ once[k] = "new"
      /\ once' = [once EXCEPT ![k] = "running"]
      /\ req' = [req EXCEPT ![i] = w]
      /\ UNCHANGED <<published, expired, up, cell, told, accepted>>
    BY DEF Do, FirstCall, poolVars
<1>2. RequestSound(v)
    BY DEF CellsSound
<1>3. /\ Formed(w) /\ w.pc = "run" /\ w.proc = v.proc /\ w.token = v.token
      /\ w.at = v.at /\ w.verdict = v.verdict
    <2>1. Formed(v)
        BY <1>2 DEF RequestSound
    <2> QED  BY ONLY <2>1, w = [v EXCEPT !.pc = "run"], PcSet
<1>4. RequestSound(w)
    BY <1>1, <1>2, <1>3 DEF RequestSound
<1>5. \A j \in Reqs : req'[j] = IF j = i THEN w ELSE req[j]
    BY <1>1 DEF CellsSound
<1>6. (\A j \in Reqs : RequestSound(req[j]))'
    <2>1. \A j \in Reqs : RequestSound(req'[j])
        BY <1>4, <1>5 DEF CellsSound
    <2> QED  BY <1>1, <2>1, SoundAfter
<1>7. k \in Cells /\ v.proc \in up
    BY <1>1, <1>2 DEF CellOf, Cells, RequestSound, CellsSound
<1>8. \A l \in Cells : once'[l] = IF l = k THEN "running" ELSE once[l]
    BY <1>1 DEF CellsSound
<1>9. (\A l \in Cells : CellSound(l))'
    <2>1. k[1] \in up
        BY <1>7 DEF CellOf
    <2> QED  BY <1>1, <1>7, <1>8, <2>1 DEF CellsSound, CellSound
<1>10. \A j \in Reqs, l \in Cells : Runs(j, l)' <=> Runs(j, l) \/ (j = i /\ l = k)
    <2>1. \A l \in Cells : Runs(i, l)' <=> l = k
        BY <1>3, <1>5 DEF Runs, CellOf
    <2>2. \A j \in Reqs \ {i}, l \in Cells : Runs(j, l)' <=> Runs(j, l)
        BY <1>5 DEF Runs, CellOf
    <2>3. \A l \in Cells : ~Runs(i, l)
        BY <1>1 DEF Runs
    <2> QED  BY <2>1, <2>2, <2>3
<1>11. RunnerInside'
    <2>1. \A j \in Reqs : ~Runs(j, k)
        BY <1>1, <1>7 DEF CellsSound, RunnerInside
    <2> QED  BY <1>8, <1>10, <2>1 DEF CellsSound, RunnerInside
<1>12. (\A p \in Procs : \A t \in accepted[p] : KeysOf(p) # None /\ Verified(KeysOf(p), t))'
    BY <1>1 DEF CellsSound, KeysOf
<1>13. (req = [j \in Reqs |-> req[j]])' /\ once' \in [Cells -> {"new", "running", "done"}]
    BY <1>1, <1>7 DEF CellsSound
<1> QED  BY <1>1, <1>6, <1>9, <1>11, <1>12, <1>13 DEF CellsSound

\* The function of a Once returns: the cell has its result.
LEMMA RunOnceSound ==
    ASSUME CellsSound, NEW i \in Reqs, RunOnce(i)
    PROVE  CellsSound'
<1> DEFINE k == CellOf(i)
<1> PICK v : v = req[i]
    OBVIOUS
<1> PICK w : w = [v EXCEPT !.pc = "ran"]
    OBVIOUS
<1>1. PICK result \in IF v.at = "jwks" THEN Fetched(i) ELSE Loaded :
         /\ cell' = [cell EXCEPT ![k] = result]
         /\ once' = [once EXCEPT ![k] = "done"]
    BY DEF RunOnce, Released
<1>2. /\ v.pc = "run" /\ req' = [req EXCEPT ![i] = w]
      /\ UNCHANGED <<published, expired, up, told, accepted>>
    BY DEF RunOnce, poolVars
<1>3. RequestSound(v)
    BY DEF CellsSound
<1>4. k = <<v.proc, v.at>> /\ k \in Cells /\ v.proc \in up
    BY <1>2, <1>3 DEF CellOf, Cells, RequestSound, CellsSound
<1>5. once[k] = "running" /\ cell[k] = None /\ \A j \in Reqs : Runs(j, k) => j = i
    <2>1. Runs(i, k)
        BY <1>2 DEF Runs
    <2> QED  BY <1>4, <2>1 DEF CellsSound, RunnerInside, CellSound
<1>6. result \in Results /\ result # None
    <2>1. result \in Results
        BY <1>1 DEF Fetched, Loaded, Results, KeySets, CellsSound
    <2> QED  BY <2>1, NoneIsNoResult
<1>7. /\ \A l \in Cells : cell'[l] = IF l = k THEN result ELSE cell[l]
      /\ \A l \in Cells : once'[l] = IF l = k THEN "done" ELSE once[l]
      /\ \A j \in Reqs : req'[j] = IF j = i THEN w ELSE req[j]
    BY <1>1, <1>2 DEF CellsSound
<1>8. /\ Formed(w) /\ w.pc = "ran" /\ w.proc = v.proc /\ w.token = v.token
      /\ w.at = v.at /\ w.verdict = v.verdict
    <2>1. Formed(v)
        BY <1>3 DEF RequestSound
    <2> QED  BY ONLY <2>1, w = [v EXCEPT !.pc = "ran"], PcSet
<1>9. \A p \in Procs : <<p, "jwks">> \in Cells /\ <<p, "ddb">> \in Cells
    BY DEF Cells
<1>10. \A p \in Procs : KeysOf(p) # None => KeysOf(p)' = KeysOf(p)
    BY <1>5, <1>7, <1>9 DEF KeysOf
<1>11. \A p \in Procs : cell[<<p, "ddb">>] # None => cell'[<<p, "ddb">>] = cell[<<p, "ddb">>]
    BY <1>5, <1>7, <1>9
<1>12. RequestSound(w)
    BY <1>2, <1>3, <1>8 DEF RequestSound
<1>13. (\A j \in Reqs : RequestSound(req[j]))'
    <2> SUFFICES ASSUME NEW j \in Reqs PROVE RequestSound(req[j])'
        OBVIOUS
    <2> PICK x : x = req'[j]
        OBVIOUS
    <2>1. RequestSound(x)
        BY <1>7, <1>12 DEF CellsSound
    <2>2. x.pc # "idle" => x.proc \in Procs
        BY <2>1 DEF RequestSound, CellsSound
    <2>3. RequestSound(x)'
        <3>1. CASE x.verdict = "none"
            BY <1>2, <2>1, <3>1 DEF RequestSound
        <3>2. CASE x.verdict # "none"
            <4>1. x.proc \in Procs
                BY <2>1, <2>2, <3>2 DEF RequestSound
            <4>2. KeysOf(x.proc) # None => KeysOf(x.proc)' = KeysOf(x.proc)
                BY <1>10, <4>1
            <4>3. cell[<<x.proc, "ddb">>] = Failed => cell'[<<x.proc, "ddb">>] = Failed
                BY <1>11, <4>1
            <4>4. /\ x.verdict = "db unavailable" => cell'[<<x.proc, "ddb">>] = Failed
                  /\ x.verdict = "unauthorized" /\ x.token \notin expired' \cup {None} =>
                        KeysOf(x.proc)' # None /\ ~Verified(KeysOf(x.proc)', x.token)
                BY <1>2, <2>1, <4>2, <4>3 DEF RequestSound
            <4> QED  BY <1>2, <2>1, <4>4 DEF RequestSound
        <3> QED  BY <3>1, <3>2
    <2> QED  BY <2>3
<1>14. (\A l \in Cells : CellSound(l))'
    <2>1. k[1] \in up
        BY <1>4
    <2> QED  BY <1>2, <1>5, <1>6, <1>7, <2>1 DEF CellsSound, CellSound
<1>15. RunnerInside'
    <2>1. \A j \in Reqs, l \in Cells : Runs(j, l)' <=> Runs(j, l) /\ j # i
        <3>1. \A l \in Cells : ~Runs(i, l)'
            BY <1>7, <1>8 DEF Runs
        <3>2. \A j \in Reqs \ {i}, l \in Cells : Runs(j, l)' <=> Runs(j, l)
            BY <1>7 DEF Runs, CellOf
        <3> QED  BY <3>1, <3>2
    <2>2. \A l \in Cells : Runs(i, l) => l = k
        BY DEF Runs
    <2> QED  BY <1>4, <1>5, <1>7, <2>1, <2>2 DEF CellsSound, RunnerInside
<1>16. (\A p \in Procs : \A t \in accepted[p] : KeysOf(p) # None /\ Verified(KeysOf(p), t))'
    BY <1>2, <1>10 DEF CellsSound
<1>17. (\A p \in up : Kind[p] = "local" => cell[<<p, "ddb">>] = Client)'
    BY <1>2, <1>11 DEF CellsSound
<1>18. /\ (req = [j \in Reqs |-> req[j]])'
       /\ once' \in [Cells -> {"new", "running", "done"}]
       /\ cell' \in [Cells -> {None} \cup Results]
    BY <1>1, <1>2, <1>4, <1>6 DEF CellsSound
<1> QED  BY <1>2, <1>13, <1>14, <1>15, <1>16, <1>17, <1>18 DEF CellsSound

\* A local server comes up with a client.
LEMMA StartSound ==
    ASSUME CellsSound, NEW p \in Procs, Start(p)
    PROVE  CellsSound'
<1> DEFINE k == <<p, "ddb">>
<1>1. /\ p \notin up /\ up' = up \cup {p}
      /\ once' = [once EXCEPT ![k] = "done"] /\ cell' = [cell EXCEPT ![k] = Client]
      /\ UNCHANGED <<published, expired, req, told, accepted>>
    BY DEF Start, poolVars
<1>2. k \in Cells /\ once[k] = "new" /\ cell[k] = None
    BY <1>1 DEF Cells, CellsSound, CellSound
<1>3. /\ \A l \in Cells : cell'[l] = IF l = k THEN Client ELSE cell[l]
      /\ \A l \in Cells : once'[l] = IF l = k THEN "done" ELSE once[l]
    BY <1>1 DEF CellsSound
<1>4. \A q \in Procs : /\ <<q, "jwks">> \in Cells /\ <<q, "ddb">> \in Cells
                       /\ KeysOf(q)' = KeysOf(q)
    BY <1>3 DEF Cells, KeysOf
<1>5. \A q \in up : cell'[<<q, "ddb">>] = cell[<<q, "ddb">>]
    BY <1>1, <1>3, <1>4 DEF CellsSound
<1>6. (\A j \in Reqs : RequestSound(req[j]))'
    <2> SUFFICES ASSUME NEW j \in Reqs PROVE RequestSound(req[j])'
        OBVIOUS
    <2> PICK x : x = req[j]
        OBVIOUS
    <2>1. RequestSound(x) /\ x = req'[j]
        BY <1>1 DEF CellsSound
    <2>2. x.verdict # "none" => /\ KeysOf(x.proc)' = KeysOf(x.proc)
                               /\ cell'[<<x.proc, "ddb">>] = cell[<<x.proc, "ddb">>]
        BY <1>4, <1>5, <2>1 DEF RequestSound, CellsSound
    <2>3. RequestSound(x)'
        BY <1>1, <2>1, <2>2 DEF RequestSound
    <2> QED  BY <2>1, <2>3
<1>7. (\A l \in Cells : CellSound(l))'
    BY <1>1, <1>2, <1>3 DEF CellsSound, CellSound
<1>8. RunnerInside'
    <2>1. \A j \in Reqs, l \in Cells : Runs(j, l)' <=> Runs(j, l)
        BY <1>1 DEF Runs, CellOf
    <2> QED  BY <1>2, <1>3, <2>1 DEF CellsSound, RunnerInside
<1>9. (\A q \in Procs : \A t \in accepted[q] : KeysOf(q) # None /\ Verified(KeysOf(q), t))'
    <2>1. \A q \in Procs : \A t \in accepted[q] : KeysOf(q) # None /\ Verified(KeysOf(q), t)
        BY DEF CellsSound
    <2> QED  BY <1>1, <1>4, <2>1
<1>10. (\A q \in up : Kind[q] = "local" => cell[<<q, "ddb">>] = Client)'
    BY <1>1, <1>2, <1>3, <1>5 DEF CellsSound
<1>11. /\ once' \in [Cells -> {"new", "running", "done"}]
       /\ cell' \in [Cells -> {None} \cup Results]
    BY <1>1, <1>2 DEF CellsSound, Results
<1> QED  BY <1>1, <1>6, <1>7, <1>8, <1>9, <1>10, <1>11 DEF CellsSound

\* A process ends with all it kept.
LEMMA KillSound ==
    ASSUME CellsSound, NEW p \in Procs, Kill(p)
    PROVE  CellsSound'
<1>1. /\ p \in up /\ up' = IF Kind[p] = "local" THEN up \ {p} ELSE up
      /\ once' = [k \in Cells |-> IF k[1] = p THEN "new" ELSE once[k]]
      /\ cell' = [k \in Cells |-> IF k[1] = p THEN None ELSE cell[k]]
      /\ told' = [k \in Cells |-> IF k[1] = p THEN {} ELSE told[k]]
      /\ req' = [i \in Reqs |-> IF req[i].proc = p THEN IdleRequest ELSE req[i]]
      /\ accepted' = [accepted EXCEPT ![p] = {}]
      /\ UNCHANGED <<published, expired>>
    BY DEF Kill, poolVars
<1>2. \A q \in Procs : /\ <<q, "jwks">> \in Cells /\ <<q, "ddb">> \in Cells
                       /\ <<q, "jwks">>[1] = q /\ <<q, "ddb">>[1] = q
    BY DEF Cells
<1>3. \A q \in Procs \ {p} : /\ KeysOf(q)' = KeysOf(q)
                             /\ cell'[<<q, "ddb">>] = cell[<<q, "ddb">>]
    BY <1>1, <1>2 DEF KeysOf
<1>4. (\A j \in Reqs : RequestSound(req[j]))'
    <2> SUFFICES ASSUME NEW j \in Reqs PROVE RequestSound(req[j])'
        OBVIOUS
    <2> PICK x : x = req'[j]
        OBVIOUS
    <2>1. RequestSound(x) /\ (x.pc # "idle" => x.proc # p)
        BY <1>1, IdleSound DEF CellsSound
    <2>2. x.pc # "idle" => x.proc \in up'
        BY <1>1, <2>1 DEF RequestSound
    <2>3. x.verdict # "none" => /\ KeysOf(x.proc)' = KeysOf(x.proc)
                               /\ cell'[<<x.proc, "ddb">>] = cell[<<x.proc, "ddb">>]
        BY <1>3, <2>1 DEF RequestSound, CellsSound
    <2>4. RequestSound(x)'
        BY <1>1, <2>1, <2>2, <2>3 DEF RequestSound
    <2> QED  BY <2>4
<1>5. (\A l \in Cells : CellSound(l))'
    BY <1>1 DEF CellsSound, CellSound
<1>6. RunnerInside'
    <2>1. \A j \in Reqs, l \in Cells : Runs(j, l)' <=> Runs(j, l) /\ l[1] # p
        <3>1. \A j \in Reqs : req'[j] = IF req[j].proc = p THEN IdleRequest ELSE req[j]
            BY <1>1
        <3>2. \A j \in Reqs : req[j].proc = p => \A l \in Cells : ~Runs(j, l)'
            BY <3>1, IdleSound DEF Runs
        <3>3. \A j \in Reqs : req[j].proc # p => \A l \in Cells : Runs(j, l)' <=> Runs(j, l)
            BY <3>1 DEF Runs, CellOf
        <3>4. \A j \in Reqs, l \in Cells : Runs(j, l) => l[1] = req[j].proc
            BY DEF Runs, CellOf
        <3> QED  BY <3>2, <3>3, <3>4
    <2> QED  BY <1>1, <2>1 DEF CellsSound, RunnerInside
<1>7. (\A q \in Procs : \A t \in accepted[q] : KeysOf(q) # None /\ Verified(KeysOf(q), t))'
    <2>1. \A q \in Procs : \A t \in accepted[q] : KeysOf(q) # None /\ Verified(KeysOf(q), t)
        BY DEF CellsSound
    <2>2. \A q \in Procs : accepted'[q] = IF q = p THEN {} ELSE accepted[q]
        BY <1>1 DEF CellsSound
    <2> QED  BY <1>3, <2>1, <2>2
<1>8. (\A q \in up : Kind[q] = "local" => cell[<<q, "ddb">>] = Client)'
    BY <1>1, <1>3 DEF CellsSound
<1>9. /\ once' \in [Cells -> {"new", "running", "done"}]
      /\ cell' \in [Cells -> {None} \cup Results]
      /\ told' \in [Cells -> SUBSET Results]
      /\ accepted' \in [Procs -> SUBSET Tokens]
      /\ (req = [j \in Reqs |-> req[j]])' /\ up' \subseteq Procs
    BY <1>1 DEF CellsSound
<1> QED  BY <1>1, <1>4, <1>5, <1>6, <1>7, <1>8, <1>9 DEF CellsSound

\* Every step keeps CellsSound.
LEMMA NextSound == CellsSound /\ [Next]_vars => CellsSound'
<1> SUFFICES ASSUME CellsSound, [Next]_vars PROVE CellsSound'
    OBVIOUS
<1>1. CASE UNCHANGED vars
    BY <1>1, PoolSound DEF vars, CellsSound
<1>2. CASE \E k \in Keys : Publish(k)
    <2>1. /\ UNCHANGED <<up, once, cell, req, told, accepted>>
          /\ published' \subseteq Keys /\ expired' = expired
        BY <1>2 DEF Publish, onceVars, CellsSound
    <2> QED  BY <2>1, PoolSound
<1>3. CASE \E t \in Tokens : Expire(t)
    <2>1. /\ UNCHANGED <<up, once, cell, req, told, accepted>>
          /\ published' \subseteq Keys /\ expired \subseteq expired'
        BY <1>3 DEF Expire, onceVars, CellsSound
    <2> QED  BY <2>1, PoolSound
<1>4. CASE \E i \in Reqs, p \in Procs : Event(i, p)
    BY <1>4, ArriveSound DEF Event
<1>5. CASE \E i \in Reqs, p \in Procs, t \in Tokens : ConnectAttempt(i, p, t)
    BY <1>5, ArriveSound DEF ConnectAttempt
<1>6. CASE \E i \in Reqs, p \in Procs, t \in Tokens \cup {None} : CallRoute(i, p, t)
    BY <1>6, ArriveSound DEF CallRoute
<1>7. CASE \E i \in Reqs : Step(i) \/ Leave(i)
    BY <1>7, MiddlewareSound, DoSound, RunOnceSound, ValidateTokenSound, GetSound,
       AnswerSound, LeaveSound DEF Step
<1>8. CASE \E p \in Procs : Start(p) \/ Kill(p)
    BY <1>8, StartSound, KillSound
<1> QED  BY <1>1, <1>2, <1>3, <1>4, <1>5, <1>6, <1>7, <1>8 DEF Next

\* CellsSound is an invariant: whatever a cell told, and every verdict that came
\* of it, agrees with what the cell has now (fetchJWKS, db.Get, ValidateToken).
THEOREM CellsInvariance == Spec => []CellsSound
BY InitSound, NextSound, PTL DEF Spec

\* A process that accepted a token refuses it only when it has expired.
THEOREM OneVerdictPerLife == Spec => []OneVerdict
<1>1. CellsSound => OneVerdict
    <2> SUFFICES ASSUME CellsSound, NEW i \in Reqs,
                        req[i].verdict = "unauthorized", req[i].token # None,
                        req[i].token \notin expired
                 PROVE  req[i].token \notin accepted[req[i].proc]
        BY DEF OneVerdict
    <2>1. req[i].proc \in Procs /\ ~Verified(KeysOf(req[i].proc), req[i].token)
        BY DEF CellsSound, RequestSound
    <2> QED  BY <2>1 DEF CellsSound
<1> QED  BY <1>1, CellsInvariance, PTL

\* A local server that runs has a client object for good (main stops without one);
\* whether DynamoDB answers is not said (db.Get contacts nobody).
THEOREM LocalServerHasClient == Spec => []LocalHasClient
<1>1. CellsSound => LocalHasClient
    <2> SUFFICES ASSUME CellsSound, NEW i \in Reqs, req[i].verdict = "db unavailable"
                 PROVE  Kind[req[i].proc] # "local"
        BY DEF LocalHasClient
    <2>1. req[i].proc \in up /\ cell[<<req[i].proc, "ddb">>] = Failed
        BY DEF CellsSound, RequestSound
    <2> QED  BY <2>1 DEF CellsSound
<1> QED  BY <1>1, CellsInvariance, PTL

\* A key set that was fetched has published keys only.
KeysPublished ==
    \A p \in Procs : KeysOf(p) \in {Failed, None} \/ KeysOf(p) \subseteq published

\* Every step keeps KeysPublished: keys are never withdrawn, and a fetch gives
\* those that are published when it returns.
LEMMA KeysStayPublished == CellsSound /\ KeysPublished /\ [Next]_vars => KeysPublished'
<1> SUFFICES ASSUME CellsSound, KeysPublished, [Next]_vars PROVE KeysPublished'
    OBVIOUS
<1>1. CASE UNCHANGED cell /\ published \subseteq published'
    BY <1>1 DEF KeysPublished, KeysOf
<1>2. ASSUME NEW i \in Reqs, RunOnce(i) PROVE KeysPublished'
    <2>1. req[i].at \in {"jwks", "ddb"} /\ CellOf(i) = <<req[i].proc, req[i].at>>
        BY <1>2 DEF RunOnce, CellsSound, RequestSound, CellOf
    <2>2. published' = published
        BY <1>2 DEF RunOnce, poolVars
    <2>3. PICK result \in IF req[i].at = "jwks" THEN Fetched(i) ELSE Loaded :
             cell' = [cell EXCEPT ![CellOf(i)] = result]
        BY <1>2 DEF RunOnce
    <2>4. req[i].at = "jwks" => result \in {published, Failed}
        BY <2>3 DEF Fetched
    <2>5. SUFFICES ASSUME NEW p \in Procs
                   PROVE  cell'[<<p, "jwks">>] \in {Failed, None}
                             \/ cell'[<<p, "jwks">>] \subseteq published
        BY <2>2 DEF KeysPublished, KeysOf
    <2>6. <<p, "jwks">> \in DOMAIN cell
        BY DEF CellsSound, Cells
    <2>7. CASE <<p, "jwks">> = CellOf(i)
        BY <2>1, <2>3, <2>4, <2>6, <2>7
    <2>8. CASE <<p, "jwks">> # CellOf(i)
        BY <2>3, <2>6, <2>8 DEF KeysPublished, KeysOf
    <2> QED  BY <2>7, <2>8
<1>3. ASSUME NEW p \in Procs, Start(p) PROVE KeysPublished'
    <2>1. published' = published /\ cell' = [cell EXCEPT ![<<p, "ddb">>] = Client]
        BY <1>3 DEF Start, poolVars
    <2>2. \A q \in Procs : cell'[<<q, "jwks">>] = cell[<<q, "jwks">>]
        BY <2>1 DEF CellsSound, Cells
    <2> QED  BY <2>1, <2>2 DEF KeysPublished, KeysOf
<1>4. ASSUME NEW p \in Procs, Kill(p) PROVE KeysPublished'
    <2>1. published' = published
        BY <1>4 DEF Kill, poolVars
    <2>2. \A q \in Procs : cell'[<<q, "jwks">>] \in {None, cell[<<q, "jwks">>]}
        BY <1>4 DEF Kill, Cells
    <2> QED  BY <2>1, <2>2 DEF KeysPublished, KeysOf
<1>5. ASSUME NEW k \in Keys, Publish(k) PROVE KeysPublished'
    BY <1>1, <1>5 DEF Publish, onceVars
<1>6. CASE \E i \in Reqs : \/ Middleware(i) \/ Do(i) \/ Answer(i) \/ Leave(i)
                           \/ ValidateToken(i) \/ Get(i)
    BY <1>1, <1>6 DEF Middleware, Do, Answer, Leave, ValidateToken, Get, onceVars, poolVars
<1>7. CASE \/ \E t \in Tokens : Expire(t)
           \/ \E i \in Reqs, p \in Procs : Event(i, p)
           \/ \E i \in Reqs, p \in Procs, t \in Tokens : ConnectAttempt(i, p, t)
           \/ \E i \in Reqs, p \in Procs, t \in Tokens \cup {None} : CallRoute(i, p, t)
    BY <1>1, <1>7 DEF Expire, Event, ConnectAttempt, CallRoute, Arrive, onceVars, poolVars
<1>8. CASE UNCHANGED vars
    BY <1>1, <1>8 DEF vars
<1> QED  BY <1>2, <1>3, <1>4, <1>5, <1>6, <1>7, <1>8 DEF Next, Step

\* Whatever a process accepts is an ID token for this app signed by a published
\* key, however often its fetch failed (ValidateToken).
THEOREM GenuineTokensOnly == Spec => []AcceptedGenuine
<1>1. Init => KeysPublished
    BY DEF Init, KeysPublished, KeysOf, Cells
<1>2. CellsSound /\ KeysPublished => AcceptedGenuine
    BY DEF CellsSound, KeysPublished, AcceptedGenuine, Verified
<1> QED  BY <1>1, <1>2, KeysStayPublished, CellsInvariance, PTL DEF Spec

\* Every step of the containers is a step of OnceCells, or none.
LEMMA StepRefines == CellsSound /\ [Next]_vars => [Promise!Next]_(Promise!vars)
<1> SUFFICES ASSUME CellsSound, [Next]_vars PROVE [Promise!Next]_(Promise!vars)
    OBVIOUS
<1> USE DEF Promise!vars
<1>1. CASE UNCHANGED <<cell, told>>
    BY <1>1
<1>2. ASSUME NEW i \in Reqs, RunOnce(i) PROVE Promise!Next
    <2>1. req[i].pc = "run" /\ RequestSound(req[i]) /\ Runs(i, CellOf(i))
        BY <1>2 DEF RunOnce, CellsSound, Runs
    <2>2. CellOf(i) \in Cells
        BY <2>1 DEF RequestSound, CellsSound, CellOf, Cells
    <2>3. cell[CellOf(i)] = None
        BY <2>1, <2>2 DEF CellsSound, RunnerInside, CellSound
    <2>4. \E result \in Results : cell' = [cell EXCEPT ![CellOf(i)] = result]
        BY <1>2 DEF RunOnce, Fetched, Loaded, Results, KeySets, CellsSound
    <2>5. told' = told
        BY <1>2 DEF RunOnce
    <2> QED  BY <2>2, <2>3, <2>4, <2>5 DEF Promise!Next, Promise!Fill
<1>3. ASSUME NEW i \in Reqs, ValidateToken(i) \/ Get(i) PROVE Promise!Next
    <2>1. Passed(i, "jwks") \/ Passed(i, "ddb")
        BY <1>3 DEF ValidateToken, Get
    <2>2. /\ CellOf(i) \in Cells /\ cell[CellOf(i)] # None
          /\ told' = [told EXCEPT ![CellOf(i)] = @ \cup {cell[CellOf(i)]}]
        BY <2>1, PassedTells
    <2>3. cell' = cell
        BY <1>3 DEF ValidateToken, Get
    <2> QED  BY <2>2, <2>3 DEF Promise!Next, Promise!Tell
<1>4. ASSUME NEW p \in Procs, Start(p) PROVE Promise!Next
    <2>1. <<p, "ddb">> \in Cells /\ cell[<<p, "ddb">>] = None
        BY <1>4 DEF Start, Cells, CellsSound, CellSound
    <2>2. told' = told /\ cell' = [cell EXCEPT ![<<p, "ddb">>] = Client] /\ Client \in Results
        BY <1>4 DEF Start, Results
    <2> QED  BY <2>1, <2>2 DEF Promise!Next, Promise!Fill
<1>5. ASSUME NEW p \in Procs, Kill(p) PROVE Promise!Next
    <2> DEFINE C == {k \in Cells : k[1] = p}
    <2>1. Promise!Forget(C)
        BY <1>5 DEF Kill, Promise!Forget
    <2>2. C \in SUBSET Cells
        OBVIOUS
    <2> QED  BY <2>1, <2>2 DEF Promise!Next
<1>6. CASE \E i \in Reqs : Middleware(i) \/ Do(i) \/ Answer(i) \/ Leave(i)
    BY <1>1, <1>6 DEF Middleware, Do, Answer, Leave, onceVars
<1>7. CASE \/ \E k \in Keys : Publish(k)
           \/ \E t \in Tokens : Expire(t)
           \/ \E i \in Reqs, p \in Procs : Event(i, p)
           \/ \E i \in Reqs, p \in Procs, t \in Tokens : ConnectAttempt(i, p, t)
           \/ \E i \in Reqs, p \in Procs, t \in Tokens \cup {None} : CallRoute(i, p, t)
    BY <1>1, <1>7 DEF Publish, Expire, Event, ConnectAttempt, CallRoute, Arrive, onceVars
<1>8. CASE UNCHANGED vars
    BY <1>1, <1>8 DEF vars
<1> QED  BY <1>2, <1>3, <1>4, <1>5, <1>6, <1>7, <1>8 DEF Next, Step

\* "Called at most once per container": for its callers, a cell of a process is
\* filled once, and tells all of them the same (fetchJWKS, db.Get).
THEOREM CellsRefine == Spec => CellsKept
<1>1. Init => Promise!Init
    BY DEF Init, Promise!Init
<1> QED  BY <1>1, StepRefines, CellsInvariance, PTL DEF Spec, CellsKept, Promise!Spec

(***************************************************************************)
(* Types.                                                                  *)
(***************************************************************************)
RequestTypes ==
    [op : {"none", "authorize", "route", "event"}, proc : Procs \cup {None},
     token : Tokens \cup {None}, pc : {"idle", "auth", "once", "run", "ran", "answer"},
     at : {"none", "jwks", "ddb"}, gone : BOOLEAN,
     verdict : {"none", "unauthorized", "allowed", "db unavailable", "served"}]

CellTypes ==
    \A p \in Procs : /\ cell[<<p, "jwks">>] \in {Failed, None} \cup KeySets
                     /\ cell[<<p, "ddb">>] \in {Client, Failed, None}

\* What TypeOK says beyond CellsSound.
TypesRest ==
    /\ expired \subseteq Tokens
    /\ dev \subseteq up
    /\ CellTypes
    /\ req \in [Reqs -> RequestTypes]

\* A request of the right types that one field changes.
LEMMA FieldTypes ==
    ASSUME NEW r \in RequestTypes
    PROVE  /\ \A x \in {"idle", "auth", "once", "run", "ran", "answer"} :
                 [r EXCEPT !.pc = x] \in RequestTypes
           /\ \A x \in {"none", "jwks", "ddb"} : [r EXCEPT !.at = x] \in RequestTypes
           /\ \A x \in BOOLEAN : [r EXCEPT !.gone = x] \in RequestTypes
           /\ \A x \in {"none", "unauthorized", "allowed", "db unavailable", "served"} :
                 [r EXCEPT !.verdict = x] \in RequestTypes
BY DEF RequestTypes

\* AskFor and Conclude change two fields of one request.
LEMMA CallTypes ==
    ASSUME TypesRest, NEW i \in Reqs,
           \/ \E at \in {"jwks", "ddb"} : AskFor(i, at)
           \/ \E verdict \in {"unauthorized", "allowed", "db unavailable", "served"} :
                 Conclude(i, verdict)
    PROVE  req' \in [Reqs -> RequestTypes]
<1>1. req[i] \in RequestTypes
    BY DEF TypesRest
<1>2. ASSUME NEW at \in {"jwks", "ddb"}, AskFor(i, at)
      PROVE  req' \in [Reqs -> RequestTypes]
    <2>1. PICK r : r = [req[i] EXCEPT !.pc = "once"]
        OBVIOUS
    <2>2. r \in RequestTypes
        BY <1>1, <2>1, FieldTypes
    <2>3. [r EXCEPT !.at = at] \in RequestTypes
        BY <2>2, FieldTypes
    <2>4. req' = [req EXCEPT ![i] = [r EXCEPT !.at = at]]
        BY <1>2, <2>1 DEF AskFor, TypesRest
    <2> QED  BY <2>3, <2>4 DEF TypesRest
<1>3. ASSUME NEW verdict \in {"unauthorized", "allowed", "db unavailable", "served"},
             Conclude(i, verdict)
      PROVE  req' \in [Reqs -> RequestTypes]
    <2>1. PICK r : r = [req[i] EXCEPT !.pc = "answer"]
        OBVIOUS
    <2>2. r \in RequestTypes
        BY <1>1, <2>1, FieldTypes
    <2>3. [r EXCEPT !.verdict = verdict] \in RequestTypes
        BY <2>2, FieldTypes
    <2>4. req' = [req EXCEPT ![i] = [r EXCEPT !.verdict = verdict]]
        BY <1>3, <2>1 DEF Conclude, TypesRest
    <2> QED  BY <2>3, <2>4 DEF TypesRest
<1> QED  BY <1>2, <1>3

\* A request that arrives, and an idle one.
LEMMA NewTypes ==
    /\ IdleRequest \in RequestTypes
    /\ \A p \in Procs, token \in Tokens \cup {None} :
          /\ Request("authorize", p, token, "auth", "none") \in RequestTypes
          /\ Request("route", p, token, "auth", "none") \in RequestTypes
          /\ Request("event", p, token, "once", "ddb") \in RequestTypes
BY DEF IdleRequest, Request, RequestTypes

\* The types after a step of a request that leaves the rest alone.
LEMMA RequestTypesStep ==
    ASSUME TypesRest, UNCHANGED <<expired, up, dev, cell>>,
           req' \in [Reqs -> RequestTypes]
    PROVE  TypesRest'
BY DEF TypesRest, CellTypes

\* The function of a Once returns what its cell is for.
LEMMA RunOnceTypes ==
    ASSUME CellsSound, TypesRest, NEW i \in Reqs, RunOnce(i)
    PROVE  TypesRest'
<1>1. /\ req[i].at \in {"jwks", "ddb"} /\ CellOf(i) = <<req[i].proc, req[i].at>>
      /\ UNCHANGED <<expired, up, dev>>
    BY DEF RunOnce, CellsSound, RequestSound, CellOf, poolVars
<1>2. PICK result \in IF req[i].at = "jwks" THEN Fetched(i) ELSE Loaded :
         cell' = [cell EXCEPT ![CellOf(i)] = result]
    BY DEF RunOnce
<1>3. /\ req[i].at = "jwks" => result \in {Failed, None} \cup KeySets
      /\ req[i].at = "ddb" => result \in {Client, Failed, None}
    BY <1>2 DEF Fetched, Loaded, KeySets, CellsSound
<1>4. CellTypes'
    <2> SUFFICES ASSUME NEW p \in Procs
                 PROVE  /\ cell'[<<p, "jwks">>] \in {Failed, None} \cup KeySets
                        /\ cell'[<<p, "ddb">>] \in {Client, Failed, None}
        BY DEF CellTypes
    <2>1. <<p, "jwks">> \in DOMAIN cell /\ <<p, "ddb">> \in DOMAIN cell
        BY DEF CellsSound, Cells
    <2>2. cell'[<<p, "jwks">>] \in {Failed, None} \cup KeySets
        BY <1>1, <1>2, <1>3, <2>1 DEF TypesRest, CellTypes
    <2>3. cell'[<<p, "ddb">>] \in {Client, Failed, None}
        BY <1>1, <1>2, <1>3, <2>1 DEF TypesRest, CellTypes
    <2> QED  BY <2>2, <2>3
<1>5. req' \in [Reqs -> RequestTypes]
    <2>1. [req[i] EXCEPT !.pc = "ran"] \in RequestTypes
        BY FieldTypes DEF TypesRest
    <2>2. req' = [req EXCEPT ![i] = [req[i] EXCEPT !.pc = "ran"]]
        BY DEF RunOnce
    <2> QED  BY <2>1, <2>2 DEF TypesRest
<1> QED  BY <1>1, <1>4, <1>5 DEF TypesRest

\* A local server starts with its client, and ends with all its cells.
LEMMA ProcessTypes ==
    ASSUME CellsSound, TypesRest, NEW p \in Procs, Start(p) \/ Kill(p)
    PROVE  TypesRest'
<1>1. \A q \in Procs : <<q, "jwks">> \in Cells /\ <<q, "ddb">> \in Cells
    BY DEF Cells
<1>2. CASE Start(p)
    <2>1. CellTypes'
        BY <1>1, <1>2 DEF Start, CellTypes, TypesRest, CellsSound
    <2> QED  BY <1>2, <2>1 DEF Start, TypesRest, poolVars
<1>3. CASE Kill(p)
    <2>1. \A k \in Cells : cell'[k] \in {None, cell[k]}
        BY <1>3 DEF Kill
    <2>2. CellTypes'
        BY <1>1, <2>1 DEF CellTypes, TypesRest
    <2>3. req' \in [Reqs -> RequestTypes]
        BY <1>3, NewTypes DEF Kill, TypesRest
    <2> QED  BY <1>3, <2>2, <2>3 DEF Kill, TypesRest, poolVars
<1> QED  BY <1>2, <1>3

\* Every step keeps the types.
LEMMA TypesStep == CellsSound /\ TypesRest /\ [Next]_vars => TypesRest'
<1> SUFFICES ASSUME CellsSound, TypesRest, [Next]_vars PROVE TypesRest'
    OBVIOUS
<1>1. CASE UNCHANGED vars
    BY <1>1 DEF vars, TypesRest, CellTypes
<1>2. CASE \E k \in Keys : Publish(k)
    BY <1>2 DEF Publish, onceVars, TypesRest, CellTypes
<1>3. CASE \E t \in Tokens : Expire(t)
    BY <1>3 DEF Expire, onceVars, TypesRest, CellTypes
<1>4. ASSUME NEW i \in Reqs, NEW r \in RequestTypes, Arrive(i, r)
      PROVE  TypesRest'
    BY <1>4 DEF Arrive, poolVars, onceVars, TypesRest, CellTypes
<1>5. CASE \/ \E i \in Reqs, p \in Procs : Event(i, p)
           \/ \E i \in Reqs, p \in Procs, t \in Tokens : ConnectAttempt(i, p, t)
           \/ \E i \in Reqs, p \in Procs, t \in Tokens \cup {None} : CallRoute(i, p, t)
    BY <1>4, <1>5, NewTypes DEF Event, ConnectAttempt, CallRoute
<1>6. ASSUME NEW i \in Reqs, Middleware(i) \/ ValidateToken(i) \/ Get(i)
      PROVE  TypesRest'
    <2>1. \/ \E at \in {"jwks", "ddb"} : AskFor(i, at)
          \/ \E verdict \in {"unauthorized", "allowed", "db unavailable", "served"} :
                Conclude(i, verdict)
        BY <1>6 DEF Middleware, ValidateToken, Get
    <2>2. UNCHANGED <<expired, up, dev, cell>>
        BY <1>6 DEF Middleware, ValidateToken, Get, poolVars, onceVars
    <2> QED  BY <2>1, <2>2, CallTypes, RequestTypesStep
<1>7. ASSUME NEW i \in Reqs, Do(i) \/ Answer(i) \/ Leave(i)
      PROVE  TypesRest'
    <2>1. req[i] \in RequestTypes
        BY DEF TypesRest
    <2>2. /\ [req[i] EXCEPT !.pc = "run"] \in RequestTypes
          /\ [req[i] EXCEPT !.gone = TRUE] \in RequestTypes
        BY <2>1, FieldTypes
    <2>3. \/ req' = [req EXCEPT ![i] = [req[i] EXCEPT !.pc = "run"]]
          \/ req' = [req EXCEPT ![i] = [req[i] EXCEPT !.gone = TRUE]]
          \/ req' = [req EXCEPT ![i] = IdleRequest]
        BY <1>7 DEF Do, Answer, Leave
    <2>4. UNCHANGED <<expired, up, dev, cell>>
        BY <1>7 DEF Do, Answer, Leave, poolVars, onceVars
    <2>5. req' \in [Reqs -> RequestTypes]
        BY <2>2, <2>3, NewTypes DEF TypesRest
    <2> QED  BY <2>4, <2>5, RequestTypesStep
<1>8. CASE \E i \in Reqs : RunOnce(i)
    BY <1>8, RunOnceTypes
<1>9. CASE \E p \in Procs : Start(p) \/ Kill(p)
    BY <1>9, ProcessTypes
<1> QED  BY <1>1, <1>2, <1>3, <1>5, <1>6, <1>7, <1>8, <1>9 DEF Next, Step

\* Every variable keeps its type: what jwksOnce guards is a key set or an error,
\* what db.Get guards a client or an error, whoever is killed and whatever fails.
THEOREM ContainersTypeCorrectness == Spec => []TypeOK
<1>1. Init => TypesRest
    <2> SUFFICES ASSUME Init PROVE TypesRest
        OBVIOUS
    <2>1. CellTypes
        BY DEF Init, CellTypes, Cells
    <2> QED  BY <2>1, NewTypes DEF Init, TypesRest
<1>2. CellsSound /\ TypesRest => TypeOK
    BY DEF CellsSound, CellSound, TypesRest, CellTypes, RequestTypes, TypeOK
<1> QED  BY <1>1, <1>2, TypesStep, CellsInvariance, PTL DEF Spec
================================================================================
