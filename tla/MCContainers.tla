----------------------------- MODULE MCContainers -----------------------------
(***************************************************************************)
(* Small instances of Containers.                                          *)
(***************************************************************************)
EXTENDS Containers

CONSTANTS az, api, ws, loc, k1, k2

MCKind ==
    [p \in Procs |-> CASE p = az  -> "ws-authorizer"
                       [] p = api -> "http-api"
                       [] p = ws  -> "ws-handler"
                       [] p = loc -> "local"]

IdToken(k) == [key |-> k, aud |-> TRUE, use |-> "id"]

\* A token of the later key, which a key set fetched before does not have.
MCTokens == {IdToken(k2)}
================================================================================
