---------------------------- MODULE MCLambdaGateway ----------------------------
(***************************************************************************)
(* Small instances of LambdaGateway: up to two connections, each opened    *)
(* with a token of its own user.                                           *)
(***************************************************************************)
EXTENDS LambdaGateway, TLC

CONSTANTS c1, c2, u1, u2

MCOwner == [c \in Conns |-> IF c = c1 THEN u1 ELSE u2]

\* Slots, message ids and rooms are interchangeable, and so are the two
\* connections together with their owners; not used where liveness is checked.
SwapConns == (c1 :> c2) @@ (c2 :> c1) @@ (u1 :> u2) @@ (u2 :> u1)

MCSymmetry ==
    {SwapConns} \cup Permutations(Invs) \cup Permutations(Msgs) \cup Permutations(Rooms)
================================================================================
