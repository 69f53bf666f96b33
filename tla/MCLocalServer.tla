----------------------------- MODULE MCLocalServer -----------------------------
(***************************************************************************)
(* A small instance of LocalServer: two sockets of the one development     *)
(* user (devUser reads it from the environment), in one process.           *)
(***************************************************************************)
EXTENDS LocalServer, TLC

CONSTANTS dev, c1, ra

\* One client moves between the rooms, the other asks for the first only.
MCAsks == [c \in Conns |-> IF c = c1 THEN RoomIds ELSE {ra}]

MCOwner == [c \in Conns |-> dev]
================================================================================
