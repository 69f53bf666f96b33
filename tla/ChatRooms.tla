------------------------------- MODULE ChatRooms -------------------------------
(***************************************************************************)
(* What the chat server promises, whatever the database and the network    *)
(* do: a connection says something only in a room it was let into, what is *)
(* said is recorded once under a fresh id before anyone hears it, and only *)
(* connections let into the room ever hear it.  Rooms, and the connections *)
(* themselves, have no private state here: the mechanism that implements   *)
(* the promise is LambdaGateway, which refines this module.                *)
(***************************************************************************)

CONSTANTS
    Conns,      \* connection ids
    Owner,      \* Owner[c]: the user the token of connection c belongs to
    Rooms,      \* rooms that exist
    Msgs,       \* message ids
    None        \* the user of a record that names nobody

VARIABLES
    joined,     \* <<c, r>>: connection c was let into room r at some time
    log,        \* the messages recorded: [id, room, user, from]
    heard       \* <<c, m>>: message m was delivered to connection c

vars == <<joined, log, heard>>

Init ==
    /\ joined = {}
    /\ log = {}
    /\ heard = {}

\* Connection c is let into room r.
Join(c, r) ==
    /\ r \in Rooms
    /\ joined' = joined \cup {<<c, r>>}
    /\ UNCHANGED <<log, heard>>

\* Connection c says m in room r, in the name of its owner or of nobody.
Say(c, r, m, u) ==
    /\ <<c, r>> \in joined
    /\ u \in {Owner[c], None}
    /\ \A x \in log : x.id # m
    /\ log' = log \cup {[id |-> m, room |-> r, user |-> u, from |-> c]}
    /\ UNCHANGED <<joined, heard>>

\* Connection d hears a recorded message of a room it was let into.
Hear(d, x) ==
    /\ x \in log
    /\ <<d, x.room>> \in joined
    /\ heard' = heard \cup {<<d, x.id>>}
    /\ UNCHANGED <<joined, log>>

Next ==
    \/ \E c \in Conns, r \in Rooms : Join(c, r)
    \/ \E c \in Conns, r \in Rooms, m \in Msgs : \E u \in {Owner[c], None} :
          Say(c, r, m, u)
    \/ \E d \in Conns, x \in log : Hear(d, x)

Spec == Init /\ [][Next]_vars
================================================================================
