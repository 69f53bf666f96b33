------------------------------- MODULE MCChatPage -------------------------------
(***************************************************************************)
(* Small instances of ChatPage; rooms and message ids are interchangeable. *)
(***************************************************************************)
EXTENDS ChatPage, TLC

MCSymmetry == Permutations(Rooms) \cup Permutations(Msgs)
================================================================================
