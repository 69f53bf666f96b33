-------------------------------- MODULE MCHttpApi -------------------------------
(***************************************************************************)
(* Small instances of HttpApi; request slots and ids are interchangeable.  *)
(***************************************************************************)
EXTENDS HttpApi

MCSymmetry ==
    Permutations(Reqs) \cup Permutations(UserIds) \cup Permutations(RoomIds)
================================================================================
