------------------------------- MODULE OnceCells -------------------------------
(***************************************************************************)
(* What "called at most once per container" promises to the callers of     *)
(* fetchJWKS and db.Get: a cell is filled at most once in the life of its  *)
(* process, with a value or with a failure, and everybody who asks in that *)
(* life is told the same.  The mechanism is in Containers, which refines   *)
(* this module.                                                            *)
(***************************************************************************)

CONSTANTS
    Cells,      \* the cells of all processes
    Results,    \* what filling a cell may give, failures included
    Unset       \* the content of a cell that was not filled yet

VARIABLES
    value,      \* value[k]: the content of cell k
    told        \* told[k]: what the callers were told in this life of the cell

vars == <<value, told>>

Init ==
    /\ value = [k \in Cells |-> Unset]
    /\ told = [k \in Cells |-> {}]

Fill(k, r) ==
    /\ value[k] = Unset
    /\ value' = [value EXCEPT ![k] = r]
    /\ UNCHANGED told

Tell(k) ==
    /\ value[k] # Unset
    /\ told' = [told EXCEPT ![k] = @ \cup {value[k]}]
    /\ UNCHANGED value

\* A process ends, and its cells with it.
Forget(C) ==
    /\ value' = [k \in Cells |-> IF k \in C THEN Unset ELSE value[k]]
    /\ told' = [k \in Cells |-> IF k \in C THEN {} ELSE told[k]]

Next ==
    \/ \E k \in Cells, r \in Results : Fill(k, r)
    \/ \E k \in Cells : Tell(k)
    \/ \E C \in SUBSET Cells : Forget(C)

Spec == Init /\ [][Next]_vars
================================================================================
