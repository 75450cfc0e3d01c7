------------------------------ MODULE MCNeighbours ------------------------------
(***************************************************************************)
(* Small instance of Neighbours.                                           *)
(***************************************************************************)
EXTENDS Neighbours, MCReconciler

\* One setting, a number that a creation may be refused for.
SharedFields == {"Name", "MaxWorkers"}
SharedSpecs == {[f \in SharedFields |-> IF f = "MaxWorkers" THEN n ELSE 1] : n \in {1, 11}}
SharedPatches == [f \in SharedFields |-> IF f = "MaxWorkers" THEN {2} ELSE {}]
===============================================================================
