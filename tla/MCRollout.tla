------------------------------- MODULE MCRollout -------------------------------
(***************************************************************************)
(* Small instance of Rollout: the plain fields of MCReconciler, no tags    *)
(* and no faults but the upgrade itself.                                   *)
(***************************************************************************)
EXTENDS Rollout, MCReconciler
===============================================================================
