------------------------------- MODULE Lifecycle -------------------------------
(***************************************************************************)
(* What the controller promises of one Environment custom resource (CR)    *)
(* and the environment of its name, without calls, copies, conditions,     *)
(* errors or retries.  A CR takes hold of a name only while nothing has    *)
(* it, an environment is made only for a CR that holds it and taken away   *)
(* only for one that is being deleted, and a CR lets go only when its      *)
(* environment is gone or going.                                           *)
(***************************************************************************)
VARIABLES
    crState,  \* "absent"; "unheld" or "held" by the finalizer; "leaving"
    envState  \* "none", "there" or "going"

lifecycle == <<crState, envState>>

Init == crState = "absent" /\ envState = "none"

Submit == crState = "absent" /\ crState' = "unheld" /\ UNCHANGED envState

Hold ==
    /\ crState = "unheld" /\ envState = "none"
    /\ crState' = "held"
    /\ UNCHANGED envState

Make ==
    /\ crState \in {"held", "leaving"} /\ envState = "none"
    /\ envState' = "there"
    /\ UNCHANGED crState

\* The user deletes the CR: it goes at once unless it is held.
Withdraw ==
    /\ \/ crState = "unheld" /\ crState' = "absent"
       \/ crState = "held" /\ crState' = "leaving"
    /\ UNCHANGED envState

Remove ==
    /\ crState = "leaving" /\ envState = "there"
    /\ envState' = "going"
    /\ UNCHANGED crState

Gone == envState = "going" /\ envState' = "none" /\ UNCHANGED crState

Release ==
    /\ crState = "leaving" /\ envState # "there"
    /\ crState' = "absent"
    /\ UNCHANGED envState

Next == Submit \/ Hold \/ Make \/ Withdraw \/ Remove \/ Gone \/ Release

Spec == Init /\ [][Next]_lifecycle
===============================================================================
