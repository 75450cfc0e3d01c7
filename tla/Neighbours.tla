------------------------------ MODULE Neighbours ------------------------------
(***************************************************************************)
(* Two Environment custom resources of one name, in two namespaces, say:   *)
(* the environment in the service is the same.  One controller reconciles  *)
(* both, one at a time as the chart has it (defaultMaxConcurrentSyncs is   *)
(* 1), and all that tells it whose environment it reads is the finalizer   *)
(* of the CR at hand.                                                      *)
(*                                                                         *)
(* The variables of Reconciler are those of the first CR and of its        *)
(* reconciliation; Second is Reconciler over those of the second one.  The *)
(* environment and the bounds are shared.                                  *)
(***************************************************************************)
EXTENDS Reconciler

VARIABLES
    crPhase2, cr2, pc2, desired2, latest2, err2, patch2, queued2,
    owners   \* the CRs that had the finalizer when the environment was made (history)

Second == INSTANCE Reconciler
          WITH crPhase <- crPhase2, cr <- cr2, pc <- pc2, desired <- desired2,
               latest <- latest2, err <- err2, patch <- patch2, queued <- queued2

first == <<crVars, pc, locals, queued>>
second == <<crPhase2, cr2, pc2, desired2, latest2, err2, patch2, queued2>>
neighbourVars == <<vars, second, owners>>

NeighboursInit ==
    /\ Init
    /\ Second!Init
    /\ owners = {}

Managed == {i \in {1} : cr.fin} \cup {i \in {2} : cr2.fin}

Track == owners' = IF env.status = "ABSENT" /\ env' # env THEN Managed ELSE owners

FirstStep ==
    /\ pc2 = "idle"
    /\ Controller
    /\ UNCHANGED second
    /\ Track

SecondStep ==
    /\ pc = "idle"
    /\ Second!Controller
    /\ UNCHANGED first
    /\ Track

FirstUser == User /\ UNCHANGED <<second, owners>>

SecondUser == Second!User /\ UNCHANGED <<first, owners>>

ServiceStep == Service /\ UNCHANGED <<second, owners>>

\* The process crashes, and with it every reconciliation.
Restart ==
    /\ Crash
    /\ pc2' = "idle" /\ Second!Forget
    /\ queued2' = (crPhase2 # "absent")
    /\ UNCHANGED <<crPhase2, cr2, owners>>

NeighboursNext ==
    \/ FirstStep \/ SecondStep \/ FirstUser \/ SecondUser \/ ServiceStep \/ Restart

NeighboursSpec == NeighboursInit /\ [][NeighboursNext]_neighbourVars

\* The work queue is first in, first out: neither CR is passed over for ever.
NeighboursFairness ==
    /\ SF_neighbourVars(FirstStep)
    /\ SF_neighbourVars(SecondStep)
    /\ WF_neighbourVars(Complete /\ ServiceStep)

FairNeighbours == NeighboursSpec /\ NeighboursFairness

------------------------------------------------------------------------------
\* Steps that are about to change an environment there is.
Changing == {"update", "tag", "untag", "send", "delcall"}

\* An environment is updated, tagged or deleted for no other CR than those that
\* had the finalizer before it was made: a CR that comes later leaves it alone.  A
\* CR whose own creation failed, or whose deletion has still to take the finalizer
\* off, is taken for an owner, for the code has no other sign.
OwnEnvironmentOnly ==
    EnvState = "there" =>
        /\ pc \in Changing => 1 \in owners
        /\ pc2 \in Changing => 2 \in owners

\* An environment that is there has a CR whose finalizer sees to its end,
\* whichever of the two users deletes first.
SomebodyHolds ==
    EnvState = "there" => {CrState, Second!CrState} \cap {"held", "leaving"} # {}

\* A CR that names the environment of the other one is told so with a terminal
\* condition: it does not wait for an environment that it will not get.  After a
\* failed update of the other one that error hides it.
LatecomerIsTold ==
    LET late == /\ crPhase2 = "live" /\ ~cr2.fin
                /\ EnvState = "there" /\ env.last # "FAILED"
    IN  late ~> (cr2.stat.conds["Terminal"] = "True" \/ ~late)
===============================================================================
