---------------------------- MODULE LifecycleProofs ----------------------------
(***************************************************************************)
(* Reconciler implements Lifecycle: every step of the controller, its      *)
(* user, the service and a crash is a step of the abstract lifecycle or    *)
(* leaves both of its variables alone, for every set of fields, values,    *)
(* tags and faults.                                                        *)
(***************************************************************************)
EXTENDS ReconcilerProofs

\* What a step of Reconciler is in Lifecycle.
Maps == [Life!Next]_Life!lifecycle

\* The abstract state reads the phase, the finalizer and the status.
LEMMA MapsStutter ==
    ASSUME crPhase' = crPhase, cr'.fin = cr.fin, env'.status = env.status
    PROVE  Maps
BY DEF Maps, Life!lifecycle, CrState, EnvState

\* At the start there is neither.
LEMMA InitMaps == Init => Life!Init
BY BlankFacts DEF Init, NoEnvironment, Life!Init, CrState, EnvState

\* The user submits a CR or withdraws it.
LEMMA UserMaps == ASSUME CInv, User PROVE Maps
<1>1. cr \in Resource /\ crPhase \in {"absent", "live", "deleting"}
  BY DEF CInv, TypeOK
<1>2. CASE CreateCR
  <2>1. cr'.fin = FALSE
    BY <1>2, BlankFacts DEF CreateCR
  <2>2. Life!Submit
    BY <1>2, <2>1 DEF CreateCR, Life!Submit, CrState, EnvState
  <2>3. QED
    BY <2>2 DEF Maps, Life!Next
<1>3. ASSUME NEW f, NEW v, PatchSpec(f, v)
      PROVE  Maps
  <2>1. cr'.fin = cr.fin
    BY <1>1, <1>3 DEF PatchSpec, Resource
  <2>2. QED
    BY <1>3, <2>1, MapsStutter DEF PatchSpec
<1>4. ASSUME NEW k, NEW v, PatchTag(k, v)
      PROVE  Maps
  <2>1. cr'.fin = cr.fin
    BY <1>1, <1>4 DEF PatchTag, Resource
  <2>2. QED
    BY <1>4, <2>1, MapsStutter DEF PatchTag
<1>5. CASE DeleteCR
  <2>1. Life!Withdraw
    BY <1>5 DEF DeleteCR, Life!Withdraw, CrState, EnvState
  <2>2. QED
    BY <2>1 DEF Maps, Life!Next
<1>6. QED
  BY <1>2, <1>3, <1>4, <1>5 DEF User

\* An environment that is going is gone at last; nothing else of what the service
\* does by itself shows.
LEMMA ServiceMaps == ASSUME CInv, Service PROVE Maps
<1>1. env \in Environment /\ UNCHANGED <<crPhase, cr>>
  BY DEF CInv, TypeOK, Service, crVars
<1>2. CASE FinishDelete
  <2>1. Life!Gone
    BY <1>1, <1>2 DEF FinishDelete, NoEnvironment, Life!Gone, CrState, EnvState
  <2>2. QED
    BY <2>1 DEF Maps, Life!Next
<1>3. CASE \/ FinishCreate \/ FinishUpdate \/ EndMaintenance
           \/ BecomeUnavailable \/ StartMaintenance \/ Drift \/ AddAwsTag
  <2>1. \/ env'.status = env.status
        \/ /\ env.status \notin {"ABSENT", "DELETING"}
           /\ env'.status \notin {"ABSENT", "DELETING"}
    BY <1>1, <1>3 DEF FinishCreate, FinishUpdate, EndMaintenance, BecomeUnavailable,
                      StartMaintenance, Drift, AddAwsTag, Environment
  <2>2. QED
    BY <1>1, <2>1 DEF Maps, Life!lifecycle, CrState, EnvState
<1>4. QED
  BY <1>2, <1>3 DEF Service, Complete

\* The finalizer is set when there is no environment: Hold.
LEMMA ManageMaps == ASSUME CInv, Manage PROVE Maps
<1>1. /\ cr \in Resource /\ desired \in Resource /\ cr.fin \in BOOLEAN
      /\ crPhase \in {"absent", "live", "deleting"}
  BY ResourceTypes DEF CInv, TypeOK
<1>2. (env.status = "ABSENT" \/ cr.fin) /\ UNCHANGED <<crPhase, env>>
  BY DEF Manage, CInv, Known
<1>3. CASE UNCHANGED cr
  BY <1>2, <1>3, MapsStutter
<1>4. CASE cr' = [cr EXCEPT !.fin = TRUE] /\ crPhase # "absent"
  <2>1. cr'.fin = TRUE
    BY <1>1, <1>4, KeepsHold
  <2>2. crPhase = "deleting" => cr.fin
    BY DEF CInv, Held
  <2>3. CASE cr.fin
    BY <1>1, <1>2, <2>1, <2>3, MapsStutter
  <2>4. CASE ~cr.fin
    <3>1. Life!Hold
      BY <1>1, <1>2, <1>4, <2>1, <2>2, <2>4 DEF Life!Hold, CrState, EnvState
    <3>2. QED
      BY <3>1 DEF Maps, Life!Next
  <2>5. QED
    BY <2>3, <2>4
<1>5. QED
  BY <1>3, <1>4 DEF Manage

\* The environment is made for a CR that holds the name: Make.
LEMMA CreateMaps == ASSUME CInv, Create PROVE Maps
<1>1. UNCHANGED <<crPhase, cr>>
  BY DEF Create, crVars
<1>2. cr.fin /\ crPhase \in {"live", "deleting"}
  BY DEF Create, CInv, TypeOK, Held, Touching
<1>3. CASE UNCHANGED env
  BY <1>1, <1>3, MapsStutter
<1>4. CASE env.status = "ABSENT" /\ env'.status = "CREATING"
  <2>1. Life!Make
    BY <1>1, <1>2, <1>4 DEF Life!Make, CrState, EnvState
  <2>2. QED
    BY <2>1 DEF Maps, Life!Next
<1>5. QED
  BY <1>3, <1>4 DEF Create

\* Tags and updates need an environment and leave it there.
LEMMA TouchMaps ==
    ASSUME CInv, TagResource \/ UntagResource \/ SendUpdate
    PROVE  Maps
<1>1. UNCHANGED <<crPhase, cr>> /\ env \in Environment
  BY DEF TagResource, UntagResource, SendUpdate, crVars, CInv, TypeOK
<1>2. \/ env'.status = env.status
      \/ env.status = "AVAILABLE" /\ env'.status = "UPDATING"
  BY <1>1 DEF TagResource, UntagResource, SendUpdate, Environment
<1>3. QED
  BY <1>1, <1>2 DEF Maps, Life!lifecycle, CrState, EnvState

\* Writing to the CR takes the finalizer off in no other place than Unmanage.
LEMMA WriteMaps == ASSUME CInv, LatePatch \/ Finish \/ DeleteFinish PROVE Maps
<1>1. cr \in Resource
  BY DEF CInv, TypeOK
<1>2. UNCHANGED <<crPhase, env>>
  BY DEF LatePatch, Finish, DeleteFinish
<1>3. cr'.fin = cr.fin
  <2>1. \/ cr' = cr
        \/ \E s : cr' = [cr EXCEPT !.stat = s]
        \/ \E s, t : cr' = [cr EXCEPT !.spec = s, !.tags = t]
    BY DEF LatePatch, Finish, DeleteFinish
  <2>2. QED
    BY <1>1, <2>1 DEF Resource
<1>4. QED
  BY <1>2, <1>3, MapsStutter

\* The environment is taken away only from a CR that is being deleted: Remove.
LEMMA DeleteCallMaps == ASSUME CInv, DeleteCall PROVE Maps
<1>1. /\ env \in Environment /\ crPhase = "deleting" /\ UNCHANGED <<crPhase, cr>>
      /\ \/ env.status # "ABSENT" /\ env'.status = "DELETING"
         \/ UNCHANGED env
  BY DEF DeleteCall, crVars, CInv, TypeOK, Held, Removing, Environment
<1>2. CASE env'.status = env.status
  BY <1>1, <1>2, MapsStutter
<1>3. CASE env.status \notin {"ABSENT", "DELETING"} /\ env'.status = "DELETING"
  <2>1. Life!Remove
    BY <1>1, <1>3 DEF Life!Remove, CrState, EnvState
  <2>2. QED
    BY <2>1 DEF Maps, Life!Next
<1>4. QED
  BY <1>1, <1>2, <1>3

\* The CR goes when its environment is gone or going: Release.
LEMMA UnmanageMaps == ASSUME CInv, Unmanage PROVE Maps
<1>1. /\ crPhase = "deleting" /\ env.status \in {"ABSENT", "DELETING"} /\ UNCHANGED env
  BY DEF Unmanage, CInv, Held, Known, Removing
<1>2. CASE crPhase' = "absent"
  <2>1. Life!Release
    BY <1>1, <1>2 DEF Life!Release, CrState, EnvState
  <2>2. QED
    BY <2>1 DEF Maps, Life!Next
<1>3. CASE UNCHANGED crVars
  BY <1>1, <1>3, MapsStutter DEF crVars
<1>4. QED
  BY <1>1, <1>2, <1>3 DEF Unmanage

\* Reads, comparisons and a crash change neither the CR nor the environment.
LEMMA LocalMaps ==
    ASSUME Start \/ Read \/ ReadBack \/ Decide \/ Late \/ DeleteRead \/ Crash
    PROVE  Maps
<1>1. UNCHANGED <<crPhase, cr, env>>
  BY DEF Start, Read, ReadBack, Decide, Late, DeleteRead, Crash, crVars
<1>2. QED
  BY <1>1, MapsStutter

LEMMA ControllerMaps == ASSUME CInv, Controller PROVE Maps
BY ManageMaps, CreateMaps, TouchMaps, WriteMaps, DeleteCallMaps, UnmanageMaps, LocalMaps
   DEF Controller

LEMMA NextMaps == HInv /\ [Next]_vars => Maps
<1> SUFFICES ASSUME CInv, [Next]_vars
             PROVE  Maps
  BY DEF HInv
<1>1. CASE UNCHANGED vars
  BY <1>1, MapsStutter DEF vars
<1>2. QED
  BY <1>1, ControllerMaps, UserMaps, ServiceMaps, LocalMaps DEF Next

\* The controller keeps the abstract lifecycle whatever fails, crashes, is lost or
\* overtaken: no environment is taken over, taken away or left behind.
THEOREM LifecycleTheorem == Spec => ImplementsLifecycle
<1>1. QED
  BY InitMaps, NextMaps, HoldInv, PTL DEF Spec, ImplementsLifecycle, Life!Spec, Maps
===============================================================================
