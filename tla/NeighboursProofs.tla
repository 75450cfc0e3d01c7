---------------------------- MODULE NeighboursProofs ----------------------------
(***************************************************************************)
(* Two CRs of one name, for every set of fields, values, tags and faults:  *)
(* the environment is changed for none but a CR that had the finalizer     *)
(* when it was made, and is never without one.                             *)
(*                                                                         *)
(* What ReconcilerProofs says of one CR holds of either: P2 is the same    *)
(* module over the variables of the second one.                            *)
(***************************************************************************)
EXTENDS Neighbours, ReconcilerProofs

P2 == INSTANCE ReconcilerProofs
      WITH crPhase <- crPhase2, cr <- cr2, pc <- pc2, desired <- desired2,
           latest <- latest2, err <- err2, patch <- patch2, queued <- queued2

\* One CR is reconciled at a time; an environment that is there has one that holds
\* it; and none has taken the finalizer since the environment was made.
Cared ==
    /\ There => Holds \/ P2!Holds
    /\ env.status # "ABSENT" => Managed \subseteq owners

NInv ==
    /\ CInv /\ P2!CInv
    /\ pc = "idle" \/ pc2 = "idle"
    /\ Cared

------------------------------------------------------------------------------
\* The constants of the second instance are those of the first.
LEMMA SecondConstants ==
    P2!SpecConstants /\ P2!TagConstants /\ P2!ReconcilerConstants
BY SpecConstants, TagConstants, ReconcilerConstants
   DEF P2!SpecConstants, P2!TagConstants, P2!ReconcilerConstants, P2!SpecType, P2!Value,
       P2!Int32Fields, P2!TagMap, P2!AllFaults, SpecType, Value, Int32Fields, TagMap, AllFaults

\* Neighbours' second Reconciler is the one that P2 is about.
LEMMA SecondIsP2 ==
    /\ Second!Init <=> P2!Init
    /\ Second!Controller <=> P2!Controller
    /\ Second!User <=> P2!User
    /\ Second!Forget <=> P2!Forget
<1> USE DEF
       Second!Opts, Second!LoggingModules, Second!Int32Fields, Second!LateInitFields,
       Second!CreateOnlyFields, Second!OptionsDiffer, Second!ScalarDelta, Second!LoggingDelta,
       Second!NetworkDelta, Second!Delta, Second!OutOfRange, Second!ToInt32, Second!Narrow,
       Second!CreatePayload, Second!UpdatePayload, Second!Reported, Second!FindSpec,
       Second!NilGroup, Second!Unset, Second!IncompleteLateInit, Second!FillFromObserved,
       Second!WithDefaults, Second!NoTags, Second!DefaultTags, Second!EnsureTags,
       Second!MirrorAWSTags, Second!IgnoreSystemTags, Second!ToAdd, Second!ToDelete,
       Second!Tagged, Second!Untagged, Second!CondTypes, Second!NoConds, Second!IsTerminal,
       Second!UpdateConditions, Second!ErrorOf, Second!ShowUpdateFailed,
       Second!LateInitFailed, Second!LateInitDone, Second!EnsureConditions, Second!crVars,
       Second!locals, Second!NoPatch, Second!NilSpec, Second!NewStatus, Second!Blank,
       Second!NoEnvironment, Second!Init, Second!Edit, Second!Fault, Second!CreateCR,
       Second!Immutable, Second!PatchSpec, Second!PatchTag, Second!DeleteCR, Second!User,
       Second!WithConds, Second!OnSuccess, Second!OnError, Second!Observed, Second!FindError,
       Second!NameMissing, Second!ReadOne, Second!ReadFailed, Second!ReadBy, Second!Answers,
       Second!Mirrored, Second!Return, Second!Fail, Second!Forget, Second!Retry, Second!Start,
       Second!NotManaged, Second!IsManaged, Second!AfterNotFound, Second!Read, Second!Manage,
       Second!Create, Second!ReadBack, Second!SpecDelta, Second!AddKeys, Second!DeleteKeys,
       Second!AfterTags, Second!Decide, Second!TagCallOK, Second!TagCallFails,
       Second!TagResource, Second!UntagResource, Second!SendUpdate, Second!LateInitialized,
       Second!PatchedFields, Second!PatchedTags, Second!Late, Second!LatePatch,
       Second!IsSynced, Second!Finish, Second!DeleteRead, Second!Busy, Second!DeleteFails,
       Second!DeleteCall, Second!DeleteFinish, Second!Unmanage, Second!Controller, P2!Opts,
       P2!LoggingModules, P2!Int32Fields, P2!LateInitFields, P2!CreateOnlyFields,
       P2!OptionsDiffer, P2!ScalarDelta, P2!LoggingDelta, P2!NetworkDelta, P2!Delta,
       P2!OutOfRange, P2!ToInt32, P2!Narrow, P2!CreatePayload, P2!UpdatePayload, P2!Reported,
       P2!FindSpec, P2!NilGroup, P2!Unset, P2!IncompleteLateInit, P2!FillFromObserved,
       P2!WithDefaults, P2!NoTags, P2!DefaultTags, P2!EnsureTags, P2!MirrorAWSTags,
       P2!IgnoreSystemTags, P2!ToAdd, P2!ToDelete, P2!Tagged, P2!Untagged, P2!CondTypes,
       P2!NoConds, P2!IsTerminal, P2!UpdateConditions, P2!ErrorOf, P2!ShowUpdateFailed,
       P2!LateInitFailed, P2!LateInitDone, P2!EnsureConditions, P2!crVars, P2!locals,
       P2!NoPatch, P2!NilSpec, P2!NewStatus, P2!Blank, P2!NoEnvironment, P2!Init, P2!Edit,
       P2!Fault, P2!CreateCR, P2!Immutable, P2!PatchSpec, P2!PatchTag, P2!DeleteCR, P2!User,
       P2!WithConds, P2!OnSuccess, P2!OnError, P2!Observed, P2!FindError, P2!NameMissing,
       P2!ReadOne, P2!ReadFailed, P2!ReadBy, P2!Answers, P2!Mirrored, P2!Return, P2!Fail,
       P2!Forget, P2!Retry, P2!Start, P2!NotManaged, P2!IsManaged, P2!AfterNotFound, P2!Read,
       P2!Manage, P2!Create, P2!ReadBack, P2!SpecDelta, P2!AddKeys, P2!DeleteKeys,
       P2!AfterTags, P2!Decide, P2!TagCallOK, P2!TagCallFails, P2!TagResource,
       P2!UntagResource, P2!SendUpdate, P2!LateInitialized, P2!PatchedFields, P2!PatchedTags,
       P2!Late, P2!LatePatch, P2!IsSynced, P2!Finish, P2!DeleteRead, P2!Busy, P2!DeleteFails,
       P2!DeleteCall, P2!DeleteFinish, P2!Unmanage, P2!Controller

<1>1. Second!Init <=> P2!Init
  OBVIOUS
<1>2. Second!Controller <=> P2!Controller
  OBVIOUS
<1>3. Second!User <=> P2!User
  OBVIOUS
<1>4. Second!Forget <=> P2!Forget
  OBVIOUS
<1>5. QED
  BY <1>1, <1>2, <1>3, <1>4

LEMMA SameEnvironments == P2!Environment = Environment
BY DEF P2!Environment, P2!EnvStatus, P2!UpdateStatus, P2!SpecType, P2!Value, P2!Int32Fields,
       P2!TagMap, Environment, EnvStatus, UpdateStatus, SpecType, Value, Int32Fields, TagMap

------------------------------------------------------------------------------
\* A lawful step for one of the CRs takes care of both.
LEMMA FirstCares ==
    ASSUME Cared, Lawful, UNCHANGED <<crPhase2, cr2>>, Track
    PROVE  Cared'
<1>1. There' => Holds' \/ P2!Holds'
  BY DEF Cared, Lawful, There, Holds, P2!Holds
<1>2. CASE env.status = "ABSENT" /\ env' # env
  BY <1>1, <1>2 DEF Cared, Lawful, Track, Managed
<1>3. CASE ~(env.status = "ABSENT" /\ env' # env)
  BY <1>1, <1>3 DEF Cared, Lawful, Track, Managed
<1>4. QED
  BY <1>2, <1>3

LEMMA SecondCares ==
    ASSUME Cared, P2!Lawful, UNCHANGED <<crPhase, cr>>, Track
    PROVE  Cared'
<1>1. There' => Holds' \/ P2!Holds'
  BY DEF Cared, P2!Lawful, There, P2!There, Holds, P2!Holds
<1>2. CASE env.status = "ABSENT" /\ env' # env
  BY <1>1, <1>2 DEF Cared, P2!Lawful, Track, Managed
<1>3. CASE ~(env.status = "ABSENT" /\ env' # env)
  BY <1>1, <1>3 DEF Cared, P2!Lawful, Track, Managed
<1>4. QED
  BY <1>2, <1>3

\* The user of a CR touches no environment, and the service makes none.
LEMMA WorldTracks ==
    /\ User \/ P2!User \/ Crash => env' = env
    /\ Service => env.status # "ABSENT"
BY DEF User, CreateCR, PatchSpec, PatchTag, DeleteCR,
       P2!User, P2!CreateCR, P2!PatchSpec, P2!PatchTag, P2!DeleteCR, Crash,
       Service, Complete, FinishCreate, FinishUpdate, FinishDelete, EndMaintenance,
       BecomeUnavailable, StartMaintenance, Drift, AddAwsTag

LEMMA FirstMoves ==
    ASSUME NInv, FirstStep \/ FirstUser \/ ServiceStep
    PROVE  NInv'
<1>1. Controller \/ User \/ Service
  BY DEF FirstStep, FirstUser, ServiceStep
<1>2. CInv' /\ Lawful
  BY <1>1, ControllerHold, WorldHold DEF NInv
<1>3. UNCHANGED <<crPhase2, cr2, pc2, desired2, latest2, err2, patch2, queued2>>
  BY DEF FirstStep, FirstUser, ServiceStep, second
<1>4. P2!CInv'
  <2>1. env' \in P2!Environment /\ edits' \in Nat /\ faults' \in Nat
    BY <1>2, SameEnvironments DEF CInv, TypeOK
  <2>2. FirstStep => pc2 = "idle"
    BY DEF FirstStep
  <2>3. FirstUser \/ ServiceStep => P2!Fades
    <3>1. FirstUser => env' = env
      BY WorldTracks DEF FirstUser
    <3>2. ServiceStep => Fades
      BY ServiceFades DEF ServiceStep, NInv, CInv
    <3>3. QED
      BY <3>1, <3>2 DEF Fades, P2!Fades
  <2>4. QED
    BY <1>3, <2>1, <2>2, <2>3, SecondConstants, P2!BesideHold DEF NInv
<1>5. pc' = "idle" \/ pc2' = "idle"
  BY <1>3 DEF NInv, FirstStep, FirstUser, ServiceStep, User, CreateCR, PatchSpec, PatchTag,
              DeleteCR, Service
<1>6. Cared'
  <2>1. Track
    BY WorldTracks DEF FirstStep, FirstUser, ServiceStep, Track
  <2>2. QED
    BY <1>2, <1>3, <2>1, FirstCares DEF NInv
<1>7. QED
  BY <1>2, <1>4, <1>5, <1>6 DEF NInv

LEMMA SecondMoves == ASSUME NInv, SecondStep \/ SecondUser PROVE NInv'
<1>1. P2!Controller \/ P2!User
  BY SecondIsP2 DEF SecondStep, SecondUser
<1>2. P2!CInv' /\ P2!Lawful
  BY <1>1, SecondConstants, P2!ControllerHold, P2!WorldHold DEF NInv
<1>3. UNCHANGED <<crPhase, cr, pc, desired, latest, err, patch, queued>>
  BY DEF SecondStep, SecondUser, first, crVars, locals
<1>4. CInv'
  <2>1. env' \in Environment /\ edits' \in Nat /\ faults' \in Nat
    BY <1>2, SameEnvironments DEF P2!CInv, P2!TypeOK
  <2>2. pc = "idle" \/ Fades
    BY SecondIsP2, WorldTracks DEF SecondStep, SecondUser, Fades
  <2>3. QED
    BY <1>3, <2>1, <2>2, BesideHold DEF NInv
<1>5. pc' = "idle" \/ pc2' = "idle"
  <2>1. SecondStep => pc = "idle"
    BY DEF SecondStep
  <2>2. SecondUser => pc2' = pc2
    BY SecondIsP2 DEF SecondUser, P2!User, P2!CreateCR, P2!PatchSpec, P2!PatchTag, P2!DeleteCR
  <2>3. QED
    BY <1>3, <2>1, <2>2 DEF NInv
<1>6. Cared'
  <2>1. Track
    BY SecondIsP2, WorldTracks DEF SecondStep, SecondUser, Track
  <2>2. QED
    BY <1>2, <1>3, <2>1, SecondCares DEF NInv
<1>7. QED
  BY <1>2, <1>4, <1>5, <1>6 DEF NInv

\* The process crashes for both.
LEMMA RestartKeeps == ASSUME NInv, Restart PROVE NInv'
<1>1. P2!Crash
  BY SecondIsP2 DEF Restart, Crash, Fault, P2!Crash, P2!Fault, P2!crVars
<1>2. CInv' /\ Lawful
  BY WorldHold DEF NInv, Restart
<1>3. P2!CInv'
  BY <1>1, SecondConstants, P2!WorldHold DEF NInv
<1>4. UNCHANGED <<crPhase2, cr2, owners, env>> /\ pc' = "idle"
  BY DEF Restart, Crash
<1>5. Cared'
  BY <1>2, <1>4, FirstCares DEF NInv, Track
<1>6. QED
  BY <1>2, <1>3, <1>4, <1>5 DEF NInv

LEMMA NeighboursInv == NeighboursSpec => []NInv
<1>1. NeighboursInit => NInv
  <2> SUFFICES ASSUME NeighboursInit
               PROVE  NInv
    OBVIOUS
  <2>1. CInv
    BY InitHold DEF NeighboursInit, HInv
  <2>2. P2!CInv
    BY SecondIsP2, SecondConstants, P2!InitHold DEF NeighboursInit, P2!HInv
  <2>3. pc = "idle" /\ env.status = "ABSENT"
    BY DEF NeighboursInit, Init, NoEnvironment
  <2>4. QED
    BY <2>1, <2>2, <2>3 DEF NInv, Cared, There
<1>2. NInv /\ [NeighboursNext]_neighbourVars => NInv'
  <2> SUFFICES ASSUME NInv, [NeighboursNext]_neighbourVars
               PROVE  NInv'
    OBVIOUS
  <2>1. CASE NeighboursNext
    BY <2>1, FirstMoves, SecondMoves, RestartKeeps DEF NeighboursNext
  <2>2. CASE UNCHANGED neighbourVars
    <3>1. UNCHANGED <<crPhase, cr, env, pc, desired, latest, err, patch, queued, edits, faults>>
          /\ UNCHANGED <<crPhase2, cr2, pc2, desired2, latest2, err2, patch2, queued2, owners>>
      BY <2>2 DEF neighbourVars, vars, second
    <3>2. env' \in Environment /\ edits' \in Nat /\ faults' \in Nat /\ Fades /\ P2!Fades
      BY <3>1 DEF NInv, CInv, TypeOK, Fades, P2!Fades
    <3>3. CInv' /\ P2!CInv'
      BY <3>1, <3>2, SameEnvironments, SecondConstants, BesideHold, P2!BesideHold DEF NInv
    <3>4. QED
      BY <3>1, <3>3 DEF NInv, Cared, There, Holds, P2!Holds, Managed
  <2>3. QED
    BY <2>1, <2>2
<1>3. QED
  BY <1>1, <1>2, PTL DEF NeighboursSpec

\* An environment is updated, tagged or deleted for none but a CR that had the
\* finalizer when it was made, however the two users and the failures follow each
\* other: the finalizer, once the environment is there, is not taken any more.
THEOREM OwnEnvironmentOnlyTheorem == NeighboursSpec => []OwnEnvironmentOnly
<1>1. NInv => OwnEnvironmentOnly
  <2> SUFFICES ASSUME NInv, EnvState = "there"
               PROVE  /\ pc \in Changing => 1 \in owners
                      /\ pc2 \in Changing => 2 \in owners
    BY DEF OwnEnvironmentOnly
  <2>1. Managed \subseteq owners
    BY DEF NInv, Cared, EnvState
  <2>2. pc \in Changing => cr.fin
    BY DEF NInv, CInv, Held, Changing, Touching, Removing
  <2>3. pc2 \in Changing => cr2.fin
    BY DEF NInv, P2!CInv, P2!Held, Changing, P2!Touching, P2!Removing
  <2>4. QED
    BY <2>1, <2>2, <2>3 DEF Managed
<1>2. QED
  BY <1>1, NeighboursInv, PTL

\* The environment has at all times a CR whose finalizer sees to its end.
THEOREM SomebodyHoldsTheorem == NeighboursSpec => []SomebodyHolds
<1>1. NInv => SomebodyHolds
  <2> SUFFICES ASSUME NInv, EnvState = "there"
               PROVE  {CrState, Second!CrState} \cap {"held", "leaving"} # {}
    BY DEF SomebodyHolds
  <2>1. Holds \/ P2!Holds
    BY DEF NInv, Cared, EnvState, There
  <2>2. Holds => CrState \in {"held", "leaving"}
    BY DEF Holds, CrState
  <2>3. P2!Holds => Second!CrState \in {"held", "leaving"}
    BY DEF P2!Holds, Second!CrState
  <2>4. QED
    BY <2>1, <2>2, <2>3
<1>2. QED
  BY <1>1, NeighboursInv, PTL
===============================================================================
