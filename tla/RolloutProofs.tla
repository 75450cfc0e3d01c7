----------------------------- MODULE RolloutProofs -----------------------------
(***************************************************************************)
(* An upgrade of the controller, for every set of fields, values, tags and *)
(* faults: as long as the two processes have not reconciled a CR that is   *)
(* being deleted at once, and with leader election they never have, what   *)
(* ReconcilerProofs says of one controller holds of either, and the steps  *)
(* of both are those of the abstract lifecycle.                            *)
(*                                                                         *)
(* P2 is LifecycleProofs over the variables of the new process.            *)
(***************************************************************************)
EXTENDS Rollout, LifecycleProofs

P2 == INSTANCE LifecycleProofs
      WITH pc <- pc2, desired <- desired2, latest <- latest2, err <- err2,
           patch <- patch2, queued <- queued2

\* Which of the two processes run: the new one does not begin before the lease of the
\* old one is free, and the old one takes with it what it was at.
Upgrade ==
    /\ election /\ leading => pods = "new"
    /\ pods = "old" => ~leading
    /\ ~OldRuns => pc = "idle" /\ ~desired.fin
    /\ ~leading => pc2 = "idle" /\ ~desired2.fin

\* Two that reconcile a CR that is being deleted are on record.
Recorded ==
    /\ "leaving" \in raced => ~election
    /\ TwoRun /\ crPhase = "deleting" => "leaving" \in raced

Unraced == "leaving" \notin raced

RolloutInv == Upgrade /\ Recorded /\ (Unraced => CInv /\ P2!CInv)

------------------------------------------------------------------------------
\* The constants of the new process are those of the old one.
LEMMA NewConstants ==
    P2!SpecConstants /\ P2!TagConstants /\ P2!ReconcilerConstants
BY SpecConstants, TagConstants, ReconcilerConstants
   DEF P2!SpecConstants, P2!TagConstants, P2!ReconcilerConstants, P2!SpecType, P2!Value,
       P2!Int32Fields, P2!TagMap, P2!AllFaults, SpecType, Value, Int32Fields, TagMap, AllFaults

\* The new process of Rollout is the one that P2 is about.
LEMMA NewIsP2 == New!Controller <=> P2!Controller
BY DEF
       New!Opts, New!LoggingModules, New!Int32Fields, New!LateInitFields,
       New!CreateOnlyFields, New!OptionsDiffer, New!ScalarDelta, New!LoggingDelta,
       New!NetworkDelta, New!Delta, New!OutOfRange, New!ToInt32, New!Narrow,
       New!CreatePayload, New!UpdatePayload, New!Reported, New!FindSpec, New!NilGroup,
       New!Unset, New!IncompleteLateInit, New!FillFromObserved, New!WithDefaults, New!NoTags,
       New!DefaultTags, New!EnsureTags, New!MirrorAWSTags, New!IgnoreSystemTags, New!ToAdd,
       New!ToDelete, New!Tagged, New!Untagged, New!CondTypes, New!NoConds, New!IsTerminal,
       New!UpdateConditions, New!ErrorOf, New!ShowUpdateFailed, New!LateInitFailed,
       New!LateInitDone, New!EnsureConditions, New!crVars, New!locals, New!NoPatch,
       New!NilSpec, New!NewStatus, New!Blank, New!Fault, New!WithConds, New!OnSuccess,
       New!OnError, New!Observed, New!FindError, New!NameMissing, New!ReadOne, New!ReadFailed,
       New!ReadBy, New!Answers, New!Mirrored, New!Return, New!Fail, New!Forget, New!Retry,
       New!Start, New!NotManaged, New!IsManaged, New!AfterNotFound, New!Read, New!Manage,
       New!Create, New!ReadBack, New!SpecDelta, New!AddKeys, New!DeleteKeys, New!AfterTags,
       New!Decide, New!TagCallOK, New!TagCallFails, New!TagResource, New!UntagResource,
       New!SendUpdate, New!LateInitialized, New!PatchedFields, New!PatchedTags, New!Late,
       New!LatePatch, New!IsSynced, New!Finish, New!DeleteRead, New!Busy, New!DeleteFails,
       New!DeleteCall, New!DeleteFinish, New!Unmanage, New!Controller, P2!Opts,
       P2!LoggingModules, P2!Int32Fields, P2!LateInitFields, P2!CreateOnlyFields,
       P2!OptionsDiffer, P2!ScalarDelta, P2!LoggingDelta, P2!NetworkDelta, P2!Delta,
       P2!OutOfRange, P2!ToInt32, P2!Narrow, P2!CreatePayload, P2!UpdatePayload, P2!Reported,
       P2!FindSpec, P2!NilGroup, P2!Unset, P2!IncompleteLateInit, P2!FillFromObserved,
       P2!WithDefaults, P2!NoTags, P2!DefaultTags, P2!EnsureTags, P2!MirrorAWSTags,
       P2!IgnoreSystemTags, P2!ToAdd, P2!ToDelete, P2!Tagged, P2!Untagged, P2!CondTypes,
       P2!NoConds, P2!IsTerminal, P2!UpdateConditions, P2!ErrorOf, P2!ShowUpdateFailed,
       P2!LateInitFailed, P2!LateInitDone, P2!EnsureConditions, P2!crVars, P2!locals,
       P2!NoPatch, P2!NilSpec, P2!NewStatus, P2!Blank, P2!Fault, P2!WithConds, P2!OnSuccess,
       P2!OnError, P2!Observed, P2!FindError, P2!NameMissing, P2!ReadOne, P2!ReadFailed,
       P2!ReadBy, P2!Answers, P2!Mirrored, P2!Return, P2!Fail, P2!Forget, P2!Retry, P2!Start,
       P2!NotManaged, P2!IsManaged, P2!AfterNotFound, P2!Read, P2!Manage, P2!Create,
       P2!ReadBack, P2!SpecDelta, P2!AddKeys, P2!DeleteKeys, P2!AfterTags, P2!Decide,
       P2!TagCallOK, P2!TagCallFails, P2!TagResource, P2!UntagResource, P2!SendUpdate,
       P2!LateInitialized, P2!PatchedFields, P2!PatchedTags, P2!Late, P2!LatePatch,
       P2!IsSynced, P2!Finish, P2!DeleteRead, P2!Busy, P2!DeleteFails, P2!DeleteCall,
       P2!DeleteFinish, P2!Unmanage, P2!Controller

LEMMA MapsIsP2 == P2!Maps <=> Maps
BY DEF Maps, Life!Next, Life!Submit, Life!Hold, Life!Make, Life!Withdraw, Life!Remove,
       Life!Gone, Life!Release, Life!lifecycle, CrState, EnvState,
       P2!Maps, P2!Life!Next, P2!Life!Submit, P2!Life!Hold, P2!Life!Make, P2!Life!Withdraw,
       P2!Life!Remove, P2!Life!Gone, P2!Life!Release, P2!Life!lifecycle, P2!CrState, P2!EnvState

\* Their CR and environment are the same, and a lawful step is one for both.
LEMMA SharedIsP2 ==
    /\ P2!Shared <=> Shared
    /\ P2!Spares <=> Spares
BY DEF Shared, Resource, Environment, EnvStatus, UpdateStatus, SpecType, Value, Int32Fields,
       TagMap, Status, Conds, CondTypes, CondStatus, P2!Shared, P2!Resource, P2!Environment,
       P2!EnvStatus, P2!UpdateStatus, P2!SpecType, P2!Value, P2!Int32Fields, P2!TagMap,
       P2!Status, P2!Conds, P2!CondTypes, P2!CondStatus, Spares, Fades, P2!Spares, P2!Fades

LEMMA NewShared == P2!CInv => Shared
BY NewConstants, P2!SharedHolds, SharedIsP2

------------------------------------------------------------------------------
\* No step takes anything off the record, and the overlap of a deletion is put on it.
LEMMA RecordKept ==
    ASSUME Upgrade', Recorded, Track, election' = election
    PROVE  Recorded' /\ (Unraced' => Unraced /\ ~(TwoRun' /\ crPhase' = "deleting"))
BY DEF Upgrade, Recorded, Track, Exposed, TwoRun, OldRuns, Unraced

\* A step of the old process: the new one is at rest, or the CR is not being deleted.
LEMMA OldMoves == ASSUME RolloutInv, OldStep PROVE RolloutInv'
<1>1. Upgrade' /\ TwoRun' = TwoRun
  BY DEF RolloutInv, Upgrade, OldStep, deployment, locals2, OldRuns, TwoRun
<1>2. Recorded' /\ (Unraced' => Unraced /\ ~(TwoRun' /\ crPhase' = "deleting"))
  BY <1>1, RecordKept DEF RolloutInv, OldStep, deployment
<1>3. ASSUME Unraced'
      PROVE  CInv' /\ P2!CInv'
  <2>1. CInv /\ P2!CInv
    BY <1>2, <1>3 DEF RolloutInv
  <2>2. CInv'
    BY <2>1, ControllerHold DEF OldStep
  <2>3. P2!Shared'
    BY <2>2, SharedHolds, SharedIsP2, PTL
  <2>4. /\ UNCHANGED <<pc2, desired2, latest2, err2, patch2>>
        /\ queued2' \in BOOLEAN
    BY DEF OldStep, Seen, locals2
  <2>5. CASE ~leading
    BY <2>1, <2>3, <2>4, <2>5, NewConstants, P2!ApartHold, <2>2 DEF RolloutInv, Upgrade
  <2>6. CASE leading
    <3>1. crPhase # "deleting"
      BY <1>2, <1>3, <2>6 DEF RolloutInv, Recorded, OldStep, TwoRun, Unraced
    <3>2. P2!Spares
      BY <2>1, <3>1, ControllerSpares, SharedIsP2 DEF OldStep
    <3>3. QED
      BY <2>1, <2>2, <2>3, <2>4, <3>2, NewConstants, P2!ApartHold
  <2>7. QED
    BY <2>5, <2>6
<1>4. QED
  BY <1>1, <1>2, <1>3 DEF RolloutInv

\* A step of the new process, which begins when its pod has.
LEMMA NewMoves == ASSUME RolloutInv, NewStep PROVE RolloutInv'
<1>1. (TwoRun' <=> OldRuns) /\ (TwoRun <=> OldRuns)
  BY DEF NewStep, deployment, OldRuns, TwoRun
<1>2. Upgrade'
  BY DEF RolloutInv, Upgrade, NewStep, deployment, locals, OldRuns
<1>3. Recorded' /\ (Unraced' => Unraced /\ ~(TwoRun' /\ crPhase' = "deleting"))
  BY <1>2, RecordKept DEF RolloutInv, NewStep, deployment
<1>4. ASSUME Unraced'
      PROVE  CInv' /\ P2!CInv'
  <2>1. CInv /\ P2!CInv /\ P2!Controller
    BY <1>3, <1>4, NewIsP2 DEF RolloutInv, NewStep
  <2>2. P2!CInv'
    BY <2>1, NewConstants, P2!ControllerHold
  <2>3. Shared'
    BY <2>2, NewShared, PTL
  <2>4. UNCHANGED <<pc, desired, latest, err, patch>> /\ queued' \in BOOLEAN
    BY DEF NewStep, Seen, locals
  <2>5. CASE ~OldRuns
    BY <2>1, <2>2, <2>3, <2>4, <2>5, ApartHold DEF RolloutInv, Upgrade
  <2>6. CASE OldRuns
    <3>1. crPhase # "deleting"
      BY <1>1, <1>3, <1>4, <2>6 DEF RolloutInv, Recorded, Unraced
    <3>2. Spares
      BY <2>1, <3>1, NewConstants, P2!ControllerSpares, SharedIsP2
    <3>3. QED
      BY <2>1, <2>2, <2>3, <2>4, <3>2, ApartHold
  <2>7. QED
    BY <2>5, <2>6
<1>5. QED
  BY <1>2, <1>3, <1>4 DEF RolloutInv

\* The user and the service leave the two processes where they are.
LEMMA WorldMoves == ASSUME RolloutInv, UserStep \/ ServiceStep PROVE RolloutInv'
<1>1. /\ UNCHANGED <<pc, desired, pc2, desired2, latest2, err2, patch2, election, pods, leading>>
      /\ Track
  BY DEF UserStep, ServiceStep, User, CreateCR, PatchSpec, PatchTag, DeleteCR, Service,
         deployment, new, locals, locals2
<1>2. Upgrade'
  BY <1>1 DEF RolloutInv, Upgrade, OldRuns
<1>3. Recorded' /\ (Unraced' => Unraced)
  BY <1>1, <1>2, RecordKept DEF RolloutInv
<1>4. ASSUME CInv, P2!CInv
      PROVE  CInv' /\ P2!CInv'
  <2>1. CInv' /\ Spares
    BY <1>4, WorldHold, WorldSpares DEF UserStep, ServiceStep
  <2>2. P2!Shared' /\ P2!Spares
    <3>1. P2!Shared'
      BY <2>1, SharedHolds, SharedIsP2, PTL
    <3>2. QED
      BY <2>1, <3>1, SharedIsP2
  <2>3. queued2' \in BOOLEAN
    BY <1>4 DEF UserStep, ServiceStep, new, P2!CInv, P2!TypeOK
  <2>4. P2!CInv'
    BY <1>1, <1>4, <2>2, <2>3, NewConstants, P2!ApartHold
  <2>5. QED
    BY <2>1, <2>4
<1>5. QED
  BY <1>2, <1>3, <1>4 DEF RolloutInv

\* A new pod, the lease, and the end of the old pod, whatever it was at.
LEMMA UpgradeMoves == ASSUME RolloutInv, StartNew \/ AcquireLease \/ StopOld PROVE RolloutInv'
<1>1. /\ UNCHANGED <<crPhase, cr, env, edits, faults, pc2, desired2, latest2, err2, patch2, election>>
      /\ Track
  BY DEF StartNew, AcquireLease, StopOld, world, crVars, new, locals2
<1>2. Upgrade'
  <2>1. CASE StartNew
    BY <2>1 DEF RolloutInv, Upgrade, StartNew, old, locals, locals2, OldRuns
  <2>2. CASE AcquireLease
    BY <2>2 DEF RolloutInv, Upgrade, AcquireLease, LeaseFree, old, locals, locals2, OldRuns
  <2>3. CASE StopOld
    BY <2>3, BlankFacts DEF RolloutInv, Upgrade, StopOld, Forget, new, locals2, OldRuns
  <2>4. QED
    BY <2>1, <2>2, <2>3
<1>3. Recorded' /\ (Unraced' => Unraced)
  BY <1>1, <1>2, RecordKept DEF RolloutInv
<1>4. ASSUME CInv, P2!CInv
      PROVE  CInv' /\ P2!CInv'
  <2>1. Shared'
    BY <1>1, <1>4, SharedHolds DEF Shared
  <2>2. Spares
    BY <1>1, <1>4 DEF Spares, Fades, CInv, TypeOK
  <2>3. CInv'
    <3>1. CASE StopOld
      BY <1>1, <1>4, <3>1, ForgetHold DEF StopOld
    <3>2. CASE StartNew \/ AcquireLease
      BY <1>4, <2>1, <2>2, <3>2, ApartHold DEF StartNew, AcquireLease, old, locals, CInv, TypeOK
    <3>3. QED
      BY <3>1, <3>2
  <2>4. P2!CInv'
    <3>1. queued2' \in BOOLEAN
      BY <1>4 DEF StartNew, AcquireLease, StopOld, Listed, new, P2!CInv, P2!TypeOK
    <3>2. P2!Shared' /\ P2!Spares
      <4>1. P2!Shared'
        BY <2>1, SharedIsP2, PTL
      <4>2. QED
        BY <2>2, <4>1, SharedIsP2
    <3>3. QED
      BY <1>1, <1>4, <3>1, <3>2, NewConstants, P2!ApartHold
  <2>5. QED
    BY <2>3, <2>4
<1>5. QED
  BY <1>2, <1>3, <1>4 DEF RolloutInv

LEMMA RolloutInvHolds == RolloutSpec => []RolloutInv
<1>1. RolloutInit => RolloutInv
  <2> SUFFICES ASSUME RolloutInit
               PROVE  RolloutInv
    OBVIOUS
  <2>1. CInv
    BY InitHold DEF RolloutInit, HInv
  <2>2. P2!CInv
    <3>1. P2!Init
      BY DEF RolloutInit, Init, Blank, NilSpec, NewStatus, NoPatch, NoTags, NoConds, CondTypes,
             NoEnvironment, P2!NoTags, P2!CondTypes, P2!NoConds, P2!NoPatch, P2!NilSpec,
             P2!NewStatus, P2!Blank, P2!NoEnvironment, P2!Init
    <3>2. QED
      BY <3>1, NewConstants, P2!InitHold DEF P2!HInv
  <2>3. Upgrade /\ Recorded
    BY BlankFacts DEF RolloutInit, Upgrade, Recorded, OldRuns, TwoRun, Init
  <2>4. QED
    BY <2>1, <2>2, <2>3 DEF RolloutInv
<1>2. RolloutInv /\ [RolloutNext]_rolloutVars => RolloutInv'
  <2> SUFFICES ASSUME RolloutInv, [RolloutNext]_rolloutVars
               PROVE  RolloutInv'
    OBVIOUS
  <2>1. CASE RolloutNext
    BY <2>1, OldMoves, NewMoves, WorldMoves, UpgradeMoves DEF RolloutNext
  <2>2. CASE UNCHANGED rolloutVars
    <3>1. RolloutInv <=> RolloutInv'
      BY <2>2 DEF rolloutVars, vars, new, locals2, deployment, RolloutInv, Upgrade, Recorded,
                  Unraced, OldRuns, TwoRun, CInv, TypeOK, Held, Named, Known,
                  P2!CInv, P2!TypeOK, P2!Held, P2!Named, P2!Known
    <3>2. QED
      BY <3>1
  <2>3. QED
    BY <2>1, <2>2
<1>3. QED
  BY <1>1, <1>2, PTL DEF RolloutSpec

------------------------------------------------------------------------------
\* A step of either process, of the user or the service is one of the lifecycle, and
\* the upgrade itself does not show.
LEMMA RolloutMaps == ASSUME RolloutInv, Unraced, [RolloutNext]_rolloutVars PROVE Maps
<1>1. CInv /\ P2!CInv
  BY DEF RolloutInv
<1>2. CASE OldStep
  BY <1>1, <1>2, ControllerMaps DEF OldStep
<1>3. CASE NewStep
  BY <1>1, <1>3, NewIsP2, NewConstants, P2!ControllerMaps, MapsIsP2 DEF NewStep
<1>4. CASE UserStep \/ ServiceStep
  BY <1>1, <1>4, UserMaps, ServiceMaps DEF UserStep, ServiceStep
<1>5. CASE StartNew \/ AcquireLease \/ StopOld \/ UNCHANGED rolloutVars
  BY <1>5, MapsStutter DEF StartNew, AcquireLease, StopOld, world, crVars, rolloutVars, vars
<1>6. QED
  BY <1>2, <1>3, <1>4, <1>5 DEF RolloutNext

\* With leader election an upgrade keeps the lifecycle; without it, until the two
\* processes reconcile the CR while it is being deleted.
THEOREM LifecycleKeptTheorem == RolloutSpec => LifecycleKept
<1>1. RolloutInv /\ [RolloutNext]_rolloutVars
      => [Life!Next \/ ("leaving" \in raced' /\ ~election)]_Life!lifecycle
  <2> SUFFICES ASSUME RolloutInv, [RolloutNext]_rolloutVars
               PROVE  [Life!Next \/ ("leaving" \in raced' /\ ~election)]_Life!lifecycle
    OBVIOUS
  <2>1. CASE Unraced
    BY <2>1, RolloutMaps DEF Maps
  <2>2. CASE ~Unraced
    <3>1. ~election
      BY <2>2 DEF RolloutInv, Recorded, Unraced
    <3>2. raced \subseteq raced'
      BY DEF RolloutNext, OldStep, NewStep, UserStep, ServiceStep, StartNew, AcquireLease,
             StopOld, Track, rolloutVars
    <3>3. QED
      BY <2>2, <3>1, <3>2 DEF Unraced
  <2>3. QED
    BY <2>1, <2>2
<1>2. QED
  BY <1>1, RolloutInvHolds, PTL DEF RolloutSpec, LifecycleKept
===============================================================================
