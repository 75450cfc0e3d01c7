---------------------------- MODULE ReconcilerTypes ----------------------------
(***************************************************************************)
(* The types of Reconciler: what its operators return, and that every step *)
(* keeps TypeOK, for every set of fields, values, tags and faults.         *)
(***************************************************************************)
EXTENDS Reconciler, TLAPS

------------------------------------------------------------------------------
\* Specs.

\* The int32 fields are fields of the spec, and the option map is none of them.
LEMMA Int32Facts == Int32Fields \subseteq Fields /\ Opts \notin Int32Fields
BY DEF Opts, Int32Fields

\* A number of an int32 field is converted to one that an int32 holds.
LEMMA ToInt32Range ==
    ASSUME NEW v \in Int
    PROVE  ToInt32(v) \in MinInt32 .. MaxInt32
BY SpecConstants, Z3 DEF ToInt32

\* The payloads are specs.
LEMMA PayloadType ==
    ASSUME NEW s \in SpecType
    PROVE  CreatePayload(s) \in SpecType /\ UpdatePayload(s) \in SpecType
<1>1. \A f \in Fields : Narrow(s, f) \in Value
  BY ToInt32Range, SpecConstants DEF Narrow, SpecType, Value
<1>2. \A f \in Int32Fields : Narrow(s, f) \in Int \cup {Nil}
  BY ToInt32Range, SpecConstants DEF Narrow, SpecType, Value
<1>3. QED
  BY <1>1, <1>2 DEF CreatePayload, UpdatePayload, SpecType, Value, Int32Fields

\* What ReadOne shows of a configuration is a spec.
LEMMA FindSpecType ==
    ASSUME NEW s \in SpecType, NEW cfg \in SpecType
    PROVE  FindSpec(s, cfg) \in SpecType
BY Int32Facts DEF FindSpec, Reported, SpecType, Value

\* Late initialization returns a spec.
LEMMA FillType ==
    ASSUME NEW o \in SpecType, NEW s \in SpecType
    PROVE  FillFromObserved(o, s) \in SpecType
BY Int32Facts DEF FillFromObserved, SpecType

\* The service's configurations are specs.
LEMMA AppliedType ==
    ASSUME NEW cfg \in SpecType, NEW p \in SpecType
    PROVE  Applied(cfg, p) \in SpecType
BY Int32Facts DEF Applied, SpecType

LEMMA DefaultsType ==
    ASSUME NEW cfg \in SpecType
    PROVE  WithDefaults(cfg, DefaultVal) \in SpecType
BY Int32Facts, ReconcilerConstants, SpecConstants DEF WithDefaults, SpecType, Value

\* The empty spec.
LEMMA NilSpecType == NilSpec \in SpecType
BY DEF NilSpec, SpecType, Value, Int32Fields

------------------------------------------------------------------------------
\* Tags.

\* Every function of the resource manager on tag maps returns a tag map.
LEMMA TagTypes ==
    ASSUME NEW t \in TagMap, NEW u \in TagMap, NEW keys
    PROVE  /\ NoTags \in TagMap
           /\ EnsureTags(t) \in TagMap
           /\ MirrorAWSTags(t, u) \in TagMap
           /\ Tagged(t, u, keys) \in TagMap
           /\ Untagged(t, keys) \in TagMap
BY TagConstants DEF NoTags, EnsureTags, DefaultTags, MirrorAWSTags, Tagged, Untagged, TagMap

------------------------------------------------------------------------------
\* Conditions.

\* Every function on conditions returns conditions.
LEMMA CondsTypes ==
    ASSUME NEW c \in Conds
    PROVE  /\ NoConds \in Conds
           /\ \A e : UpdateConditions(c, e) \in Conds
           /\ ShowUpdateFailed(c) \in Conds
           /\ LateInitFailed(c) \in Conds
           /\ LateInitDone(c) \in Conds
           /\ \A e : \A b : \A t \in {"True", "False"} : EnsureConditions(c, e, b, t) \in Conds
           /\ [c EXCEPT !["Terminal"] = "True"] \in Conds
BY DEF NoConds, UpdateConditions, ShowUpdateFailed, LateInitFailed, LateInitDone,
       EnsureConditions, Conds, CondStatus, CondTypes

\* onError returns an error.
LEMMA ErrorOfType ==
    ASSUME NEW c, NEW e
    PROVE  ErrorOf(c, e) \in Errors \ {"none"}
BY DEF ErrorOf, Errors

\* Only NotFound ends as NotFound: a failed read and a failure state do not.
LEMMA NotFoundOnly ==
    ASSUME NEW c \in Conds, NEW e, ErrorOf(c, e) = "NotFound"
    PROVE  e = "NotFound"
BY DEF ErrorOf

------------------------------------------------------------------------------
\* Resources.

\* Replacing the conditions, the spec, the tags or the finalizer of a resource
\* gives a resource.
LEMMA ResourceTypes ==
    ASSUME NEW r \in Resource
    PROVE  /\ \A c \in Conds : WithConds(r, c) \in Resource
           /\ \A s \in SpecType : [r EXCEPT !.spec = s] \in Resource
           /\ \A t \in TagMap : [r EXCEPT !.tags = t] \in Resource
           /\ \A b \in BOOLEAN : [r EXCEPT !.fin = b] \in Resource
           /\ \A q \in Resource : [r EXCEPT !.stat = q.stat] \in Resource
           /\ r.spec \in SpecType /\ r.tags \in TagMap /\ r.fin \in BOOLEAN
           /\ r.stat \in Status /\ r.stat.conds \in Conds
BY DEF WithConds, Resource, Status

\* A new CR, and the empty one that the controller's variables hold when idle.
LEMMA BlankType ==
    /\ Blank \in Resource
    /\ \A s \in SpecType, t \in TagMap :
           [Blank EXCEPT !.spec = s, !.tags = t] \in Resource
    /\ NoEnvironment \in Environment
    /\ NoPatch \in Patch
<1>1. NewStatus \in Status
  BY CondsTypes
     DEF NewStatus, Status, EnvStatus, UpdateStatus, NoConds, Conds, CondStatus
<1>2. NoTags \in TagMap
  BY DEF NoTags, TagMap
<1>3. QED
  BY <1>1, <1>2, NilSpecType
     DEF Blank, Resource, NoEnvironment, Environment, EnvStatus, UpdateStatus, NoPatch, Patch

\* onSuccess and onError return a resource.
LEMMA OutcomeTypes ==
    ASSUME NEW r \in Resource, NEW e
    PROVE  /\ OnSuccess(r) \in Resource
           /\ OnError(r, e).res \in Resource
           /\ OnError(r, e).err \in Errors \ {"none"}
BY ResourceTypes, CondsTypes, ErrorOfType DEF OnSuccess, OnError, Resource, Status

\* What sdkFind makes of the service's answer is a resource.
LEMMA ObservedType ==
    ASSUME NEW r \in Resource, env \in Environment
    PROVE  Observed(r) \in Resource
<1>1. FindSpec(r.spec, env.cfg) \in SpecType
  BY FindSpecType DEF Resource, Environment
<1>2. QED
  BY <1>1 DEF Observed, Resource, Status, Environment

Answer == [out : [res : Resource, err : Errors], found : BOOLEAN]

\* ReadOne returns a resource and an error, whatever the service says.
LEMMA AnswerType ==
    ASSUME NEW r \in Resource, env \in Environment
    PROVE  /\ \A a \in Answers(r) : a.out.res \in Resource /\ a.out.err \in Errors
           /\ \A a \in Answers(r) : Mirrored(r, a) \in Resource
           /\ \A a \in Answers(r) : Mirrored(r, a).spec = r.spec /\ Mirrored(r, a).fin = r.fin
<1> DEFINE o == Observed(r)
<1>1. o \in Resource
  BY ObservedType
<1>2. \A c \in Conds : \A e :
        /\ OnError(WithConds(o, c), e).res \in Resource
        /\ OnError(WithConds(o, c), e).err \in Errors
  <2> TAKE c \in Conds
  <2> TAKE e
  <2> HIDE DEF o
  <2>3. WithConds(o, c) \in Resource
    BY <1>1, ResourceTypes
  <2>4. QED
    BY <2>3, OutcomeTypes
<1>3. ShowUpdateFailed(o.stat.conds) \in Conds /\ o.stat.conds \in Conds
  BY <1>1, CondsTypes DEF Resource, Status
<1>4. /\ \A e : OnError(r, e).res \in Resource /\ OnError(r, e).err \in Errors
      /\ OnSuccess(o) \in Resource
  BY <1>1, OutcomeTypes
<1>5. ReadOne(r).out.res \in Resource /\ ReadOne(r).out.err \in Errors
  <2> HIDE DEF o
  <2>1. QED
    BY <1>2, <1>3, <1>4 DEF ReadOne, Errors, o
<1>6. ReadFailed(r).out.res \in Resource /\ ReadFailed(r).out.err \in Errors
  BY <1>4 DEF ReadFailed
<1>7. ASSUME NEW a
      PROVE  /\ Mirrored(r, a) \in Resource
             /\ Mirrored(r, a).spec = r.spec /\ Mirrored(r, a).fin = r.fin
  <2>1. MirrorAWSTags(r.tags, env.tags) \in TagMap
    BY TagTypes DEF Resource, Environment
  <2>2. QED
    BY <2>1 DEF Mirrored, Resource
<1>8. QED
  BY <1>5, <1>6, <1>7 DEF Answers

\* LateInitialize returns a resource with the spec it has filled in.
LEMMA LateInitializedType ==
    ASSUME NEW r \in Resource, env \in Environment, NEW a \in Answers(r)
    PROVE  /\ LateInitialized(r, a) \in Resource
           /\ LateInitialized(r, a).spec = FillFromObserved(a.out.res.spec, r.spec)
<1> DEFINE filled == FillFromObserved(a.out.res.spec, r.spec)
<1>1. filled \in SpecType
  BY AnswerType, FillType DEF Resource
<1>2. Mirrored(r, a) \in Resource
  BY AnswerType
<1>3. LateInitFailed(r.stat.conds) \in Conds /\ LateInitDone(r.stat.conds) \in Conds
  BY CondsTypes DEF Resource, Status
<1> HIDE DEF filled
<1>4. \A c \in Conds : /\ [WithConds(Mirrored(r, a), c) EXCEPT !.spec = filled] \in Resource
                       /\ [WithConds(Mirrored(r, a), c) EXCEPT !.spec = filled].spec = filled
  BY <1>1, <1>2, ResourceTypes DEF Resource
<1>5. QED
  BY <1>3, <1>4 DEF LateInitialized, filled

------------------------------------------------------------------------------
\* The steps of the user and of the service.

\* Everything the user may write is of the CR's type.
LEMMA UserType == ASSUME TypeOK, User PROVE TypeOK'
<1>1. CASE CreateCR
  <2>1. \A s \in InitSpecs, t \in InitTags : [Blank EXCEPT !.spec = s, !.tags = t] \in Resource
    BY BlankType, ReconcilerConstants
  <2>2. PICK s \in InitSpecs, t \in InitTags : cr' = [Blank EXCEPT !.spec = s, !.tags = t]
    BY <1>1 DEF CreateCR
  <2>3. cr' \in Resource
    BY <2>1, <2>2
  <2>4. QED
    BY <1>1, <2>3 DEF CreateCR, Edit, TypeOK, locals
<1>2. ASSUME NEW f \in Fields, NEW v \in PatchVals[f], PatchSpec(f, v)
      PROVE  TypeOK'
  <2>1. cr \in Resource
    BY DEF TypeOK
  <2>2. [cr.spec EXCEPT ![f] = v] \in SpecType
    <3>1. cr.spec \in SpecType /\ v \in Value /\ (f \in Int32Fields => v \in Int \cup {Nil})
      BY <2>1, ReconcilerConstants DEF Resource
    <3>2. QED
      BY <3>1, Int32Facts DEF SpecType
  <2>3. cr' \in Resource
    BY <1>2, <2>1, <2>2, ResourceTypes DEF PatchSpec
  <2>4. QED
    BY <1>2, <2>3 DEF PatchSpec, Edit, TypeOK, locals
<1>3. ASSUME NEW k \in TagKeys, NEW v \in TagVals \cup {NoTag}, PatchTag(k, v)
      PROVE  TypeOK'
  <2>1. cr \in Resource
    BY DEF TypeOK
  <2>2. [cr.tags EXCEPT ![k] = v] \in TagMap
    BY <2>1 DEF Resource, TagMap
  <2>3. cr' \in Resource
    BY <1>3, <2>1, <2>2, ResourceTypes DEF PatchTag
  <2>4. QED
    BY <1>3, <2>3 DEF PatchTag, Edit, TypeOK, locals
<1>4. CASE DeleteCR
  <2>1. cr \in Resource /\ cr.fin \in BOOLEAN
    BY ResourceTypes DEF TypeOK
  <2>2. cr' \in Resource /\ crPhase' \in {"absent", "live", "deleting"}
    BY <1>4, <2>1, BlankType DEF DeleteCR
  <2>3. queued' \in BOOLEAN
    BY <1>4, <2>1, Zenon DEF DeleteCR
  <2>4. QED
    BY <1>4, <2>2, <2>3 DEF DeleteCR, Edit, TypeOK, locals
<1>5. QED
  BY <1>1, <1>2, <1>3, <1>4 DEF User

\* The service replaces a status, a configuration or tags of the environment.
LEMMA EnvironmentTypes ==
    ASSUME NEW e \in Environment
    PROVE  /\ \A st \in EnvStatus : [e EXCEPT !.status = st] \in Environment
           /\ \A cfg \in SpecType : [e EXCEPT !.cfg = cfg] \in Environment
           /\ \A t \in TagMap : [e EXCEPT !.tags = t] \in Environment
           /\ e.cfg \in SpecType /\ e.tried \in SpecType /\ e.tags \in TagMap
BY DEF Environment

\* What the service does by itself keeps the environment's type.
LEMMA ServiceType == ASSUME TypeOK, Service PROVE TypeOK'
<1>1. env \in Environment
  BY DEF TypeOK
<1>2. {"AVAILABLE", "CREATE_FAILED", "UNAVAILABLE", "MAINTENANCE"} \subseteq EnvStatus
      /\ {"SUCCESS", "FAILED"} \subseteq UpdateStatus
  BY DEF EnvStatus, UpdateStatus
<1>3. /\ WithDefaults(env.cfg, DefaultVal) \in SpecType
      /\ Applied(env.cfg, env.tried) \in SpecType
  BY <1>1, EnvironmentTypes, DefaultsType, AppliedType
<1>4. faults' \in Nat
  BY DEF TypeOK, Service, Complete, FinishCreate, FinishUpdate, FinishDelete,
         EndMaintenance, BecomeUnavailable, StartMaintenance, Drift, AddAwsTag, Fault
<1>5. env' \in Environment
  <2>1. CASE Complete
    <3>1. CASE FinishCreate
      BY <3>1, <1>1, <1>2, <1>3 DEF FinishCreate, Environment
    <3>2. CASE FinishUpdate
      BY <3>2, <1>1, <1>2, <1>3 DEF FinishUpdate, Environment
    <3>3. CASE FinishDelete
      BY <3>3, BlankType DEF FinishDelete
    <3>4. CASE EndMaintenance
      BY <3>4, <1>1, <1>2 DEF EndMaintenance, Environment
    <3>5. QED
      BY <2>1, <3>1, <3>2, <3>3, <3>4 DEF Complete
  <2>2. CASE BecomeUnavailable \/ StartMaintenance
    BY <2>2, <1>1, <1>2, EnvironmentTypes DEF BecomeUnavailable, StartMaintenance
  <2>3. CASE Drift
    <3>0. PICK f \in Fields : \E v \in PatchVals[f] :
              env' = [env EXCEPT !.cfg = [@ EXCEPT ![f] = v]]
      BY <2>3 DEF Drift
    <3>1. PICK v \in PatchVals[f] : env' = [env EXCEPT !.cfg = [@ EXCEPT ![f] = v]]
      BY <3>0
    <3>2. v \in Value /\ (f \in Int32Fields => v \in Int \cup {Nil})
      BY ReconcilerConstants
    <3>3. [env.cfg EXCEPT ![f] = v] \in SpecType
      BY <1>1, <3>2, EnvironmentTypes, Int32Facts DEF SpecType
    <3>4. QED
      BY <1>1, <3>1, <3>3, EnvironmentTypes
  <2>4. CASE AddAwsTag
    <3>1. PICK k \in AwsKeys, v \in TagVals :
              env' = [env EXCEPT !.tags = [@ EXCEPT ![k] = v]]
      BY <2>4 DEF AddAwsTag
    <3>2. [env.tags EXCEPT ![k] = v] \in TagMap
      BY <1>1, TagConstants, EnvironmentTypes DEF TagMap
    <3>3. QED
      BY <1>1, <3>1, <3>2, EnvironmentTypes
  <2>5. QED
    BY <2>1, <2>2, <2>3, <2>4 DEF Service
<1>6. QED
  BY <1>4, <1>5 DEF Service, TypeOK, crVars, locals

------------------------------------------------------------------------------
\* The steps of the controller: a sync.

\* The calls that a reconciliation ends with, and the counter of faults.
LEMMA EndTypes ==
    ASSUME TypeOK
    PROVE  /\ \A r \in Resource : \A e : Fail(r, e) =>
                  latest' \in Resource /\ err' \in Errors /\ pc' \in Steps
           /\ \A r \in Resource : \A e \in Errors : Return(r, e) =>
                  latest' \in Resource /\ err' \in Errors /\ pc' \in Steps
           /\ \A k : Fault(k) => faults' \in Nat
           /\ Forget => /\ desired' \in Resource /\ latest' \in Resource
                        /\ err' \in Errors /\ patch' \in Patch
<1>1. \A r \in Resource : \A e : OnError(r, e).res \in Resource /\ OnError(r, e).err \in Errors
  BY OutcomeTypes
<1>2. \A r \in Resource : \A e : Fail(r, e) =>
          latest' \in Resource /\ err' \in Errors /\ pc' \in Steps
  BY <1>1 DEF Fail, Return, Steps
<1>3. \A k : Fault(k) => faults' \in Nat
  BY DEF Fault, TypeOK
<1>4. Forget => /\ desired' \in Resource /\ latest' \in Resource
                /\ err' \in Errors /\ patch' \in Patch
  BY BlankType DEF Forget, Errors
<1>5. QED
  BY <1>2, <1>3, <1>4 DEF Return, Steps

\* What a reconciliation starts with.
LEMMA StartType == ASSUME TypeOK, Start PROVE TypeOK'
<1>1. cr \in Resource
  BY DEF TypeOK
<1>2. [WithConds(cr, NoConds) EXCEPT !.tags = EnsureTags(@)] \in Resource
  <2>1. NoConds \in Conds
    BY <1>1, ResourceTypes, CondsTypes
  <2>2. WithConds(cr, NoConds) \in Resource
    BY <1>1, <2>1, ResourceTypes
  <2>3. EnsureTags(WithConds(cr, NoConds).tags) \in TagMap
    BY <2>2, ResourceTypes, TagTypes
  <2>4. QED
    BY <2>2, <2>3, ResourceTypes
<1>3. desired' \in Resource /\ pc' \in Steps /\ queued' \in BOOLEAN
  BY <1>1, <1>2 DEF Start, Steps
<1>4. QED
  BY <1>3 DEF Start, TypeOK, crVars

\* What a read leaves behind.
LEMMA ReadType == ASSUME TypeOK, Read PROVE TypeOK'
<1>1. desired \in Resource /\ env \in Environment
  BY DEF TypeOK
<1>2. PICK a \in Answers(desired) :
          /\ ReadBy(desired, a)
          /\ desired' = Mirrored(desired, a)
          /\ \/ pc' = AfterNotFound(desired) /\ UNCHANGED <<latest, err>>
             \/ Return(a.out.res, a.out.err)
             \/ Return(NotManaged(a.out.res), "Terminal")
             \/ latest' = a.out.res /\ pc' = "update" /\ UNCHANGED err
  BY DEF Read
<1>3. a.out.res \in Resource /\ a.out.err \in Errors /\ desired' \in Resource
  BY <1>1, <1>2, AnswerType
<1>4. NotManaged(a.out.res) \in Resource
  BY <1>3, ResourceTypes, CondsTypes DEF NotManaged
<1>5. latest' \in Resource /\ err' \in Errors /\ pc' \in Steps
  <2>1. CASE pc' = AfterNotFound(desired) /\ UNCHANGED <<latest, err>>
    BY <2>1 DEF TypeOK, AfterNotFound, Steps
  <2>2. CASE \/ Return(a.out.res, a.out.err) \/ Return(NotManaged(a.out.res), "Terminal")
    BY <1>3, <1>4, <2>2, EndTypes DEF Errors
  <2>3. CASE latest' = a.out.res /\ pc' = "update" /\ UNCHANGED err
    BY <1>3, <2>3 DEF TypeOK, Steps
  <2>4. QED
    BY <1>2, <2>1, <2>2, <2>3
<1>6. faults' \in Nat
  BY <1>2, EndTypes DEF ReadBy, TypeOK
<1>7. QED
  BY <1>3, <1>5, <1>6 DEF Read, TypeOK, crVars

\* The finalizer is set on the CR and on the copy.
LEMMA ManageType == ASSUME TypeOK, Manage PROVE TypeOK'
<1>1. cr \in Resource /\ desired \in Resource
  BY DEF TypeOK
<1>2. [cr EXCEPT !.fin = TRUE] \in Resource /\ [desired EXCEPT !.fin = TRUE] \in Resource
  BY <1>1, ResourceTypes
<1>3. /\ cr' \in Resource /\ desired' \in Resource
      /\ latest' \in Resource /\ err' \in Errors /\ pc' \in Steps /\ faults' \in Nat
  BY <1>1, <1>2, EndTypes DEF Manage, TypeOK, Steps, Errors
<1>4. QED
  BY <1>3 DEF Manage, TypeOK

\* The environment that CreateEnvironment makes.
LEMMA CreateType == ASSUME TypeOK, Create PROVE TypeOK'
<1>1. desired \in Resource /\ env \in Environment
  BY DEF TypeOK
<1>2. CreatePayload(desired.spec) \in SpecType
  BY <1>1, PayloadType, ResourceTypes
<1>3. WithDefaults(CreatePayload(desired.spec), DefaultVal) \in SpecType
  BY <1>2, DefaultsType
<1>4. \A cfg \in SpecType :
          [status |-> "CREATING", cfg |-> cfg, tried |-> cfg,
           last |-> "unset", tags |-> desired.tags] \in Environment
  BY <1>1 DEF Environment, Resource, EnvStatus, UpdateStatus
<1>5. env' \in Environment
  BY <1>1, <1>2, <1>3, <1>4 DEF Create
<1>6. OnSuccess(desired) \in Resource
  BY <1>1, OutcomeTypes
<1>7. latest' \in Resource /\ err' \in Errors /\ pc' \in Steps /\ faults' \in Nat
  BY <1>1, <1>6, EndTypes DEF Create, TypeOK, Steps
<1>8. QED
  BY <1>5, <1>7 DEF Create, TypeOK, crVars

\* What the read after a creation leaves behind.
LEMMA ReadBackType == ASSUME TypeOK, ReadBack PROVE TypeOK'
<1>1. latest \in Resource /\ env \in Environment
  BY DEF TypeOK
<1>2. PICK a \in Answers(latest) :
          /\ ReadBy(latest, a)
          /\ \/ /\ latest' = [Mirrored(latest, a) EXCEPT !.stat = a.out.res.stat]
                /\ pc' = "late" /\ UNCHANGED err
             \/ Return(Mirrored(latest, a),
                       IF a.out.err = "Terminal" THEN "Terminal" ELSE "Requeue")
  BY DEF ReadBack
<1>3. a.out.res \in Resource /\ Mirrored(latest, a) \in Resource
  BY <1>1, AnswerType
<1>4. [Mirrored(latest, a) EXCEPT !.stat = a.out.res.stat] \in Resource
  BY <1>3, ResourceTypes
<1>5. latest' \in Resource /\ err' \in Errors /\ pc' \in Steps
  BY <1>2, <1>3, <1>4, EndTypes DEF TypeOK, Steps, Errors
<1>6. faults' \in Nat
  BY <1>2, EndTypes DEF ReadBy, TypeOK
<1>7. QED
  BY <1>5, <1>6 DEF ReadBack, TypeOK, crVars

\* The comparison changes nothing but the course of the sync.
LEMMA DecideType == ASSUME TypeOK, Decide PROVE TypeOK'
<1>1. latest' \in Resource /\ err' \in Errors /\ pc' \in Steps
  BY EndTypes DEF Decide, TypeOK, Steps
<1>2. QED
  BY <1>1 DEF Decide, TypeOK, crVars

\* A call for tags changes the environment's tags only.
LEMMA TagResourceType == ASSUME TypeOK, TagResource PROVE TypeOK'
<1>1. desired \in Resource /\ latest \in Resource /\ env \in Environment
  BY DEF TypeOK
<1>2. Tagged(env.tags, desired.tags, AddKeys) \in TagMap
  BY <1>1, ResourceTypes, EnvironmentTypes, TagTypes
<1>3. env' \in Environment
  BY <1>1, <1>2, EnvironmentTypes DEF TagResource
<1>4. OnSuccess(desired) \in Resource
  BY <1>1, OutcomeTypes
<1>5. latest' \in Resource /\ err' \in Errors /\ pc' \in Steps /\ faults' \in Nat
  BY <1>1, <1>4, EndTypes DEF TagResource, AfterTags, TagCallFails, TypeOK, Steps
<1>6. QED
  BY <1>3, <1>5 DEF TagResource, TypeOK, crVars

LEMMA UntagResourceType == ASSUME TypeOK, UntagResource PROVE TypeOK'
<1>1. desired \in Resource /\ latest \in Resource /\ env \in Environment
  BY DEF TypeOK
<1>2. Untagged(env.tags, DeleteKeys) \in TagMap
  BY <1>1, ResourceTypes, EnvironmentTypes, TagTypes
<1>3. env' \in Environment
  BY <1>1, <1>2, EnvironmentTypes DEF UntagResource
<1>4. OnSuccess(desired) \in Resource
  BY <1>1, OutcomeTypes
<1>5. latest' \in Resource /\ err' \in Errors /\ pc' \in Steps /\ faults' \in Nat
  BY <1>1, <1>4, EndTypes DEF UntagResource, AfterTags, TagCallFails, TypeOK, Steps
<1>6. QED
  BY <1>3, <1>5 DEF UntagResource, TypeOK, crVars

\* What an update is tried with is a spec.
LEMMA SendUpdateType == ASSUME TypeOK, SendUpdate PROVE TypeOK'
<1>1. desired \in Resource /\ latest \in Resource /\ env \in Environment
  BY DEF TypeOK
<1>2. UpdatePayload(desired.spec) \in SpecType
  BY <1>1, ResourceTypes, PayloadType
<1>3. [env EXCEPT !.status = "UPDATING", !.last = "PENDING",
                  !.tried = UpdatePayload(desired.spec)] \in Environment
  BY <1>1, <1>2 DEF Environment, EnvStatus, UpdateStatus
<1>4. env' \in Environment
  BY <1>1, <1>3 DEF SendUpdate
<1>5. OnSuccess(desired) \in Resource
  BY <1>1, OutcomeTypes
<1>6. latest' \in Resource /\ err' \in Errors /\ pc' \in Steps /\ faults' \in Nat
  BY <1>1, <1>5, EndTypes DEF SendUpdate, TypeOK, Steps
<1>7. QED
  BY <1>4, <1>6 DEF SendUpdate, TypeOK, crVars

\* Late initialization, its patch and the end of a sync.
LEMMA LateType == ASSUME TypeOK, Late PROVE TypeOK'
<1>1. latest \in Resource /\ env \in Environment
  BY DEF TypeOK
<1>2. PICK a \in Answers(latest) :
          /\ ReadBy(latest, a)
          /\ \/ /\ Return(WithConds(latest, LateInitFailed(latest.stat.conds)),
                          IF a.out.err = "Terminal" THEN "Terminal" ELSE "Requeue")
                /\ UNCHANGED patch
             \/ /\ latest' = LateInitialized(latest, a)
                /\ patch' = [fields |-> PatchedFields(latest, LateInitialized(latest, a)),
                             tags |-> PatchedTags(latest, LateInitialized(latest, a))]
                /\ err' \in {"Requeue", "none"}
                /\ pc' \in {"finish", "latepatch"}
  BY DEF Late
<1>3. LateInitialized(latest, a) \in Resource
  BY <1>1, LateInitializedType
<1>4. WithConds(latest, LateInitFailed(latest.stat.conds)) \in Resource
  BY <1>1, ResourceTypes, CondsTypes
<1>5. [fields |-> PatchedFields(latest, LateInitialized(latest, a)),
       tags |-> PatchedTags(latest, LateInitialized(latest, a))] \in Patch
  BY DEF Patch, PatchedFields, PatchedTags
<1>6. latest' \in Resource /\ err' \in Errors /\ pc' \in Steps /\ patch' \in Patch
  BY <1>2, <1>3, <1>4, <1>5, EndTypes DEF TypeOK, Steps, Errors
<1>7. faults' \in Nat
  BY <1>2, EndTypes DEF ReadBy, TypeOK
<1>8. QED
  BY <1>6, <1>7 DEF Late, TypeOK, crVars

LEMMA LatePatchType == ASSUME TypeOK, LatePatch PROVE TypeOK'
<1>1. cr \in Resource /\ latest \in Resource
  BY DEF TypeOK
<1>2. [f \in Fields |-> IF f \in patch.fields THEN latest.spec[f] ELSE cr.spec[f]] \in SpecType
  BY <1>1, Int32Facts, ResourceTypes DEF SpecType
<1>3. [k \in TagKeys |-> IF k \in patch.tags THEN latest.tags[k] ELSE cr.tags[k]] \in TagMap
  BY <1>1, ResourceTypes DEF TagMap
<1>4. cr' \in Resource
  <2>1. \A s \in SpecType, t \in TagMap : [cr EXCEPT !.spec = s, !.tags = t] \in Resource
    BY <1>1 DEF Resource
  <2>2. QED
    BY <1>1, <1>2, <1>3, <2>1 DEF LatePatch
<1>5. faults' \in Nat /\ err' \in Errors /\ pc' \in Steps /\ queued' \in BOOLEAN
  BY EndTypes DEF LatePatch, TypeOK, Steps, Errors
<1>6. QED
  BY <1>4, <1>5 DEF LatePatch, TypeOK

LEMMA RetryType == ASSUME TypeOK, NEW e, Retry(e) PROVE queued' \in BOOLEAN
BY Zenon DEF Retry

LEMMA FinishType == ASSUME TypeOK, Finish PROVE TypeOK'
<1>1. cr \in Resource /\ latest \in Resource
  BY DEF TypeOK
<1>2. \A b : \A onTerminal \in {"True", "False"} :
          WithConds(latest, EnsureConditions(latest.stat.conds, err, b, onTerminal)) \in Resource
  BY <1>1, ResourceTypes, CondsTypes
<1>3. cr' \in Resource
  BY <1>1, <1>2, ResourceTypes DEF Finish
<1>4. queued' \in BOOLEAN
  BY RetryType DEF Finish
<1>5. QED
  BY <1>3, <1>4, EndTypes DEF Finish, TypeOK, Steps

------------------------------------------------------------------------------
\* The steps of the controller: a deletion; and a crash.

LEMMA DeleteReadType == ASSUME TypeOK, DeleteRead PROVE TypeOK'
<1>1. desired \in Resource /\ env \in Environment
  BY DEF TypeOK
<1>2. PICK a \in Answers(desired) :
          /\ ReadBy(desired, a)
          /\ \/ /\ pc' = "delcall" /\ latest' = a.out.res
                /\ UNCHANGED <<desired, err, patch, queued>>
             \/ pc' = "unmanage" /\ UNCHANGED <<locals, queued>>
             \/ pc' = "idle" /\ Retry(a.out.err) /\ Forget
  BY DEF DeleteRead
<1>3. a.out.res \in Resource
  BY <1>1, AnswerType
<1>4. /\ desired' \in Resource /\ latest' \in Resource /\ err' \in Errors
      /\ patch' \in Patch /\ pc' \in Steps
  BY <1>2, <1>3, EndTypes DEF TypeOK, locals, Steps
<1>5. queued' \in BOOLEAN
  BY <1>2, RetryType DEF TypeOK
<1>6. faults' \in Nat
  BY <1>2, EndTypes DEF ReadBy, TypeOK
<1>7. QED
  BY <1>4, <1>5, <1>6 DEF DeleteRead, TypeOK, crVars

LEMMA DeleteCallType == ASSUME TypeOK, DeleteCall PROVE TypeOK'
<1>1. latest \in Resource /\ env \in Environment
  BY DEF TypeOK
<1>2. [env EXCEPT !.status = "DELETING"] \in Environment
  BY <1>1, EnvironmentTypes DEF EnvStatus
<1>3. env' \in Environment
  BY <1>1, <1>2 DEF DeleteCall
<1>4. \A e : DeleteFails(e) => latest' \in Resource /\ err' \in Errors /\ pc' \in Steps
  BY <1>1, OutcomeTypes DEF DeleteFails, Steps
<1>5. latest' \in Resource /\ err' \in Errors /\ pc' \in Steps /\ faults' \in Nat
  BY <1>4, EndTypes DEF DeleteCall, TypeOK, Steps
<1>6. QED
  BY <1>3, <1>5 DEF DeleteCall, TypeOK, crVars

LEMMA DeletionEndType == ASSUME TypeOK, DeleteFinish \/ Unmanage PROVE TypeOK'
<1>1. cr' \in Resource /\ crPhase' \in {"absent", "live", "deleting"}
  BY ResourceTypes, BlankType DEF DeleteFinish, Unmanage, TypeOK, crVars
<1>2. queued' \in BOOLEAN
  <2>1. CASE DeleteFinish
    BY <2>1, RetryType DEF DeleteFinish
  <2>2. CASE Unmanage
    <3>1. queued' \in {FALSE, queued} \/ queued' = (crPhase # "absent")
      BY <2>2 DEF Unmanage
    <3>2. (crPhase # "absent") \in BOOLEAN
      BY Zenon
    <3>3. QED
      BY <3>1, <3>2 DEF TypeOK
  <2>3. QED
    BY <2>1, <2>2
<1>3. faults' \in Nat
  BY EndTypes DEF DeleteFinish, Unmanage, TypeOK
<1>4. QED
  BY <1>1, <1>2, <1>3, EndTypes DEF DeleteFinish, Unmanage, TypeOK, Steps

LEMMA CrashType == ASSUME TypeOK, Crash PROVE TypeOK'
<1>1. queued' \in BOOLEAN
  BY Zenon DEF Crash
<1>2. QED
  BY <1>1, EndTypes DEF Crash, TypeOK, Steps, crVars

------------------------------------------------------------------------------
\* The types hold at the start and every step keeps them.
LEMMA InitType == Init => TypeOK
<1> SUFFICES ASSUME Init
             PROVE  TypeOK
  OBVIOUS
<1>1. cr \in Resource /\ desired \in Resource /\ latest \in Resource
  BY BlankType DEF Init
<1>2. env \in Environment /\ patch \in Patch
  BY BlankType DEF Init
<1>3. QED
  BY <1>1, <1>2 DEF Init, TypeOK, Steps, Errors

LEMMA NextType == TypeOK /\ [Next]_vars => TypeOK'
<1> SUFFICES ASSUME TypeOK, [Next]_vars
             PROVE  TypeOK'
  OBVIOUS
<1>1. CASE User
  BY <1>1, UserType
<1>2. CASE Service
  BY <1>2, ServiceType
<1>3. CASE Controller
  BY <1>3, StartType, ReadType, ManageType, CreateType, ReadBackType, DecideType,
     TagResourceType, UntagResourceType, SendUpdateType, LateType, LatePatchType,
     FinishType, DeleteReadType, DeleteCallType, DeletionEndType DEF Controller
<1>4. CASE Crash
  BY <1>4, CrashType
<1>5. CASE UNCHANGED vars
  BY <1>5 DEF vars, TypeOK
<1>6. QED
  BY <1>1, <1>2, <1>3, <1>4, <1>5 DEF Next

\* Every variable of the reconciler keeps its type, for any fields, tags, values
\* and faults, and however often users and the service act.
THEOREM ReconcilerTypeOK == Spec => []TypeOK
<1>1. QED
  BY InitType, NextType, PTL DEF Spec
===============================================================================
