----------------------------- MODULE ContentProofs -----------------------------
(***************************************************************************)
(* What Reconciler writes, for every set of fields, values, tags and       *)
(* faults: settings that somebody asked for, tags of the user's own, one   *)
(* verdict on the CR, and a "synced" that is true.                         *)
(*                                                                         *)
(* Each invariant follows the content on its way through the copies of a   *)
(* reconciliation.                                                         *)
(***************************************************************************)
EXTENDS ReconcilerProofs

\* Settings: every spec holds requested values, but for the redacted options of
\* an observed one.
AsRequested(s) == \A f \in Fields : s[f] \in Requested(f)
AsObserved(s) == \A f \in Fields \ {Opts} : s[f] \in Requested(f)

Chosen ==
    /\ AsRequested(cr.spec) /\ AsRequested(desired.spec)
    /\ AsRequested(env.cfg) /\ AsRequested(env.tried)
    /\ AsObserved(latest.spec)

\* Conditions: while a sync is under way its copies say neither Recoverable nor
\* Synced, so that a terminal error finds no Recoverable to stand beside.
Hopeful(r) == r.stat.conds["Recoverable"] # "True"
OneVerdictOn(r) == r.stat.conds["Terminal"] = "True" => Hopeful(r)
NotYetSynced(r) == r.stat.conds["Synced"] # "True"

Observing == {"readback", "update", "tag", "untag", "send", "late"}
Syncing == {"read", "manage", "create"} \cup Observing

Verdicts ==
    /\ OneVerdictOn(cr)
    /\ pc \in Syncing => Hopeful(desired) /\ NotYetSynced(desired)
    /\ pc \in Observing => Hopeful(latest) /\ NotYetSynced(latest)
    /\ pc = "delcall" => Hopeful(latest)
    /\ pc \in {"latepatch", "finish"} => OneVerdictOn(latest) /\ NotYetSynced(latest)
    /\ pc = "delfinish" => OneVerdictOn(latest)

\* Tags: those of AWS are on the two sides of a comparison or on neither.
AwsTagsApart ==
    /\ \A k \in AwsKeys : cr.tags[k] = NoTag
    /\ pc = "read" => \A k \in AwsKeys : desired.tags[k] = NoTag
    /\ pc \in {"update", "tag", "untag"} =>
           \A k \in AwsKeys : desired.tags[k] = latest.tags[k]
    /\ patch.tags \cap AwsKeys = {}

\* What the user asked for is in the environment, or in the update that it has
\* accepted.
Updatable == Fields \ (CreateOnlyFields \cup {Opts})
OwnTags == TagKeys \ AwsKeys

Settled == env.status \in {"AVAILABLE", "MAINTENANCE", "UNAVAILABLE"}

SettingsTaken ==
    \/ Settled /\ \A f \in Updatable : desired.spec[f] = env.cfg[f]
    \/ /\ env.status \notin {"ABSENT", "DELETING"}
       /\ \A f \in Updatable : desired.spec[f] \in {Nil, env.tried[f]}

TagsTaken == \A k \in OwnTags : desired.tags[k] = env.tags[k]

\* What a reconciliation has seen of an available environment is still so.
Seen ==
    /\ Settled
    /\ \A f \in Updatable : latest.spec[f] = env.cfg[f]
    /\ pc \in {"update", "tag"} => \A k \in OwnTags : latest.tags[k] = env.tags[k]
    /\ pc = "untag" => \A k \in OwnTags \ DeleteKeys : desired.tags[k] = env.tags[k]
    /\ pc = "send" => TagsTaken

NoneSynced == crPhase = "absent" => NotYetSynced(cr)

Taken ==
    /\ pc \in {"tag", "untag", "send"} => latest.stat.st = "AVAILABLE"
    /\ pc \in {"update", "tag", "untag", "send"} /\ latest.stat.st = "AVAILABLE" => Seen
    /\ pc = "readback" => SettingsTaken /\ TagsTaken
    /\ (\/ pc \in {"late", "latepatch"}
        \/ pc = "finish" /\ err = "none") /\ latest.stat.st = "AVAILABLE"
           => SettingsTaken /\ TagsTaken

------------------------------------------------------------------------------
\* Settings.

\* A number that an int32 holds is converted to itself.
LEMMA ToInt32Keeps ==
    ASSUME NEW v \in MinInt32 .. MaxInt32
    PROVE  ToInt32(v) = v
<1>1. MinInt32 \in Int /\ MaxInt32 \in Int /\ v \in Int /\ MinInt32 <= v /\ v <= MaxInt32
  BY SpecConstants
<1>2. \A n, m \in Int : 0 <= n /\ n < m => n % m = n
  BY Z3
<1>3. (v - MinInt32) % (MaxInt32 - MinInt32 + 1) = v - MinInt32
  BY <1>1, <1>2
<1>4. QED
  BY <1>1, <1>3 DEF ToInt32

\* The payloads hold what the spec asks for: after the check of the range no
\* number is truncated.
LEMMA PayloadsRequested ==
    ASSUME NEW s \in SpecType, ~OutOfRange(s)
    PROVE  /\ \A f \in Fields : CreatePayload(s)[f] = s[f]
           /\ \A f \in Fields : UpdatePayload(s)[f] = IF f \in CreateOnlyFields THEN Nil ELSE s[f]
<1>1. ASSUME NEW f \in Fields
      PROVE  Narrow(s, f) = s[f]
  <2>1. CASE f \in Int32Fields /\ s[f] # Nil
    <3>1. s[f] \in Int /\ ~(s[f] > MaxInt32 \/ s[f] < MinInt32)
      BY <2>1 DEF SpecType, OutOfRange
    <3>2. s[f] \in MinInt32 .. MaxInt32
      BY <3>1, SpecConstants
    <3>3. QED
      BY <2>1, <3>2, ToInt32Keeps DEF Narrow
  <2>2. CASE ~(f \in Int32Fields /\ s[f] # Nil)
    BY <2>2 DEF Narrow
  <2>3. QED
    BY <2>1, <2>2
<1>2. QED
  BY <1>1 DEF CreatePayload, UpdatePayload

\* What the service does to a configuration leaves it requested.
LEMMA ServiceRequested ==
    ASSUME NEW cfg, AsRequested(cfg), NEW p, AsRequested(p)
    PROVE  AsRequested(WithDefaults(cfg, DefaultVal)) /\ AsRequested(Applied(cfg, p))
BY DEF AsRequested, Requested, WithDefaults, Applied

\* The specs that reconciliations and environments begin with.
LEMMA FirstRequested ==
    AsRequested(NilSpec) /\ AsRequested(Blank.spec) /\ (\A s \in InitSpecs : AsRequested(s))
BY DEF AsRequested, Requested, NilSpec, Blank

\* ReadOne shows the service's settings, and redacts nothing but the options.
LEMMA AnswerSpec ==
    ASSUME NEW r \in Resource, env \in Environment, NEW a \in Answers(r)
    PROVE  \A f \in Fields \ {Opts} : a.out.res.spec[f] \in {r.spec[f], env.cfg[f]}
<1> DEFINE o == Observed(r)
<1>1. o \in Resource /\ \A f \in Fields \ {Opts} : o.spec[f] = env.cfg[f]
  BY ObservedType DEF Observed, FindSpec, Reported
<1>2. \A q, e : OnError(q, e).res = WithConds(q, UpdateConditions(q.stat.conds, e))
  BY DEF OnError
<1>3. \A q \in Resource : \A c : WithConds(q, c).spec = q.spec
  BY KeepsHold
<1>4. /\ \A e : OnError(r, e).res.spec = r.spec
      /\ OnSuccess(o).spec = o.spec
  BY <1>1, <1>2, <1>3 DEF OnSuccess
<1>5. \A c \in Conds : \A e : OnError(WithConds(o, c), e).res.spec = o.spec
  <2> HIDE DEF o
  <2>1. QED
    BY <1>1, <1>2, <1>3, ResourceTypes
<1>6. ShowUpdateFailed(o.stat.conds) \in Conds /\ o.stat.conds \in Conds
  BY <1>1, CondsTypes DEF Resource, Status
<1>7. ReadOne(r).out.res.spec \in {r.spec, o.spec}
  <2> HIDE DEF o
  <2>1. QED
    BY <1>4, <1>5, <1>6 DEF ReadOne, o
<1>8. QED
  BY <1>1, <1>4, <1>7 DEF Answers, ReadFailed

\* The calls that end a reconciliation keep the spec of the resource they return.
LEMMA EndSpec ==
    ASSUME NEW r \in Resource
    PROVE  /\ \A e : Return(r, e) => latest'.spec = r.spec
           /\ \A e : Fail(r, e) => latest'.spec = r.spec
           /\ OnSuccess(r).spec = r.spec
           /\ Forget => latest'.spec = NilSpec /\ desired'.spec = NilSpec
BY KeepsHold DEF Return, Fail, OnError, OnSuccess, Forget, Blank

\* What the user writes is requested.
LEMMA UserChosen == ASSUME HInv, Chosen, User PROVE Chosen'
<1> SUFFICES AsRequested(cr'.spec)
  BY DEF User, CreateCR, PatchSpec, PatchTag, DeleteCR, Chosen, AsRequested, AsObserved,
         Requested, locals
<1>1. cr \in Resource
  BY DEF HInv, CInv, TypeOK
<1>2. CASE CreateCR
  BY <1>2, BlankFacts, FirstRequested DEF CreateCR
<1>3. ASSUME NEW f \in Fields, NEW v \in PatchVals[f], PatchSpec(f, v)
      PROVE  AsRequested(cr'.spec)
  <2>1. cr'.spec = [cr.spec EXCEPT ![f] = v]
    BY <1>1, <1>3 DEF PatchSpec, Resource
  <2>2. cr.spec \in [Fields -> Value]
    BY <1>1 DEF Resource, SpecType
  <2>3. v \in Requested(f)
    BY DEF Requested
  <2>4. QED
    BY <2>1, <2>2, <2>3 DEF Chosen, AsRequested
<1>4. ASSUME NEW k, NEW v, PatchTag(k, v)
      PROVE  AsRequested(cr'.spec)
  BY <1>1, <1>4 DEF PatchTag, Resource, Chosen
<1>5. CASE DeleteCR
  BY <1>5, FirstRequested DEF DeleteCR, Chosen
<1>6. QED
  BY <1>2, <1>3, <1>4, <1>5 DEF User

\* The service chooses its default, applies the update it was sent, or is given
\* another setting in the console.
LEMMA ServiceChosen == ASSUME HInv, Chosen, Service PROVE Chosen'
<1> SUFFICES AsRequested(env'.cfg) /\ AsRequested(env'.tried)
  BY DEF Service, Chosen, AsRequested, AsObserved, Requested, crVars, locals
<1>1. env \in Environment
  BY DEF HInv, CInv, TypeOK
<1>2. AsRequested(env.cfg) /\ AsRequested(env.tried)
  BY DEF Chosen
<1>3. CASE FinishCreate \/ FinishUpdate
  <2>1. /\ env'.cfg \in {env.cfg, WithDefaults(env.cfg, DefaultVal), Applied(env.cfg, env.tried)}
        /\ env'.tried = env.tried
    BY <1>1, <1>3 DEF FinishCreate, FinishUpdate, Environment
  <2>2. QED
    BY <1>2, <2>1, ServiceRequested
<1>4. CASE FinishDelete
  BY <1>4, FirstRequested DEF FinishDelete, NoEnvironment
<1>5. CASE EndMaintenance \/ BecomeUnavailable \/ StartMaintenance \/ AddAwsTag
  <2>1. env'.cfg = env.cfg /\ env'.tried = env.tried
    BY <1>1, <1>5
       DEF EndMaintenance, BecomeUnavailable, StartMaintenance, AddAwsTag, Environment
  <2>2. QED
    BY <1>2, <2>1
<1>6. CASE Drift
  <2>1. PICK f \in Fields : \E v \in PatchVals[f] :
            env' = [env EXCEPT !.cfg = [@ EXCEPT ![f] = v]]
    BY <1>6 DEF Drift
  <2>2. PICK v \in PatchVals[f] : env' = [env EXCEPT !.cfg = [@ EXCEPT ![f] = v]]
    BY <2>1
  <2>3. env.cfg \in [Fields -> Value]
    BY <1>1 DEF Environment, SpecType
  <2>4. env'.cfg = [env.cfg EXCEPT ![f] = v] /\ env'.tried = env.tried
    BY <1>1, <2>2 DEF Environment
  <2>5. v \in Requested(f)
    BY DEF Requested
  <2>6. QED
    BY <1>2, <2>3, <2>4, <2>5 DEF AsRequested
<1>7. QED
  BY <1>3, <1>4, <1>5, <1>6 DEF Service, Complete

\* A creation and an update are sent within the range of an int32 only.
LEMMA SendChosen == ASSUME HInv, Chosen, Create \/ SendUpdate PROVE Chosen'
<1>1. desired \in Resource /\ latest \in Resource /\ env \in Environment
  BY DEF HInv, CInv, TypeOK
<1>2. desired.spec \in SpecType /\ AsRequested(desired.spec)
  BY <1>1, ResourceTypes DEF Chosen
<1>3. AsObserved(latest'.spec)
  <2>1. latest'.spec \in {latest.spec, desired.spec}
    BY <1>1, EndSpec DEF Create, SendUpdate
  <2>2. QED
    BY <1>2, <2>1 DEF Chosen, AsRequested, AsObserved
<1>4. ~OutOfRange(desired.spec) =>
          /\ AsRequested(CreatePayload(desired.spec)) /\ AsRequested(UpdatePayload(desired.spec))
          /\ AsRequested(WithDefaults(CreatePayload(desired.spec), DefaultVal))
  <2>1. ~OutOfRange(desired.spec) =>
            AsRequested(CreatePayload(desired.spec)) /\ AsRequested(UpdatePayload(desired.spec))
    BY <1>2, PayloadsRequested DEF AsRequested, Requested
  <2>2. QED
    BY <2>1, ServiceRequested
<1>5. AsRequested(env'.cfg) /\ AsRequested(env'.tried)
  <2>1. CASE Create
    BY <1>1, <1>4, <2>1 DEF Create, Chosen
  <2>2. CASE SendUpdate
    BY <1>1, <1>4, <2>2 DEF SendUpdate, Chosen, Environment
  <2>3. QED
    BY <2>1, <2>2
<1>6. UNCHANGED <<cr, desired>>
  BY DEF Create, SendUpdate, crVars
<1>7. QED
  BY <1>3, <1>5, <1>6 DEF Chosen, AsRequested, AsObserved, Requested

\* A sync works on the CR's own spec; what it reads keeps to the service's.
LEMMA ReadingChosen ==
    ASSUME HInv, Chosen, Start \/ Read \/ ReadBack \/ DeleteRead
    PROVE  Chosen'
<1>1. /\ cr \in Resource /\ desired \in Resource /\ latest \in Resource
      /\ env \in Environment
  BY DEF HInv, CInv, TypeOK
<1>2. UNCHANGED <<cr, env>>
  BY DEF Start, Read, ReadBack, DeleteRead, crVars
<1>3. \A r \in Resource : AsRequested(r.spec) \/ AsObserved(r.spec) => AsObserved(r.spec)
  BY DEF AsRequested, AsObserved
<1>4. ASSUME NEW r \in Resource, AsObserved(r.spec), NEW a \in Answers(r)
      PROVE  AsObserved(a.out.res.spec)
  BY <1>1, <1>4, AnswerSpec DEF Chosen, AsRequested, AsObserved
<1>5. AsRequested(desired'.spec) /\ AsObserved(latest'.spec)
  <2>1. CASE Start
    <3>1. \/ desired' = cr
          \/ \E t : desired' = [WithConds(cr, NoConds) EXCEPT !.tags = t]
      BY <2>1 DEF Start
    <3>2. desired'.spec = cr.spec
      BY <1>1, <3>1 DEF WithConds, Resource
    <3>3. latest' = latest
      BY <2>1 DEF Start
    <3>4. QED
      BY <3>2, <3>3 DEF Chosen
  <2>2. CASE Read
    <3>1. PICK a \in Answers(desired) :
              /\ desired' = Mirrored(desired, a)
              /\ latest' \in {latest, a.out.res, NotManaged(a.out.res)}
      BY <2>2 DEF Read, Return
    <3>2. a.out.res \in Resource /\ desired'.spec = desired.spec
      BY <1>1, <3>1, AnswerType
    <3>3. NotManaged(a.out.res).spec = a.out.res.spec
      BY <3>2, KeepsHold DEF NotManaged
    <3>4. AsObserved(a.out.res.spec)
      BY <1>1, <1>3, <1>4 DEF Chosen
    <3>5. QED
      BY <3>1, <3>2, <3>3, <3>4 DEF Chosen
  <2>3. CASE ReadBack
    <3>1. PICK a \in Answers(latest) :
              \/ latest' = Mirrored(latest, a)
              \/ latest' = [Mirrored(latest, a) EXCEPT !.stat = a.out.res.stat]
      BY <2>3 DEF ReadBack, Return
    <3>2. Mirrored(latest, a) \in Resource /\ Mirrored(latest, a).spec = latest.spec
      BY <1>1, AnswerType
    <3>3. latest'.spec = latest.spec
      <4> DEFINE m == Mirrored(latest, a)
      <4>1. m.spec = latest.spec /\ [m EXCEPT !.stat = a.out.res.stat].spec = m.spec
        BY <3>2, KeepsHold
      <4>2. QED
        BY <3>1, <4>1
    <3>4. desired' = desired
      BY <2>3 DEF ReadBack
    <3>5. QED
      BY <3>3, <3>4 DEF Chosen
  <2>4. CASE DeleteRead
    <3>1. PICK a \in Answers(desired) :
              \/ desired' = desired /\ latest' \in {latest, a.out.res}
              \/ Forget
      BY <2>4 DEF DeleteRead, locals
    <3>2. AsObserved(a.out.res.spec)
      BY <1>1, <1>3, <1>4 DEF Chosen
    <3>3. Forget => AsRequested(desired'.spec) /\ AsObserved(latest'.spec)
      BY FirstRequested DEF Forget, AsRequested, AsObserved
    <3>4. QED
      BY <3>1, <3>2, <3>3 DEF Chosen
  <2>5. QED
    BY <2>1, <2>2, <2>3, <2>4
<1>6. QED
  BY <1>2, <1>5 DEF Chosen, AsRequested, AsObserved, Requested

\* The comparison and the calls for tags and for the finalizer leave every setting
\* as it is.
LEMMA TagsChosen ==
    ASSUME HInv, Chosen, Manage \/ Decide \/ TagResource \/ UntagResource
    PROVE  Chosen'
<1>1. cr \in Resource /\ desired \in Resource /\ latest \in Resource /\ env \in Environment
  BY DEF HInv, CInv, TypeOK
<1>2. cr'.spec = cr.spec /\ desired'.spec = desired.spec
  BY <1>1, KeepsHold DEF Manage, Decide, TagResource, UntagResource, crVars
<1>3. env'.cfg = env.cfg /\ env'.tried = env.tried
  BY <1>1 DEF Manage, Decide, TagResource, UntagResource, Environment
<1>4. latest'.spec \in {latest.spec, desired.spec}
  BY <1>1, EndSpec DEF Manage, Decide, TagResource, UntagResource, AfterTags, TagCallFails, Return
<1>5. QED
  BY <1>2, <1>3, <1>4 DEF Chosen, AsRequested, AsObserved, Requested

\* Late initialization fills in what the service reports; the options, which it
\* redacts, are not late initialized.
LEMMA OptionsNotLate == Opts \notin LateInitFields
BY DEF Opts, LateInitFields, LoggingModules

LEMMA LateChosen == ASSUME HInv, Chosen, Late \/ LatePatch PROVE Chosen'
<1>1. cr \in Resource /\ latest \in Resource /\ env \in Environment
  BY DEF HInv, CInv, TypeOK
<1>2. UNCHANGED <<env, desired>>
  BY DEF Late, LatePatch
<1>3. AsObserved(latest'.spec) /\ AsRequested(cr'.spec)
  <2>1. CASE Late
    <3>1. PICK a \in Answers(latest) :
              latest' \in {WithConds(latest, LateInitFailed(latest.stat.conds)),
                           LateInitialized(latest, a)}
      BY <2>1 DEF Late, Return
    <3>2. AsObserved(a.out.res.spec)
      BY <1>1, AnswerSpec DEF Chosen, AsRequested, AsObserved
    <3>3. AsObserved(FillFromObserved(a.out.res.spec, latest.spec))
      BY <3>2 DEF Chosen, AsObserved, FillFromObserved
    <3>4. LateInitialized(latest, a).spec = FillFromObserved(a.out.res.spec, latest.spec)
      BY <1>1, LateInitializedType
    <3>5. AsObserved(latest'.spec)
      BY <1>1, <3>1, <3>3, <3>4, KeepsHold DEF Chosen
    <3>6. cr' = cr
      BY <2>1 DEF Late, crVars
    <3>7. QED
      BY <3>5, <3>6 DEF Chosen
  <2>2. CASE LatePatch
    <3>1. latest' = latest
      BY <2>2 DEF LatePatch
    <3>2. patch.fields \subseteq LateInitFields
      BY DEF HInv, CInv, Named
    <3>3. \/ cr' = cr
          \/ cr'.spec = [f \in Fields |-> IF f \in patch.fields THEN latest.spec[f]
                                          ELSE cr.spec[f]]
      BY <1>1, <2>2 DEF LatePatch, Resource
    <3>4. AsRequested(cr'.spec)
      BY <3>2, <3>3, OptionsNotLate DEF Chosen, AsRequested, AsObserved
    <3>5. QED
      BY <3>1, <3>4 DEF Chosen
  <2>3. QED
    BY <2>1, <2>2
<1>4. QED
  BY <1>2, <1>3 DEF Chosen, AsRequested, AsObserved, Requested

\* The end of a reconciliation, and a crash.
LEMMA EndChosen ==
    ASSUME HInv, Chosen, Finish \/ DeleteCall \/ DeleteFinish \/ Unmanage \/ Crash
    PROVE  Chosen'
<1>1. cr \in Resource /\ latest \in Resource /\ env \in Environment
  BY DEF HInv, CInv, TypeOK
<1>2. AsRequested(cr'.spec)
  <2>1. \/ cr' \in {cr, Blank, [cr EXCEPT !.fin = FALSE]}
        \/ \E s : cr' = [cr EXCEPT !.stat = s]
    BY DEF Finish, DeleteCall, DeleteFinish, Unmanage, Crash, crVars
  <2>2. cr'.spec \in {cr.spec, Blank.spec}
    BY <1>1, <2>1 DEF Resource
  <2>3. QED
    BY <2>2, FirstRequested DEF Chosen
<1>3. env'.cfg = env.cfg /\ env'.tried = env.tried
  BY <1>1 DEF Finish, DeleteCall, DeleteFinish, Unmanage, Crash, Environment
<1>4. AsRequested(desired'.spec) /\ AsObserved(latest'.spec)
  <2>1. CASE DeleteCall
    <3>1. desired' = desired /\ \/ latest' = latest
                                \/ \E e : latest' = OnError(latest, e).res
      BY <2>1 DEF DeleteCall, DeleteFails
    <3>2. latest'.spec = latest.spec
      BY <1>1, <3>1, KeepsHold DEF OnError
    <3>3. QED
      BY <3>1, <3>2 DEF Chosen
  <2>2. CASE Forget
    BY <2>2, FirstRequested DEF Forget, AsRequested, AsObserved
  <2>3. QED
    BY <2>1, <2>2 DEF Finish, DeleteFinish, Unmanage, Crash
<1>5. QED
  BY <1>2, <1>3, <1>4 DEF Chosen, AsRequested, AsObserved, Requested

LEMMA NextChosen == HInv /\ Chosen /\ [Next]_vars => Chosen'
<1> SUFFICES ASSUME HInv, Chosen, [Next]_vars
             PROVE  Chosen'
  OBVIOUS
<1>1. CASE User \/ Service
  BY <1>1, UserChosen, ServiceChosen
<1>2. CASE Controller \/ Crash
  BY <1>2, SendChosen, ReadingChosen, TagsChosen, LateChosen, EndChosen DEF Controller
<1>3. CASE UNCHANGED vars
  BY <1>3 DEF vars, Chosen, AsRequested, AsObserved, Requested
<1>4. QED
  BY <1>1, <1>2, <1>3 DEF Next

LEMMA ChosenInv == Spec => []Chosen
<1>1. Init => Chosen
  BY FirstRequested DEF Init, NoEnvironment, Chosen, AsRequested, AsObserved
<1>2. QED
  BY <1>1, HoldInv, NextChosen, PTL DEF Spec

\* Whatever the service has or tries is what a user chose, or a default: the check
\* of the range stands before every conversion to an int32.
THEOREM OnlyRequestedValuesTheorem == Spec => []OnlyRequestedValues
<1>1. Chosen => OnlyRequestedValues
  BY DEF Chosen, AsRequested, OnlyRequestedValues
<1>2. QED
  BY <1>1, ChosenInv, PTL

\* A user who never writes the marker "***" finds it neither in the CR nor in the
\* service: what GetEnvironment redacts is not written back.
THEOREM SecretsStayPutTheorem ==
    ASSUME \A f \in Fields : Redacted \notin Requested(f)
    PROVE  Spec => []SecretsStayPut
<1>1. Chosen => SecretsStayPut
  BY DEF Chosen, AsRequested, SecretsStayPut
<1>2. QED
  BY <1>1, ChosenInv, PTL

------------------------------------------------------------------------------
\* Conditions.

\* After copies that are hopeful every call leaves one verdict, and a success
\* leaves them hopeful; Synced is set nowhere but at the end of a sync.
LEMMA VerdictOfConds ==
    ASSUME NEW c \in Conds, c["Recoverable"] # "True"
    PROVE  /\ \A e : LET u == UpdateConditions(c, e)
                     IN  u["Terminal"] = "True" => u["Recoverable"] # "True"
           /\ UpdateConditions(c, "none")["Recoverable"] # "True"
           /\ \A d \in {ShowUpdateFailed(c), LateInitFailed(c), LateInitDone(c)} :
                  d["Recoverable"] # "True"
BY DEF UpdateConditions, IsTerminal, ShowUpdateFailed, LateInitFailed, LateInitDone,
       Conds, CondTypes

LEMMA SyncedOfConds ==
    ASSUME NEW c \in Conds
    PROVE  /\ \A e : UpdateConditions(c, e)["Synced"] = c["Synced"]
           /\ \A d \in {ShowUpdateFailed(c), LateInitFailed(c), LateInitDone(c)} :
                  d["Synced"] \in {c["Synced"], "False"}
           /\ \A e, b : \A t : \A k \in {"Terminal", "Recoverable"} :
                  EnsureConditions(c, e, b, t)[k] = c[k]
BY DEF UpdateConditions, ShowUpdateFailed, LateInitFailed, LateInitDone,
       EnsureConditions, Conds, CondTypes

\* The same of the resources that carry the conditions.
LEMMA VerdictOfOutcome ==
    ASSUME NEW r \in Resource
    PROVE  /\ \A c : WithConds(r, c).stat.conds = c
           /\ Hopeful(r) => OneVerdictOn(r) /\ Hopeful(OnSuccess(r))
           /\ Hopeful(r) => \A e : OneVerdictOn(OnError(r, e).res)
           /\ NotYetSynced(r) => NotYetSynced(OnSuccess(r))
           /\ NotYetSynced(r) => \A e : NotYetSynced(OnError(r, e).res)
<1>1. r.stat.conds \in Conds
  BY DEF Resource, Status
<1>2. \A c : WithConds(r, c).stat.conds = c
  BY DEF WithConds, Resource, Status
<1>3. \A e : OnError(r, e).res.stat.conds = UpdateConditions(r.stat.conds, e)
  BY <1>2 DEF OnError
<1>4. OnSuccess(r).stat.conds = UpdateConditions(r.stat.conds, "none")
  BY <1>2 DEF OnSuccess
<1>5. QED
  BY <1>1, <1>2, <1>3, <1>4, VerdictOfConds, SyncedOfConds
     DEF Hopeful, OneVerdictOn, NotYetSynced

\* The same of an answer of ReadOne.
LEMMA VerdictOfAnswer ==
    ASSUME NEW r \in Resource, env \in Environment, Hopeful(r), NEW a \in Answers(r)
    PROVE  /\ OneVerdictOn(a.out.res)
           /\ a.out.err = "none" => Hopeful(a.out.res)
           /\ NotYetSynced(r) => NotYetSynced(a.out.res)
<1> DEFINE o == Observed(r)
           shown == IF FindError(o) = "UpdateFailed" THEN ShowUpdateFailed(o.stat.conds)
                    ELSE o.stat.conds
<1>1. o \in Resource /\ o.stat.conds = r.stat.conds /\ r.stat.conds \in Conds
  BY ObservedType DEF Observed, Resource, Status
<1>2. shown \in Conds /\ shown["Recoverable"] # "True"
      /\ (NotYetSynced(r) => shown["Synced"] # "True")
  BY <1>1, CondsTypes, VerdictOfConds, SyncedOfConds DEF Hopeful, NotYetSynced
<1>3. WithConds(o, shown) \in Resource
      /\ Hopeful(WithConds(o, shown)) /\ Hopeful(o)
      /\ (NotYetSynced(r) => NotYetSynced(WithConds(o, shown)) /\ NotYetSynced(o))
  <2> HIDE DEF o, shown
  <2>1. QED
    BY <1>1, <1>2, ResourceTypes, VerdictOfOutcome DEF Hopeful, NotYetSynced
<1>4. CASE \E e : a.out = OnError(r, e)
  BY <1>4, VerdictOfOutcome, OutcomeTypes
<1>5. CASE \E e : a.out = OnError(WithConds(o, shown), e)
  <2> HIDE DEF o, shown
  <2>1. QED
    BY <1>3, <1>5, VerdictOfOutcome, OutcomeTypes
<1>6. CASE a.out = [res |-> OnSuccess(o), err |-> "none"]
  <2> HIDE DEF o, shown
  <2>1. QED
    BY <1>1, <1>3, <1>6, VerdictOfOutcome, OutcomeTypes
<1>7. QED
  <2>1. a \in {ReadOne(r), ReadFailed(r)}
    BY DEF Answers
  <2>2. CASE a = ReadFailed(r)
    BY <2>2, <1>4 DEF ReadFailed
  <2>3. CASE a = ReadOne(r)
    <3>1. \/ a.out = OnError(r, "NotFound")
          \/ a.out = OnError(WithConds(o, shown), FindError(o))
          \/ a.out = [res |-> OnSuccess(o), err |-> "none"]
      BY <2>3 DEF ReadOne
    <3>2. QED
      BY <3>1, <1>4, <1>5, <1>6
  <2>4. QED
    BY <2>1, <2>2, <2>3

\* An answer without an error is the environment as it is, over the caller's copy.
LEMMA SuccessAnswer ==
    ASSUME NEW r \in Resource, env \in Environment, NEW a \in Answers(r), a.out.err = "none"
    PROVE  /\ a.found /\ env.status \notin {"ABSENT", "CREATE_FAILED", "UNAVAILABLE"}
           /\ a.out.res = OnSuccess(Observed(r))
           /\ a.out.res.spec = FindSpec(r.spec, env.cfg)
           /\ a.out.res.tags = env.tags
           /\ a.out.res.stat.st = env.status
<1> DEFINE o == Observed(r)
<1>1. \A q, e : OnError(q, e).err # "none"
  BY DEF OnError, ErrorOf
<1>2. a = ReadOne(r)
  BY <1>1 DEF Answers, ReadFailed
<1>3. a.found /\ env.status # "ABSENT" /\ FindError(o) = "none" /\ a.out.res = OnSuccess(o)
  BY <1>1, <1>2 DEF ReadOne
<1>4. o \in Resource
  BY ObservedType
<1>5. /\ OnSuccess(o).spec = o.spec /\ OnSuccess(o).tags = o.tags
      /\ OnSuccess(o).stat.st = o.stat.st
  <2> HIDE DEF o
  <2>1. QED
    BY <1>4 DEF OnSuccess, WithConds, Resource, Status
<1>6. /\ o.spec = FindSpec(r.spec, env.cfg) /\ o.tags = env.tags
      /\ o.stat.st = env.status
  BY DEF Observed
<1>7. env.status \notin {"CREATE_FAILED", "UNAVAILABLE"}
  BY <1>3, <1>6 DEF FindError
<1>8. QED
  BY <1>3, <1>5, <1>6, <1>7

\* A deletion reads on top of the conditions that the CR had: an answer without an
\* error clears them.
LEMMA SuccessIsHopeful ==
    ASSUME NEW r \in Resource, env \in Environment, NEW a \in Answers(r), a.out.err = "none"
    PROVE  Hopeful(a.out.res)
<1>1. Observed(r) \in Resource /\ a.out.res = OnSuccess(Observed(r))
  BY ObservedType, SuccessAnswer
<1>2. \A c \in Conds : UpdateConditions(c, "none")["Recoverable"] # "True"
  BY DEF UpdateConditions, IsTerminal, Conds, CondTypes
<1>3. QED
  BY <1>1, <1>2, VerdictOfOutcome DEF OnSuccess, Hopeful, Resource, Status

\* A reconciliation that fails leaves one verdict.
LEMMA FailVerdict ==
    ASSUME NEW r \in Resource, Hopeful(r), NEW e, Fail(r, e)
    PROVE  pc' = "finish" /\ OneVerdictOn(latest') /\ (NotYetSynced(r) => NotYetSynced(latest'))
BY VerdictOfOutcome DEF Fail, Return

\* Neither the user nor the service writes a condition.
LEMMA OthersVerdicts == ASSUME HInv, Verdicts, User \/ Service PROVE Verdicts'
<1>1. OneVerdictOn(cr')
  <2>1. cr \in Resource
    BY DEF HInv, CInv, TypeOK
  <2>2. Blank.stat.conds = NoConds
        /\ \A s, t : [Blank EXCEPT !.spec = s, !.tags = t].stat.conds = NoConds
    BY DEF Blank, NewStatus
  <2>3. cr'.stat.conds \in {cr.stat.conds, NoConds}
    <3>1. \/ cr' \in {cr, Blank}
          \/ \E s, t : cr' = [Blank EXCEPT !.spec = s, !.tags = t]
          \/ \E s : cr' = [cr EXCEPT !.spec = s]
          \/ \E t : cr' = [cr EXCEPT !.tags = t]
      BY DEF User, Service, CreateCR, PatchSpec, PatchTag, DeleteCR, crVars
    <3>2. /\ \A s : [cr EXCEPT !.spec = s].stat = cr.stat
          /\ \A t : [cr EXCEPT !.tags = t].stat = cr.stat
      BY <2>1 DEF Resource
    <3>3. CASE \E s, t : cr' = [Blank EXCEPT !.spec = s, !.tags = t]
      BY <2>2, <3>3
    <3>4. CASE ~(\E s, t : cr' = [Blank EXCEPT !.spec = s, !.tags = t])
      BY <2>2, <3>1, <3>2, <3>4
    <3>5. QED
      BY <3>3, <3>4
  <2>4. QED
    BY <2>3 DEF Verdicts, OneVerdictOn, Hopeful, NoConds, CondTypes
<1>2. UNCHANGED <<pc, desired, latest>>
  BY DEF User, Service, CreateCR, PatchSpec, PatchTag, DeleteCR, locals
<1>3. QED
  BY <1>1, <1>2 DEF Verdicts, OneVerdictOn, Hopeful, NotYetSynced

\* A sync begins without conditions.
LEMMA StartVerdicts == ASSUME HInv, Verdicts, Start PROVE Verdicts'
<1>1. cr \in Resource
  BY DEF HInv, CInv, TypeOK
<1>2. CASE pc' = "read"
  <2>1. \E t : desired' = [WithConds(cr, NoConds) EXCEPT !.tags = t]
    BY <1>2 DEF Start
  <2>2. desired'.stat.conds = NoConds
    BY <1>1, <2>1 DEF WithConds, Resource, Status
  <2>3. Hopeful(desired') /\ NotYetSynced(desired')
    BY <2>2 DEF Hopeful, NotYetSynced, NoConds, CondTypes
  <2>4. QED
    BY <1>2, <2>3 DEF Start, Verdicts, OneVerdictOn, Hopeful, NotYetSynced, crVars, Observing
<1>3. CASE pc' = "delread"
  BY <1>3 DEF Start, Verdicts, OneVerdictOn, Hopeful, crVars, Syncing, Observing
<1>4. QED
  BY <1>2, <1>3 DEF Start

\* A read of the sync: what is seen of the environment is the one verdict.
LEMMA ReadVerdicts == ASSUME HInv, Verdicts, Read PROVE Verdicts'
<1>1. desired \in Resource /\ env \in Environment
  BY DEF HInv, CInv, TypeOK
<1>2. pc = "read" /\ Hopeful(desired) /\ NotYetSynced(desired) /\ UNCHANGED cr
  BY DEF Read, Verdicts, Syncing, crVars
<1>3. PICK a \in Answers(desired) :
          /\ desired' = Mirrored(desired, a)
          /\ \/ pc' = AfterNotFound(desired)
             \/ Return(a.out.res, a.out.err)
             \/ a.out.err = "none" /\ Return(NotManaged(a.out.res), "Terminal")
             \/ a.out.err = "none" /\ latest' = a.out.res /\ pc' = "update"
  BY DEF Read
<1>4. Hopeful(desired') /\ NotYetSynced(desired')
  <2>1. desired'.stat = desired.stat
    BY <1>1, <1>3 DEF Mirrored, Resource
  <2>2. QED
    BY <1>2, <2>1 DEF Hopeful, NotYetSynced
<1>5. /\ OneVerdictOn(a.out.res) /\ NotYetSynced(a.out.res)
      /\ a.out.err = "none" => Hopeful(a.out.res)
      /\ a.out.res \in Resource
  BY <1>1, <1>2, VerdictOfAnswer, AnswerType
<1>6. a.out.err = "none" =>
          OneVerdictOn(NotManaged(a.out.res)) /\ NotYetSynced(NotManaged(a.out.res))
  <2>1. NotManaged(a.out.res).stat.conds = [a.out.res.stat.conds EXCEPT !["Terminal"] = "True"]
    BY <1>5, VerdictOfOutcome DEF NotManaged
  <2>2. a.out.res.stat.conds \in Conds
    BY <1>5 DEF Resource, Status
  <2>3. QED
    BY <1>5, <2>1, <2>2 DEF OneVerdictOn, Hopeful, NotYetSynced, Conds, CondTypes
<1>7. \/ pc' \in {"create", "manage"}
      \/ pc' = "finish" /\ OneVerdictOn(latest') /\ NotYetSynced(latest')
      \/ pc' = "update" /\ Hopeful(latest') /\ NotYetSynced(latest')
  BY <1>3, <1>5, <1>6 DEF Return, AfterNotFound
<1>8. QED
  BY <1>2, <1>4, <1>7 DEF Verdicts, Observing, Syncing, OneVerdictOn, Hopeful, NotYetSynced

\* Every call of a sync after its first read begins with hopeful copies.
LEMMA CallVerdicts ==
    ASSUME HInv, Verdicts,
           Manage \/ Create \/ Decide \/ TagResource \/ UntagResource \/ SendUpdate
    PROVE  Verdicts'
<1>1. desired \in Resource /\ latest \in Resource /\ cr \in Resource
  BY DEF HInv, CInv, TypeOK
<1>2. /\ Hopeful(desired) /\ NotYetSynced(desired)
      /\ pc # "create" /\ pc # "manage" => Hopeful(latest) /\ NotYetSynced(latest)
  BY DEF Manage, Create, Decide, TagResource, UntagResource, SendUpdate, Verdicts,
         Observing, Syncing
<1>3. Hopeful(OnSuccess(desired)) /\ NotYetSynced(OnSuccess(desired))
  BY <1>1, <1>2, VerdictOfOutcome
<1>4. desired'.stat = desired.stat /\ cr'.stat = cr.stat
  BY <1>1 DEF Manage, Create, Decide, TagResource, UntagResource, SendUpdate, Resource, crVars
<1>5. \/ pc' = "create"
      \/ pc' \in Observing /\ latest' \in {latest, OnSuccess(desired)} /\ pc # "manage"
         /\ (pc = "create" => latest' = OnSuccess(desired))
      \/ pc' = "finish" /\ latest' = desired
      \/ \E e : Fail(desired, e)
      \/ (\E e : Fail(latest, e)) /\ pc # "create" /\ pc # "manage"
  BY DEF Manage, Create, Decide, TagResource, UntagResource, SendUpdate, AfterTags,
         TagCallFails, Observing, Return
<1>6. \/ pc' = "create"
      \/ pc' \in Observing /\ Hopeful(latest') /\ NotYetSynced(latest')
      \/ pc' = "finish" /\ OneVerdictOn(latest') /\ NotYetSynced(latest')
  <2>1. CASE pc' = "finish" /\ latest' = desired
    BY <1>2, <2>1 DEF OneVerdictOn
  <2>2. CASE \E e : Fail(desired, e)
    BY <1>1, <1>2, <2>2, FailVerdict
  <2>3. CASE (\E e : Fail(latest, e)) /\ pc # "create" /\ pc # "manage"
    BY <1>1, <1>2, <2>3, FailVerdict
  <2>4. QED
    BY <1>2, <1>3, <1>5, <2>1, <2>2, <2>3
<1>7. QED
  BY <1>2, <1>4, <1>6 DEF Verdicts, Observing, Syncing, OneVerdictOn, Hopeful, NotYetSynced

\* The reads after the calls: the failure of a late read is Synced=False, and is
\* no error of its own.
LEMMA LateVerdicts ==
    ASSUME HInv, Verdicts, ReadBack \/ Late \/ LatePatch
    PROVE  Verdicts'
<1>1. latest \in Resource /\ env \in Environment /\ cr \in Resource
  BY DEF HInv, CInv, TypeOK
<1>2. /\ UNCHANGED desired
      /\ cr'.stat = cr.stat
  BY <1>1 DEF ReadBack, Late, LatePatch, crVars, Resource
<1>3. CASE ReadBack
  <2>1. Hopeful(latest) /\ NotYetSynced(latest) /\ Hopeful(desired) /\ NotYetSynced(desired)
    BY <1>3 DEF ReadBack, Verdicts, Observing, Syncing
  <2>2. PICK a \in Answers(latest) :
            \/ /\ a.out.err = "none" /\ pc' = "late"
               /\ latest' = [Mirrored(latest, a) EXCEPT !.stat = a.out.res.stat]
            \/ pc' = "finish" /\ latest' = Mirrored(latest, a)
    BY <1>3 DEF ReadBack, Return
  <2>3. Mirrored(latest, a) \in Resource /\ Mirrored(latest, a).stat = latest.stat
    BY <1>1, AnswerType DEF Mirrored, Resource
  <2>4. CASE a.out.err = "none" /\ pc' = "late"
             /\ latest' = [Mirrored(latest, a) EXCEPT !.stat = a.out.res.stat]
    <3>1. latest'.stat = a.out.res.stat
      BY <2>3, <2>4 DEF Resource
    <3>2. Hopeful(latest') /\ NotYetSynced(latest')
      BY <1>1, <2>1, <2>4, <3>1, VerdictOfAnswer DEF Hopeful, NotYetSynced
    <3>3. QED
      BY <1>2, <2>1, <2>4, <3>2
         DEF Verdicts, Observing, Syncing, OneVerdictOn, Hopeful, NotYetSynced
  <2>5. CASE pc' = "finish" /\ latest' = Mirrored(latest, a)
    BY <1>2, <2>1, <2>3, <2>5
       DEF Verdicts, Observing, Syncing, OneVerdictOn, Hopeful, NotYetSynced
  <2>6. QED
    BY <2>2, <2>4, <2>5
<1>4. CASE Late
  <2>1. Hopeful(latest) /\ NotYetSynced(latest)
    BY <1>4 DEF Late, Verdicts, Observing
  <2>2. PICK a \in Answers(latest) :
            latest' \in {WithConds(latest, LateInitFailed(latest.stat.conds)),
                         LateInitialized(latest, a)}
    BY <1>4 DEF Late, Return
  <2>3. LateInitialized(latest, a).stat.conds \in
            {LateInitFailed(latest.stat.conds), LateInitDone(latest.stat.conds)}
    BY <1>1, AnswerType DEF LateInitialized, WithConds, Resource, Status
  <2>4. WithConds(latest, LateInitFailed(latest.stat.conds)).stat.conds
            = LateInitFailed(latest.stat.conds)
    BY <1>1, VerdictOfOutcome
  <2>5. latest.stat.conds \in Conds
    BY <1>1 DEF Resource, Status
  <2>6. OneVerdictOn(latest') /\ NotYetSynced(latest')
    <3>1. latest'.stat.conds \in
              {LateInitFailed(latest.stat.conds), LateInitDone(latest.stat.conds)}
      BY <2>2, <2>3, <2>4
    <3>2. QED
      BY <2>1, <2>5, <3>1, VerdictOfConds, SyncedOfConds DEF OneVerdictOn, Hopeful, NotYetSynced
  <2>7. pc' \in {"finish", "latepatch"}
    BY <1>4 DEF Late, Return
  <2>8. QED
    BY <1>2, <2>6, <2>7 DEF Verdicts, Observing, Syncing, OneVerdictOn, Hopeful, NotYetSynced
<1>5. CASE LatePatch
  BY <1>2, <1>5
     DEF LatePatch, Verdicts, Observing, Syncing, OneVerdictOn, Hopeful, NotYetSynced
<1>6. QED
  BY <1>3, <1>4, <1>5

\* The status is written with the verdict it has; a deletion, which keeps the
\* conditions of before, goes on only after an answer that clears them.
LEMMA EndVerdicts ==
    ASSUME HInv, Verdicts,
           Finish \/ DeleteRead \/ DeleteCall \/ DeleteFinish \/ Unmanage \/ Crash
    PROVE  Verdicts'
<1>1. /\ cr \in Resource /\ desired \in Resource /\ latest \in Resource
      /\ env \in Environment
  BY DEF HInv, CInv, TypeOK
<1>2. OneVerdictOn(cr) /\ OneVerdictOn(Blank)
  BY DEF Verdicts, OneVerdictOn, Blank, NewStatus, NoConds, CondTypes
<1>3. OneVerdictOn(cr')
  <2>1. CASE Finish
    <3>1. PICK t : cr' = IF crPhase = "absent" THEN cr
                 ELSE [cr EXCEPT !.stat = WithConds(latest,
                         EnsureConditions(latest.stat.conds, err, IsSynced(latest), t)).stat]
      BY <2>1 DEF Finish
    <3>2. WithConds(latest, EnsureConditions(latest.stat.conds, err, IsSynced(latest), t)).stat.conds
              = EnsureConditions(latest.stat.conds, err, IsSynced(latest), t)
      BY <1>1, VerdictOfOutcome
    <3>3. OneVerdictOn(latest) /\ latest.stat.conds \in Conds
      BY <1>1, <2>1 DEF Finish, Verdicts, Resource, Status
    <3>4. \A q : [cr EXCEPT !.stat = q].stat = q
      BY <1>1 DEF Resource
    <3>5. QED
      BY <1>2, <3>1, <3>2, <3>3, <3>4, SyncedOfConds DEF OneVerdictOn, Hopeful
  <2>2. CASE DeleteFinish
    <3>1. OneVerdictOn(latest)
      BY <2>2 DEF DeleteFinish, Verdicts
    <3>2. cr'.stat \in {cr.stat, latest.stat}
      BY <1>1, <2>2 DEF DeleteFinish, Resource
    <3>3. QED
      BY <1>2, <3>1, <3>2 DEF OneVerdictOn, Hopeful
  <2>3. CASE DeleteRead \/ DeleteCall \/ Unmanage \/ Crash
    <3>1. cr' \in {cr, Blank, [cr EXCEPT !.fin = FALSE]}
      BY <2>3 DEF DeleteRead, DeleteCall, Unmanage, Crash, crVars
    <3>2. [cr EXCEPT !.fin = FALSE].stat = cr.stat
      BY <1>1 DEF Resource
    <3>3. QED
      BY <1>2, <3>1, <3>2 DEF OneVerdictOn, Hopeful
  <2>4. QED
    BY <2>1, <2>2, <2>3
<1>4. CASE Finish \/ DeleteFinish \/ Unmanage \/ Crash
  BY <1>3, <1>4 DEF Finish, DeleteFinish, Unmanage, Crash, Verdicts, Observing, Syncing
<1>5. CASE DeleteRead
  <2>1. pc' = "delcall" => Hopeful(latest')
    BY <1>1, <1>5, SuccessIsHopeful DEF DeleteRead
  <2>2. pc' \in {"delcall", "unmanage", "idle"}
    BY <1>5 DEF DeleteRead
  <2>3. QED
    BY <1>3, <2>1, <2>2 DEF Verdicts, Observing, Syncing, Hopeful
<1>6. CASE DeleteCall
  <2>1. Hopeful(latest)
    BY <1>6 DEF DeleteCall, Verdicts
  <2>2. \/ pc' = "unmanage"
        \/ pc' = "delfinish" /\ \E e : latest' = OnError(latest, e).res
    BY <1>6 DEF DeleteCall, DeleteFails
  <2>3. pc' = "delfinish" => OneVerdictOn(latest')
    BY <1>1, <2>1, <2>2, VerdictOfOutcome
  <2>4. QED
    BY <1>3, <2>2, <2>3 DEF Verdicts, Observing, Syncing, OneVerdictOn, Hopeful
<1>7. QED
  BY <1>4, <1>5, <1>6

LEMMA NextVerdicts == HInv /\ Verdicts /\ [Next]_vars => Verdicts'
<1> SUFFICES ASSUME HInv, Verdicts, [Next]_vars
             PROVE  Verdicts'
  OBVIOUS
<1>1. CASE User \/ Service
  BY <1>1, OthersVerdicts
<1>2. CASE Controller \/ Crash
  BY <1>2, StartVerdicts, ReadVerdicts, CallVerdicts, LateVerdicts, EndVerdicts DEF Controller
<1>3. CASE UNCHANGED vars
  BY <1>3 DEF vars, Verdicts, OneVerdictOn, Hopeful, NotYetSynced
<1>4. QED
  BY <1>1, <1>2, <1>3 DEF Next

LEMMA VerdictsInv == Spec => []Verdicts
<1>1. Init => Verdicts
  BY DEF Init, Verdicts, OneVerdictOn, Blank, NewStatus, NoConds, CondTypes, Syncing, Observing
<1>2. QED
  BY <1>1, HoldInv, NextVerdicts, PTL DEF Spec

\* The CR is never Terminal and Recoverable at once, in any order of failing calls:
\* although updateConditions leaves Recoverable as it was when it sets Terminal, no
\* copy that it is given has one.
THEOREM OneVerdictTheorem == Spec => []OneVerdict
<1>1. Verdicts => OneVerdict
  BY DEF Verdicts, OneVerdictOn, Hopeful, OneVerdict
<1>2. QED
  BY <1>1, VerdictsInv, PTL

------------------------------------------------------------------------------
\* Tags.

\* The controller's tags are none of AWS's, and what AWS has added is the same on
\* both sides after mirroring.
LEMMA AwsTagFacts ==
    ASSUME NEW t, NEW u, NEW k \in AwsKeys, t[k] = NoTag
    PROVE  /\ EnsureTags(t)[k] = NoTag
           /\ MirrorAWSTags(t, u)[k] = u[k]
BY TagConstants DEF EnsureTags, DefaultTags, MirrorAWSTags

\* A late patch has none of AWS's tags.
LEMMA NoAwsTagPatched == ASSUME NEW r, NEW q PROVE PatchedTags(r, q) \cap AwsKeys = {}
BY TagConstants DEF PatchedTags, IgnoreSystemTags

\* The sync that has a tag of AWS in its copies has it in both.
LEMMA CopiesApart ==
    ASSUME HInv, AwsTagsApart, Controller
    PROVE  /\ pc' = "read" => \A k \in AwsKeys : desired'.tags[k] = NoTag
           /\ pc' \in {"update", "tag", "untag"} =>
                  \A k \in AwsKeys : desired'.tags[k] = latest'.tags[k]
<1>1. cr \in Resource /\ desired \in Resource /\ env \in Environment
  BY DEF HInv, CInv, TypeOK
<1>2. CASE Start
  <2>1. pc' = "read" => desired'.tags = EnsureTags(cr.tags)
    BY <1>1, <1>2 DEF Start, WithConds, Resource
  <2>2. pc' \in {"read", "delread"}
    BY <1>2 DEF Start
  <2>3. QED
    BY <2>1, <2>2, AwsTagFacts DEF AwsTagsApart
<1>3. CASE Read
  <2>1. PICK a \in Answers(desired) :
            /\ desired' = Mirrored(desired, a)
            /\ \/ pc' \in {"create", "manage", "finish"}
               \/ a.out.err = "none" /\ latest' = a.out.res
    BY <1>3 DEF Read, Return, AfterNotFound
  <2>2. pc = "read" /\ pc' \in {"create", "manage", "finish", "update"}
    BY <1>3 DEF Read, Return, AfterNotFound
  <2>3. ASSUME pc' = "update", NEW k \in AwsKeys
        PROVE  desired'.tags[k] = latest'.tags[k]
    <3>1. a.found /\ latest'.tags = env.tags
      BY <1>1, <2>1, <2>3, SuccessAnswer
    <3>2. desired'.tags = MirrorAWSTags(desired.tags, env.tags)
      BY <1>1, <2>1, <3>1 DEF Mirrored, Resource
    <3>3. QED
      BY <2>2, <3>1, <3>2, AwsTagFacts DEF AwsTagsApart
  <2>4. QED
    BY <2>2, <2>3
<1>4. CASE Decide \/ TagResource
  <2>1. pc \in {"update", "tag"} /\ desired' = desired
    BY <1>4 DEF Decide, TagResource
  <2>2. \/ pc' \in {"late", "finish", "send"}
        \/ pc' \in {"tag", "untag"} /\ latest' = latest
    BY <1>4 DEF Decide, TagResource, AfterTags, TagCallFails, Fail, Return
  <2>3. pc' # "read" /\ (pc' \in {"tag", "untag", "update"} => latest' = latest)
    BY <2>2
  <2>4. QED
    BY <2>1, <2>3 DEF AwsTagsApart
<1>5. CASE \/ Manage \/ Create \/ ReadBack \/ UntagResource \/ SendUpdate \/ Late \/ LatePatch
           \/ Finish \/ DeleteRead \/ DeleteCall \/ DeleteFinish \/ Unmanage
  BY <1>5 DEF Manage, Create, ReadBack, UntagResource, SendUpdate, Late, LatePatch, Finish,
              DeleteRead, DeleteCall, DeleteFinish, Unmanage, AfterTags, TagCallFails,
              Fail, Return, DeleteFails
<1>6. QED
  BY <1>2, <1>3, <1>4, <1>5 DEF Controller

\* No step writes one of AWS's tags to the CR.
LEMMA ClusterApart ==
    ASSUME HInv, AwsTagsApart, Controller
    PROVE  (\A k \in AwsKeys : cr'.tags[k] = NoTag) /\ patch'.tags \cap AwsKeys = {}
<1>1. cr \in Resource
  BY DEF HInv, CInv, TypeOK
<1>2. \A k \in AwsKeys : Blank.tags[k] = NoTag
  BY TagConstants DEF Blank, NoTags
<1>3. CASE Late
  <2>1. PICK a \in Answers(latest) :
            \/ patch' = patch
            \/ patch' = [fields |-> PatchedFields(latest, LateInitialized(latest, a)),
                         tags |-> PatchedTags(latest, LateInitialized(latest, a))]
    BY <1>3 DEF Late
  <2>2. patch'.tags \cap AwsKeys = {}
    BY <2>1, NoAwsTagPatched DEF AwsTagsApart
  <2>3. QED
    BY <1>3, <2>2 DEF Late, AwsTagsApart, crVars
<1>4. CASE LatePatch
  <2>1. \/ cr' = cr
        \/ cr'.tags = [k \in TagKeys |-> IF k \in patch.tags THEN latest.tags[k] ELSE cr.tags[k]]
    BY <1>1, <1>4 DEF LatePatch, Resource
  <2>2. \A k \in AwsKeys : cr'.tags[k] = cr.tags[k]
    BY <2>1, TagConstants DEF AwsTagsApart
  <2>3. QED
    BY <1>4, <2>2 DEF LatePatch, AwsTagsApart
<1>5. CASE \/ Start \/ Read \/ Manage \/ Create \/ ReadBack \/ Decide \/ TagResource
           \/ UntagResource \/ SendUpdate \/ DeleteRead \/ DeleteCall
  <2>1. cr'.tags = cr.tags
    BY <1>1, <1>5
       DEF Start, Read, Manage, Create, ReadBack, Decide, TagResource, UntagResource,
           SendUpdate, DeleteRead, DeleteCall, crVars, Resource
  <2>2. patch' \in {patch, NoPatch}
    BY <1>5
       DEF Start, Read, Manage, Create, ReadBack, Decide, TagResource, UntagResource,
           SendUpdate, DeleteRead, DeleteCall, Forget, locals
  <2>3. QED
    BY <2>1, <2>2 DEF AwsTagsApart, NoPatch
<1>6. CASE Finish \/ DeleteFinish \/ Unmanage
  <2>1. cr'.tags \in {cr.tags, Blank.tags}
    <3>1. \/ cr' \in {cr, Blank, [cr EXCEPT !.fin = FALSE]}
          \/ \E s : cr' = [cr EXCEPT !.stat = s]
      BY <1>6 DEF Finish, DeleteFinish, Unmanage, crVars
    <3>2. QED
      BY <1>1, <3>1 DEF Resource
  <2>2. patch' = NoPatch
    BY <1>6 DEF Finish, DeleteFinish, Unmanage, Forget
  <2>3. QED
    BY <1>2, <2>1, <2>2 DEF AwsTagsApart, NoPatch
<1>7. QED
  BY <1>3, <1>4, <1>5, <1>6 DEF Controller

\* Users set no tag of AWS.
UsersTags == \A t \in InitTags, k \in AwsKeys : t[k] = NoTag

LEMMA OthersApart ==
    ASSUME UsersTags, HInv, AwsTagsApart, User \/ Service \/ Crash
    PROVE  AwsTagsApart'
<1>1. cr \in Resource
  BY DEF HInv, CInv, TypeOK
<1>2. ASSUME NEW k \in AwsKeys
      PROVE  cr'.tags[k] = NoTag
  <2>1. Blank.tags[k] = NoTag
    BY TagConstants DEF Blank, NoTags
  <2>2. CASE CreateCR
    <3>1. PICK s \in InitSpecs, t \in InitTags : cr' = [Blank EXCEPT !.spec = s, !.tags = t]
      BY <2>2 DEF CreateCR
    <3>2. cr'.tags = t
      BY <3>1 DEF Blank
    <3>3. QED
      BY <3>2 DEF UsersTags
  <2>3. CASE \E f \in Fields : \E v \in PatchVals[f] : PatchSpec(f, v)
    BY <1>1, <2>3 DEF PatchSpec, Resource, AwsTagsApart
  <2>4. CASE \E j \in TagKeys \ AwsKeys : \E v \in TagVals \cup {NoTag} : PatchTag(j, v)
    <3>1. PICK j \in TagKeys \ AwsKeys, v \in TagVals \cup {NoTag} :
              cr' = [cr EXCEPT !.tags = [@ EXCEPT ![j] = v]]
      BY <2>4 DEF PatchTag
    <3>2. cr'.tags = [cr.tags EXCEPT ![j] = v] /\ cr.tags \in [TagKeys -> TagVals \cup {NoTag}]
      BY <1>1, <3>1 DEF Resource, TagMap
    <3>3. QED
      BY <3>2, TagConstants DEF AwsTagsApart
  <2>5. CASE DeleteCR \/ Service \/ Crash
    BY <2>1, <2>5 DEF DeleteCR, Service, Crash, AwsTagsApart, crVars
  <2>6. QED
    BY <2>2, <2>3, <2>4, <2>5 DEF User
<1>3. \/ UNCHANGED <<pc, desired, latest, patch>>
      \/ pc' = "idle" /\ patch' = NoPatch
  BY DEF User, Service, Crash, CreateCR, PatchSpec, PatchTag, DeleteCR, locals, Forget
<1>4. QED
  BY <1>2, <1>3 DEF AwsTagsApart, NoPatch

LEMMA AwsTagsApartInv == ASSUME UsersTags PROVE Spec => []AwsTagsApart
<1>1. Init => AwsTagsApart
  BY TagConstants DEF Init, AwsTagsApart, Blank, NoTags, NoPatch
<1>2. HInv /\ AwsTagsApart /\ [Next]_vars => AwsTagsApart'
  <2> SUFFICES ASSUME HInv, AwsTagsApart, [Next]_vars
               PROVE  AwsTagsApart'
    OBVIOUS
  <2>1. CASE User \/ Service \/ Crash
    BY <2>1, OthersApart
  <2>2. CASE Controller
    BY <2>2, CopiesApart, ClusterApart DEF AwsTagsApart
  <2>3. CASE UNCHANGED vars
    BY <2>3 DEF vars, AwsTagsApart
  <2>4. QED
    BY <2>1, <2>2, <2>3 DEF Next
<1>3. QED
  BY <1>1, <1>2, HoldInv, PTL DEF Spec

\* No call for tags names a key of AWS, however often AWS adds one between two reads
\* and whenever a sync is cut short: for users who write none of AWS's tags.
THEOREM NoAwsTagCallsTheorem == ASSUME UsersTags PROVE Spec => []NoAwsTagCalls
<1>1. AwsTagsApart => NoAwsTagCalls
  BY DEF AwsTagsApart, NoAwsTagCalls, AddKeys, DeleteKeys, ToAdd, ToDelete
<1>2. QED
  BY <1>1, AwsTagsApartInv, PTL

\* The CR keeps its user's tags: a tag of AWS that a late read sees is not patched
\* onto it.
THEOREM ClusterTagsAreTheUsersTheorem ==
    ASSUME UsersTags
    PROVE  Spec => []ClusterTagsAreTheUsers
<1>1. AwsTagsApart => ClusterTagsAreTheUsers
  BY DEF AwsTagsApart, ClusterTagsAreTheUsers
<1>2. QED
  BY <1>1, AwsTagsApartInv, PTL

------------------------------------------------------------------------------
\* Synced.

\* No difference is no difference of any setting but the options.
LEMMA NoDelta ==
    ASSUME NEW a, NEW b, Delta(a, b) = {}
    PROVE  \A f \in Fields \ {Opts} : a[f] = b[f]
BY DEF Delta, ScalarDelta, LoggingDelta, NetworkDelta

\* The two calls for tags make the one map of the other.
LEMMA TagCalls ==
    ASSUME NEW d, NEW t, NEW k \in TagKeys
    PROVE  /\ k \notin ToDelete(d, t) =>
                  d[k] = (IF k \in ToAdd(d, t) THEN d[k] ELSE t[k])
           /\ k \in ToDelete(d, t) => d[k] = NoTag
BY DEF ToAdd, ToDelete

\* A reconciliation that fails ends with an error.
LEMMA FailErr ==
    ASSUME NEW r \in Resource, NEW e, Fail(r, e)
    PROVE  pc' = "finish" /\ err' # "none"
BY OutcomeTypes DEF Fail, Return

\* Without drift the service keeps the settings it has and, of the tags, those of
\* its user, until it is deleted.
LEMMA ServiceTakes ==
    ASSUME HInv, Service, "drift" \notin FaultKinds
    PROVE  /\ SettingsTaken /\ TagsTaken => SettingsTaken' /\ TagsTaken'
           /\ Seen => Seen'
<1>1. env \in Environment /\ UNCHANGED <<pc, desired, latest>>
  BY DEF HInv, CInv, TypeOK, Service, locals
<1>2. ~Drift
  BY DEF Drift, Fault
<1>3. CASE FinishDelete
  BY <1>3 DEF FinishDelete, SettingsTaken, Settled, Seen
<1>4. CASE AddAwsTag
  <2>1. PICK j \in AwsKeys, v \in TagVals : env' = [env EXCEPT !.tags = [@ EXCEPT ![j] = v]]
    BY <1>4 DEF AddAwsTag
  <2>2. /\ env'.status = env.status /\ env'.cfg = env.cfg /\ env'.tried = env.tried
        /\ env'.tags = [env.tags EXCEPT ![j] = v]
    BY <1>1, <2>1 DEF Environment
  <2>3. \A k \in OwnTags : env'.tags[k] = env.tags[k]
    <3>1. env.tags \in [TagKeys -> TagVals \cup {NoTag}]
      BY <1>1 DEF Environment, TagMap
    <3>2. QED
      BY <2>2, <3>1 DEF OwnTags
  <2>4. SettingsTaken => SettingsTaken'
    BY <1>1, <2>2 DEF SettingsTaken, Settled, Updatable
  <2>5. TagsTaken => TagsTaken'
    BY <1>1, <2>3 DEF TagsTaken, OwnTags
  <2>6. Seen => Seen'
    <3>1. DeleteKeys' = DeleteKeys
      BY <1>1 DEF DeleteKeys, ToDelete
    <3>2. QED
      BY <1>1, <2>2, <2>3, <2>5, <3>1 DEF Seen, Settled, Updatable, OwnTags
  <2>7. QED
    BY <2>4, <2>5, <2>6
<1>5. CASE FinishCreate \/ FinishUpdate \/ EndMaintenance \/ BecomeUnavailable \/ StartMaintenance
  <2>1. env'.tags = env.tags /\ env'.tried = env.tried
    BY <1>1, <1>5
       DEF FinishCreate, FinishUpdate, EndMaintenance, BecomeUnavailable, StartMaintenance,
           Environment
  <2>2. /\ env'.status \notin {"ABSENT", "DELETING"}
        /\ Settled => Settled' /\ env'.cfg = env.cfg
    BY <1>1, <1>5
       DEF FinishCreate, FinishUpdate, EndMaintenance, BecomeUnavailable, StartMaintenance,
           Environment, Settled
  <2>3. SettingsTaken => SettingsTaken'
    BY <1>1, <2>1, <2>2 DEF SettingsTaken, Updatable
  <2>4. TagsTaken => TagsTaken'
    BY <1>1, <2>1 DEF TagsTaken, OwnTags
  <2>5. Seen => Seen'
    <3>1. DeleteKeys' = DeleteKeys
      BY <1>1 DEF DeleteKeys, ToDelete
    <3>2. QED
      BY <1>1, <2>1, <2>2, <2>4, <3>1 DEF Seen, Updatable, OwnTags
  <2>6. QED
    BY <2>3, <2>4, <2>5
<1>6. QED
  BY <1>2, <1>3, <1>4, <1>5 DEF Service, Complete

\* What others do leaves a sync with what it has seen and sent.
LEMMA OthersTaken ==
    ASSUME HInv, Taken, "drift" \notin FaultKinds, User \/ Service \/ Crash
    PROVE  Taken'
<1>1. CASE User
  <2>1. UNCHANGED <<env, pc, desired, latest, err>>
    BY <1>1 DEF User, CreateCR, PatchSpec, PatchTag, DeleteCR, locals
  <2>2. QED
    BY <2>1 DEF Taken, SettingsTaken, TagsTaken, Seen, Settled, Updatable, OwnTags, DeleteKeys,
                ToDelete
<1>2. CASE Service
  <2>1. UNCHANGED <<pc, desired, latest, err>>
    BY <1>2 DEF Service, locals
  <2>2. QED
    BY <1>2, <2>1, ServiceTakes DEF Taken
<1>3. CASE Crash
  BY <1>3 DEF Crash, Taken
<1>4. QED
  BY <1>1, <1>2, <1>3

\* What a read has seen is so when it returns.
LEMMA ReadTaken == ASSUME HInv, Taken, Read PROVE Taken'
<1>1. desired \in Resource /\ env \in Environment
  BY DEF HInv, CInv, TypeOK
<1>2. PICK a \in Answers(desired) :
          /\ desired' = Mirrored(desired, a)
          /\ \/ pc' \in {"create", "manage"}
             \/ pc' = "finish" /\ err' # "none"
             \/ a.out.err = "none" /\ latest' = a.out.res /\ pc' = "update"
  BY DEF Read, Return, AfterNotFound
<1>3. CASE pc' = "update" /\ a.out.err = "none" /\ latest' = a.out.res
  <2>1. /\ latest'.stat.st = env.status /\ latest'.tags = env.tags
        /\ latest'.spec = FindSpec(desired.spec, env.cfg)
    BY <1>1, <1>3, SuccessAnswer
  <2>2. \A f \in Updatable : latest'.spec[f] = env.cfg[f]
    BY <2>1 DEF Updatable, FindSpec, Reported
  <2>3. env' = env
    BY DEF Read
  <2>4. latest'.stat.st = "AVAILABLE" => Seen'
    BY <1>3, <2>1, <2>2, <2>3 DEF Seen, Settled, Updatable, OwnTags
  <2>5. QED
    BY <1>3, <2>4 DEF Taken
<1>4. CASE pc' \in {"create", "manage"} \/ (pc' = "finish" /\ err' # "none")
  BY <1>4 DEF Taken
<1>5. QED
  BY <1>2, <1>3, <1>4

\* The environment is created with the settings and tags of the copy.
LEMMA CreateTaken == ASSUME HInv, Create PROVE Taken'
<1>1. desired \in Resource /\ desired.spec \in SpecType /\ desired' = desired
  BY ResourceTypes DEF HInv, CInv, TypeOK, Create
<1>2. CASE pc' = "readback"
  <2>1. /\ ~OutOfRange(desired.spec)
        /\ \E cfg \in {CreatePayload(desired.spec),
                       WithDefaults(CreatePayload(desired.spec), DefaultVal)} :
               env' = [status |-> "CREATING", cfg |-> cfg, tried |-> cfg,
                       last |-> "unset", tags |-> desired.tags]
    BY <1>2 DEF Create, Fail, Return
  <2>2. \A f \in Fields : CreatePayload(desired.spec)[f] = desired.spec[f]
    BY <1>1, <2>1, PayloadsRequested
  <2>3. \A f \in Fields : desired.spec[f] \in {Nil, env'.tried[f]}
    BY <2>1, <2>2 DEF WithDefaults
  <2>4. SettingsTaken' /\ TagsTaken'
    BY <1>1, <2>1, <2>3 DEF SettingsTaken, TagsTaken, Updatable, OwnTags
  <2>5. QED
    BY <1>2, <2>4 DEF Taken
<1>3. CASE \E e : Fail(desired, e)
  BY <1>1, <1>3, FailErr DEF Taken
<1>4. QED
  BY <1>2, <1>3 DEF Create

\* A sync that finds no difference has nothing to bring about; one that does goes on
\* from what it has seen.
LEMMA DecideTaken == ASSUME HInv, Taken, Decide PROVE Taken'
<1>1. /\ latest \in Resource /\ pc = "update" /\ UNCHANGED <<env, desired>>
  BY DEF HInv, CInv, TypeOK, Decide
<1>2. CASE Fail(latest, "NotAvailable")
  BY <1>1, <1>2, FailErr DEF Taken
<1>3. CASE ~Fail(latest, "NotAvailable")
  <2>1. UNCHANGED <<latest, err>>
    BY <1>3 DEF Decide
  <2>2. \/ pc' = "late" /\ SpecDelta = {} /\ AddKeys = {} /\ DeleteKeys = {}
        \/ /\ latest.stat.st = "AVAILABLE"
           /\ \/ pc' = "tag"
              \/ pc' = "untag" /\ AddKeys = {}
              \/ pc' = "send" /\ AddKeys = {} /\ DeleteKeys = {}
    BY <1>3 DEF Decide
  <2>3. latest.stat.st = "AVAILABLE" => Seen
    BY <1>1 DEF Taken
  <2>4. ASSUME Seen, AddKeys = {}
        PROVE  \A k \in OwnTags \ DeleteKeys : desired.tags[k] = env.tags[k]
    BY <1>1, <2>4, TagCalls DEF Seen, AddKeys, DeleteKeys, OwnTags
  <2>5. DeleteKeys' = DeleteKeys
    BY <1>1, <2>1 DEF DeleteKeys, ToDelete
  <2>6. CASE pc' = "late"
    <3>1. latest.stat.st = "AVAILABLE" => SettingsTaken' /\ TagsTaken'
      <4>1. \A f \in Updatable : desired.spec[f] = latest.spec[f]
        BY <2>2, <2>6, NoDelta DEF SpecDelta, Updatable
      <4>2. QED
        BY <1>1, <2>2, <2>3, <2>4, <2>6, <4>1
           DEF Seen, SettingsTaken, TagsTaken, Settled, Updatable, OwnTags
    <3>2. QED
      BY <2>1, <2>6, <3>1 DEF Taken
  <2>7. CASE pc' # "late"
    <3>1. Seen'
      BY <1>1, <2>1, <2>2, <2>3, <2>4, <2>5, <2>7
         DEF Seen, TagsTaken, Settled, Updatable, OwnTags
    <3>2. QED
      BY <2>1, <2>2, <2>7, <3>1 DEF Taken
  <2>8. QED
    BY <2>6, <2>7
<1>4. QED
  BY <1>2, <1>3

\* The update is sent once the tags are set: what follows the calls for tags.
LEMMA AfterTagsTaken ==
    ASSUME HInv, AfterTags, UNCHANGED <<desired, err>>, latest.stat.st = "AVAILABLE",
           Settled, Settled', env'.cfg = env.cfg,
           \A f \in Updatable : latest.spec[f] = env.cfg[f], TagsTaken'
    PROVE  Taken'
<1>1. CASE pc' = "send" /\ latest' = latest
  <2>1. Seen'
    BY <1>1 DEF Seen, Updatable, OwnTags
  <2>2. QED
    BY <1>1, <2>1 DEF Taken
<1>2. CASE SpecDelta = {} /\ pc' = "late"
  <2>1. \A f \in Updatable : desired.spec[f] = latest.spec[f]
    BY <1>2, NoDelta DEF SpecDelta, Updatable
  <2>2. SettingsTaken'
    BY <2>1 DEF SettingsTaken, Updatable
  <2>3. QED
    BY <1>2, <2>2 DEF Taken
<1>3. QED
  BY <1>1, <1>2 DEF AfterTags

LEMMA TagTaken == ASSUME HInv, Taken, TagResource PROVE Taken'
<1>1. /\ latest \in Resource /\ env \in Environment /\ desired' = desired
      /\ Seen /\ latest.stat.st = "AVAILABLE"
  BY DEF HInv, CInv, TypeOK, Taken, TagResource
<1>2. CASE \E e : Fail(latest, e)
  BY <1>1, <1>2, FailErr DEF Taken
<1>3. CASE ~\E e : Fail(latest, e)
  <2>1. /\ env' = [env EXCEPT !.tags = Tagged(@, desired.tags, AddKeys)]
        /\ err' = err
        /\ \/ DeleteKeys # {} /\ pc' = "untag" /\ latest' = latest
           \/ DeleteKeys = {} /\ AfterTags
    BY <1>3 DEF TagResource, TagCallFails
  <2>2. /\ env'.cfg = env.cfg /\ env'.status = env.status
        /\ env'.tags = Tagged(env.tags, desired.tags, AddKeys)
    BY <1>1, <2>1 DEF Environment
  <2>3. \A k \in OwnTags : latest.tags[k] = env.tags[k]
    BY <1>1 DEF Seen, TagResource
  <2>4. \A k \in OwnTags \ DeleteKeys : desired.tags[k] = env'.tags[k]
    BY <2>2, <2>3, TagCalls DEF Tagged, OwnTags, AddKeys, DeleteKeys
  <2>5. Settled /\ Settled' /\ \A f \in Updatable : latest.spec[f] = env.cfg[f]
    BY <1>1, <2>2 DEF Seen, Settled
  <2>6. CASE pc' = "untag" /\ latest' = latest
    <3>1. DeleteKeys' = DeleteKeys
      BY <1>1, <2>6 DEF DeleteKeys, ToDelete
    <3>2. Seen'
      BY <1>1, <2>2, <2>4, <2>5, <2>6, <3>1 DEF Seen, Updatable, OwnTags
    <3>3. QED
      BY <1>1, <2>6, <3>2 DEF Taken
  <2>7. CASE DeleteKeys = {} /\ AfterTags
    <3>1. TagsTaken'
      BY <1>1, <2>4, <2>7 DEF TagsTaken, OwnTags
    <3>2. QED
      BY <1>1, <2>1, <2>2, <2>5, <2>7, <3>1, AfterTagsTaken
  <2>8. QED
    BY <2>1, <2>6, <2>7
<1>4. QED
  BY <1>2, <1>3

LEMMA UntagTaken == ASSUME HInv, Taken, UntagResource PROVE Taken'
<1>1. /\ latest \in Resource /\ env \in Environment /\ desired' = desired
      /\ Seen /\ latest.stat.st = "AVAILABLE"
  BY DEF HInv, CInv, TypeOK, Taken, UntagResource
<1>2. CASE \E e : Fail(latest, e)
  BY <1>1, <1>2, FailErr DEF Taken
<1>3. CASE ~\E e : Fail(latest, e)
  <2>1. /\ env' = [env EXCEPT !.tags = Untagged(@, DeleteKeys)]
        /\ err' = err
        /\ AfterTags
    BY <1>3 DEF UntagResource, TagCallFails
  <2>2. /\ env'.cfg = env.cfg /\ env'.status = env.status
        /\ env'.tags = Untagged(env.tags, DeleteKeys)
    BY <1>1, <2>1 DEF Environment
  <2>3. \A k \in OwnTags \ DeleteKeys : desired.tags[k] = env.tags[k]
    BY <1>1 DEF Seen, UntagResource
  <2>4. TagsTaken'
    BY <1>1, <2>2, <2>3, TagCalls DEF TagsTaken, Untagged, OwnTags, DeleteKeys
  <2>5. Settled /\ Settled' /\ \A f \in Updatable : latest.spec[f] = env.cfg[f]
    BY <1>1, <2>2 DEF Seen, Settled
  <2>6. QED
    BY <1>1, <2>1, <2>2, <2>4, <2>5, AfterTagsTaken
<1>4. QED
  BY <1>2, <1>3

\* An update that the service takes carries every setting that it can.
LEMMA SendTaken == ASSUME HInv, Taken, SendUpdate PROVE Taken'
<1>1. /\ latest \in Resource /\ env \in Environment /\ desired' = desired
      /\ desired.spec \in SpecType /\ Seen
  BY ResourceTypes DEF HInv, CInv, TypeOK, Taken, SendUpdate
<1>2. CASE \E e : Fail(latest, e)
  BY <1>1, <1>2, FailErr DEF Taken
<1>3. CASE ~\E e : Fail(latest, e)
  <2>1. /\ ~OutOfRange(desired.spec) /\ pc' = "late"
        /\ env' = [env EXCEPT !.status = "UPDATING", !.last = "PENDING",
                              !.tried = UpdatePayload(desired.spec)]
    BY <1>3 DEF SendUpdate
  <2>2. /\ env'.status = "UPDATING" /\ env'.tags = env.tags
        /\ env'.tried = UpdatePayload(desired.spec)
    BY <1>1, <2>1 DEF Environment
  <2>3. \A f \in Updatable : env'.tried[f] = desired.spec[f]
    BY <1>1, <2>1, <2>2, PayloadsRequested DEF Updatable
  <2>4. SettingsTaken' /\ TagsTaken'
    BY <1>1, <2>2, <2>3 DEF SettingsTaken, TagsTaken, Seen, Updatable, OwnTags, SendUpdate
  <2>5. QED
    BY <2>1, <2>4 DEF Taken
<1>4. QED
  BY <1>2, <1>3

\* The reads after the calls change neither the environment nor what was asked for.
LEMMA LateTaken == ASSUME HInv, Taken, ReadBack \/ Late \/ LatePatch PROVE Taken'
<1>1. latest \in Resource /\ env \in Environment /\ UNCHANGED <<env, desired>>
  BY DEF HInv, CInv, TypeOK, ReadBack, Late, LatePatch
<1>2. SettingsTaken /\ TagsTaken => SettingsTaken' /\ TagsTaken'
  BY <1>1 DEF SettingsTaken, TagsTaken, Settled, Updatable, OwnTags
<1>3. CASE ReadBack
  BY <1>2, <1>3 DEF ReadBack, Return, Taken
<1>4. CASE Late
  <2>1. PICK a \in Answers(latest) :
            \/ pc' = "finish" /\ err' # "none"
            \/ pc' \in {"finish", "latepatch"} /\ latest' = LateInitialized(latest, a)
    BY <1>4 DEF Late, Return
  <2>2. LateInitialized(latest, a).stat.st = latest.stat.st
    <3>1. ASSUME NEW m \in Resource, NEW c, NEW s
          PROVE  [WithConds(m, c) EXCEPT !.spec = s].stat.st = m.stat.st
      BY DEF WithConds, Resource, Status
    <3>2. Mirrored(latest, a) \in Resource /\ Mirrored(latest, a).stat = latest.stat
      BY <1>1, AnswerType DEF Mirrored, Resource
    <3>3. QED
      BY <3>1, <3>2 DEF LateInitialized
  <2>3. QED
    BY <1>2, <1>4, <2>1, <2>2 DEF Late, Taken
<1>5. CASE LatePatch
  BY <1>2, <1>5 DEF LatePatch, Taken
<1>6. QED
  BY <1>3, <1>4, <1>5

LEMMA NextTaken ==
    ASSUME "drift" \notin FaultKinds
    PROVE  HInv /\ Taken /\ [Next]_vars => Taken'
<1> SUFFICES ASSUME HInv, Taken, [Next]_vars
             PROVE  Taken'
  OBVIOUS
<1>1. CASE User \/ Service \/ Crash
  BY <1>1, OthersTaken
<1>2. CASE \/ Read \/ Create \/ Decide \/ TagResource \/ UntagResource \/ SendUpdate
           \/ ReadBack \/ Late \/ LatePatch
  BY <1>2, ReadTaken, CreateTaken, DecideTaken, TagTaken, UntagTaken, SendTaken, LateTaken
<1>3. CASE Manage
  BY <1>3 DEF Manage, Return, Taken
<1>4. CASE Start \/ Finish \/ DeleteRead \/ DeleteCall \/ DeleteFinish \/ Unmanage
  BY <1>4 DEF Start, Finish, DeleteRead, DeleteCall, DeleteFails, DeleteFinish, Unmanage, Taken
<1>5. CASE UNCHANGED vars
  BY <1>5 DEF vars, Taken, SettingsTaken, TagsTaken, Seen, Settled, Updatable, OwnTags,
              DeleteKeys, ToDelete
<1>6. QED
  BY <1>1, <1>2, <1>3, <1>4, <1>5 DEF Next, Controller

\* A CR that is gone does not say Synced.
LEMMA NextNoneSynced == HInv /\ NoneSynced /\ [Next]_vars => NoneSynced'
<1> SUFFICES ASSUME HInv, NoneSynced, [Next]_vars
             PROVE  NoneSynced'
  OBVIOUS
<1>1. cr \in Resource
  BY DEF HInv, CInv, TypeOK
<1>2. NotYetSynced(Blank)
  BY DEF NotYetSynced, Blank, NewStatus, NoConds, CondTypes
<1>3. crPhase' = "absent" => cr' = Blank \/ (crPhase = "absent" /\ cr'.stat = cr.stat)
  <2>1. CASE User \/ Service \/ Crash
    BY <2>1 DEF User, CreateCR, PatchSpec, PatchTag, DeleteCR, Service, Crash, crVars
  <2>2. CASE LatePatch \/ Finish \/ DeleteFinish \/ Manage \/ Unmanage
    BY <1>1, <2>2 DEF LatePatch, Finish, DeleteFinish, Manage, Unmanage, Return, crVars, Resource
  <2>3. CASE \/ Start \/ Read \/ Create \/ ReadBack \/ Decide \/ TagResource
             \/ UntagResource \/ SendUpdate \/ Late \/ DeleteRead \/ DeleteCall
    BY <2>3 DEF Start, Read, Create, ReadBack, Decide, TagResource, UntagResource, SendUpdate,
                Late, DeleteRead, DeleteCall, crVars
  <2>4. CASE UNCHANGED vars
    BY <2>4 DEF vars
  <2>5. QED
    BY <2>1, <2>2, <2>3, <2>4 DEF Next, Controller
<1>4. QED
  BY <1>2, <1>3 DEF NoneSynced, NotYetSynced

\* Where nobody changes the environment behind the controller's back, a sync that
\* says Synced has brought all the CR asked for to the service: the status it is
\* computed from is old, but is not out of date.
THEOREM SyncedMeansTakenTheorem ==
    ASSUME "drift" \notin FaultKinds
    PROVE  Spec => SyncedMeansTaken
<1> DEFINE Ends == Finish /\ err = "none" /\ cr'.stat.conds["Synced"] = "True"
           Brought ==
               /\ \A f \in Fields \ (CreateOnlyFields \cup {Opts}) :
                      desired.spec[f] \in {Nil, env.cfg[f], env.tried[f]}
               /\ \A k \in TagKeys \ AwsKeys : env.tags[k] = desired.tags[k]
<1>1. HInv /\ Verdicts /\ NoneSynced /\ Taken => (Ends => Brought)
  <2> SUFFICES ASSUME HInv, Verdicts, NoneSynced, Taken, Ends
               PROVE  Brought
    OBVIOUS
  <2>1. cr \in Resource /\ latest \in Resource /\ pc = "finish" /\ err = "none"
    BY DEF HInv, CInv, TypeOK, Finish
  <2>2. crPhase # "absent"
    BY DEF Finish, NoneSynced, NotYetSynced
  <2>3. PICK t : cr' = [cr EXCEPT !.stat = WithConds(latest,
                           EnsureConditions(latest.stat.conds, err, IsSynced(latest), t)).stat]
    BY <2>2 DEF Finish
  <2>4. cr'.stat.conds = EnsureConditions(latest.stat.conds, "none", IsSynced(latest), t)
    BY <2>1, <2>3, VerdictOfOutcome DEF Resource
  <2>5. latest.stat.conds \in Conds /\ NotYetSynced(latest)
    BY <2>1 DEF Resource, Status, Verdicts
  <2>6. latest.stat.st = "AVAILABLE"
    BY <2>4, <2>5 DEF EnsureConditions, IsSynced, NotYetSynced, Conds, CondTypes
  <2>7. SettingsTaken /\ TagsTaken
    BY <2>1, <2>6 DEF Taken
  <2>8. QED
    BY <2>7 DEF SettingsTaken, TagsTaken, Updatable, OwnTags
<1>2. Init => NoneSynced /\ Taken
  BY DEF Init, NoneSynced, NotYetSynced, Taken, Blank, NewStatus, NoConds, CondTypes
<1>3. HInv /\ Verdicts /\ NoneSynced /\ Taken => [Ends => Brought]_vars
  BY <1>1
<1>4. QED
  BY <1>2, <1>3, NextTaken, NextNoneSynced, HoldInv, VerdictsInv, PTL
     DEF Spec, SyncedMeansTaken
===============================================================================
