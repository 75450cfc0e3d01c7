------------------------------ MODULE Reconciler ------------------------------
(***************************************************************************)
(* One Environment custom resource (CR), the controller that reconciles    *)
(* it, its user and the MWAA service.                                      *)
(*                                                                         *)
(* The controller takes one step per call that leaves it: a GetEnvironment,*)
(* a call that changes the environment, a patch of the CR.  Between two    *)
(* steps the user and the service move.  pc names the call that is next;   *)
(* desired, latest, err and patch are the variables of the running         *)
(* reconciliation and are lost when the controller crashes.                *)
(*                                                                         *)
(* The order of the calls is that of the ACK runtime, which the repository *)
(* imports; what each of them does is the resource manager's code.         *)
(***************************************************************************)
EXTENDS EnvironmentSpec, Tags, Conditions

CONSTANTS
    InitSpecs,   \* the specs the user may create the CR with
    InitTags,    \* the tag maps the user may create the CR with
    PatchVals,   \* [Fields -> SUBSET Value]: what the user may set a field to
    DefaultVal,  \* what the service gives a setting nobody chose
    FaultKinds,  \* the faults of the instance
    MaxEdits,    \* bound: actions of the user
    MaxFaults    \* bound: faults

AllFaults == {"api", "lostReply", "reject", "crash", "createFails",
              "updateFails", "unavailable", "maintenance", "drift", "awsTag"}

ASSUME ReconcilerConstants ==
    /\ InitSpecs \subseteq SpecType
    /\ InitTags \subseteq TagMap
    /\ PatchVals \in [Fields -> SUBSET Value]
    /\ \A f \in Int32Fields : PatchVals[f] \subseteq Int \cup {Nil}
    /\ "Name" \in Fields  \* the CRD requires it
           => Nil \notin PatchVals["Name"] /\ \A s \in InitSpecs : s["Name"] # Nil
    /\ DefaultVal \in MinInt32 .. MaxInt32
    /\ FaultKinds \subseteq AllFaults
    /\ MaxEdits \in Nat /\ MaxFaults \in Nat

VARIABLES
    crPhase,  \* "absent", "live", or "deleting": it has a deletionTimestamp
    cr,       \* the CR in the Kubernetes API
    env,      \* the environment in the service
    pc,       \* the next call of the controller
    desired,  \* the CR as the reconciliation works on it
    latest,   \* the observed resource, and the one a method returned
    err,      \* how the reconciliation ends
    patch,    \* the fields and tag keys late initialization writes to the CR
    queued,   \* the work queue holds the CR's key
    edits, faults

crVars == <<crPhase, cr>>
locals == <<desired, latest, err, patch>>
vars == <<crPhase, cr, env, pc, desired, latest, err, patch, queued, edits, faults>>

------------------------------------------------------------------------------
\* Types.

EnvStatus == {"ABSENT", "CREATING", "AVAILABLE", "CREATE_FAILED", "UPDATING",
              "MAINTENANCE", "UNAVAILABLE", "DELETING"}
UpdateStatus == {"unset", "PENDING", "SUCCESS", "FAILED"}

Status == [st : EnvStatus \cup {"unset"}, last : UpdateStatus, conds : Conds]
Resource == [spec : SpecType, tags : TagMap, fin : BOOLEAN, stat : Status]
Environment == [status : EnvStatus, cfg : SpecType, tried : SpecType,
                last : UpdateStatus, tags : TagMap]

Steps == {"idle", "read", "manage", "create", "readback", "update", "tag",
          "untag", "send", "late", "latepatch", "finish",
          "delread", "delcall", "delfinish", "unmanage"}

Patch == [fields : SUBSET Fields, tags : SUBSET TagKeys]
NoPatch == [fields |-> {}, tags |-> {}]

NilSpec == [f \in Fields |-> Nil]
NewStatus == [st |-> "unset", last |-> "unset", conds |-> NoConds]
Blank == [spec |-> NilSpec, tags |-> NoTags, fin |-> FALSE, stat |-> NewStatus]
NoEnvironment == [status |-> "ABSENT", cfg |-> NilSpec, tried |-> NilSpec,
                  last |-> "unset", tags |-> NoTags]

TypeOK ==
    /\ crPhase \in {"absent", "live", "deleting"}
    /\ cr \in Resource
    /\ env \in Environment
    /\ pc \in Steps
    /\ desired \in Resource
    /\ latest \in Resource
    /\ err \in Errors
    /\ patch \in Patch
    /\ queued \in BOOLEAN
    /\ edits \in Nat
    /\ faults \in Nat

Init ==
    /\ crPhase = "absent" /\ cr = Blank
    /\ env = NoEnvironment
    /\ pc = "idle" /\ desired = Blank /\ latest = Blank
    /\ err = "none" /\ patch = NoPatch
    /\ queued = FALSE
    /\ edits = 0 /\ faults = 0

Edit == edits < MaxEdits /\ edits' = edits + 1
Fault(kind) == kind \in FaultKinds /\ faults < MaxFaults /\ faults' = faults + 1

------------------------------------------------------------------------------
\* The user.  A change of the spec and a deletion put the key on the queue.

CreateCR ==
    /\ crPhase = "absent"
    /\ Edit
    /\ crPhase' = "live"
    /\ \E s \in InitSpecs, t \in InitTags :
           cr' = [Blank EXCEPT !.spec = s, !.tags = t]
    /\ queued' = TRUE
    /\ UNCHANGED <<env, pc, locals, faults>>

\* The rule self == oldSelf of the CRD guards the change from a value (of the subnets
\* in types.go).
Immutable == {"Name"} \cup CreateOnlyFields

PatchSpec(f, v) ==
    /\ crPhase = "live"
    /\ v # cr.spec[f]
    /\ f \in Immutable => cr.spec[f] = Nil \/ v = Nil
    /\ Edit
    /\ cr' = [cr EXCEPT !.spec = [@ EXCEPT ![f] = v]]
    /\ queued' = TRUE
    /\ UNCHANGED <<crPhase, env, pc, locals, faults>>

PatchTag(k, v) ==
    /\ crPhase = "live"
    /\ v # cr.tags[k]
    /\ Edit
    /\ cr' = [cr EXCEPT !.tags = [@ EXCEPT ![k] = v]]
    /\ queued' = TRUE
    /\ UNCHANGED <<crPhase, env, pc, locals, faults>>

\* Kubernetes removes the CR at once unless a finalizer holds it.
DeleteCR ==
    /\ crPhase = "live"
    /\ Edit
    /\ crPhase' = IF cr.fin THEN "deleting" ELSE "absent"
    /\ cr' = IF cr.fin THEN cr ELSE Blank
    /\ queued' = cr.fin
    /\ UNCHANGED <<env, pc, locals, faults>>

User ==
    \/ CreateCR
    \/ \E f \in Fields : \E v \in PatchVals[f] : PatchSpec(f, v)
    \/ \E k \in TagKeys \ AwsKeys : \E v \in TagVals \cup {NoTag} : PatchTag(k, v)
    \/ DeleteCR

------------------------------------------------------------------------------
\* The MWAA service, when nobody calls it.

FinishCreate ==
    /\ env.status = "CREATING"
    /\ \/ /\ env' = [env EXCEPT !.status = "AVAILABLE",
                                !.cfg = WithDefaults(@, DefaultVal)]
          /\ UNCHANGED faults
       \/ /\ Fault("createFails")
          /\ env' = [env EXCEPT !.status = "CREATE_FAILED"]

\* A failed update is rolled back and the environment is AVAILABLE again.
FinishUpdate ==
    /\ env.status = "UPDATING"
    /\ \/ /\ env' = [env EXCEPT !.status = "AVAILABLE", !.last = "SUCCESS",
                                !.cfg = Applied(@, env.tried)]
          /\ UNCHANGED faults
       \/ /\ Fault("updateFails")
          /\ env' = [env EXCEPT !.status = "AVAILABLE", !.last = "FAILED"]

FinishDelete ==
    /\ env.status = "DELETING"
    /\ env' = NoEnvironment
    /\ UNCHANGED faults

EndMaintenance ==
    /\ env.status = "MAINTENANCE"
    /\ env' = [env EXCEPT !.status = "AVAILABLE"]
    /\ UNCHANGED faults

Complete == FinishCreate \/ FinishUpdate \/ FinishDelete \/ EndMaintenance

BecomeUnavailable ==
    /\ env.status \in {"AVAILABLE", "UPDATING"}
    /\ Fault("unavailable")
    /\ env' = [env EXCEPT !.status = "UNAVAILABLE"]

StartMaintenance ==
    /\ env.status = "AVAILABLE"
    /\ Fault("maintenance")
    /\ env' = [env EXCEPT !.status = "MAINTENANCE"]

\* Somebody changes a setting in the console.
Drift ==
    /\ env.status = "AVAILABLE"
    /\ Fault("drift")
    /\ \E f \in Fields \ CreateOnlyFields : \E v \in PatchVals[f] \ {Nil} :
           /\ f \in Int32Fields => v \in MinInt32 .. MaxInt32
           /\ v # env.cfg[f]
           /\ env' = [env EXCEPT !.cfg = [@ EXCEPT ![f] = v]]

\* AWS puts a tag of its own on the environment.
AddAwsTag ==
    /\ env.status # "ABSENT"
    /\ Fault("awsTag")
    /\ \E k \in AwsKeys, v \in TagVals :
           env' = [env EXCEPT !.tags = [@ EXCEPT ![k] = v]]

Service ==
    /\ Complete \/ BecomeUnavailable \/ StartMaintenance \/ Drift \/ AddAwsTag
    /\ UNCHANGED <<crVars, pc, locals, queued, edits>>

------------------------------------------------------------------------------
\* The resource manager's methods.

WithConds(r, conds) == [r EXCEPT !.stat = [@ EXCEPT !.conds = conds]]

OnSuccess(r) == WithConds(r, UpdateConditions(r.stat.conds, "none"))

OnError(r, e) == [res |-> WithConds(r, UpdateConditions(r.stat.conds, e)),
                  err |-> ErrorOf(r.stat.conds, e)]

\* sdkFind: the answer of GetEnvironment laid over a copy of r.
Observed(r) ==
    [spec |-> FindSpec(r.spec, env.cfg),
     tags |-> env.tags,
     fin  |-> r.fin,
     stat |-> [st |-> env.status, last |-> env.last, conds |-> r.stat.conds]]

\* A faulty variant: an environment that is going away counts as failed.
DeletingIsFailure(r) ==
    IF r.stat.st \in {"CREATE_FAILED", "UNAVAILABLE", "DELETING"} THEN "TermState"
    ELSE IF r.stat.last = "FAILED" THEN "UpdateFailed"
    ELSE "none"

\* The errors sdkFind returns beside the resource it found.
FindError(r) ==
    IF r.stat.st \in {"CREATE_FAILED", "UNAVAILABLE"} THEN "TermState"
    ELSE IF r.stat.last = "FAILED" THEN "UpdateFailed"
    ELSE "none"

NameMissing(r) == "Name" \in Fields /\ r.spec["Name"] = Nil

\* ReadOne when the call is answered: the resource, the error, and whether
\* the environment was found.
ReadOne(r) ==
    LET o == Observed(r)
        e == FindError(o)
        shown == IF e = "UpdateFailed" THEN ShowUpdateFailed(o.stat.conds)
                 ELSE o.stat.conds
    IN  IF NameMissing(r) \/ env.status = "ABSENT"
        THEN [out |-> OnError(r, "NotFound"), found |-> FALSE]
        ELSE IF e # "none"
        THEN [out |-> OnError(WithConds(o, shown), e), found |-> TRUE]
        ELSE [out |-> [res |-> OnSuccess(o), err |-> "none"], found |-> TRUE]

\* A faulty variant: any error of GetEnvironment means there is none.
FailedReadIsNotFound(r) == [out |-> OnError(r, "NotFound"), found |-> FALSE]

\* ReadOne when the call fails.
ReadFailed(r) == [out |-> OnError(r, "Api"), found |-> FALSE]

ReadBy(r, a) ==
    \/ a = ReadOne(r) /\ UNCHANGED faults
    \/ a = ReadFailed(r) /\ Fault("api")

Answers(r) == {ReadOne(r), ReadFailed(r)}

\* mirrorAWSTags changes the tags of the very resource ReadOne was given.
Mirrored(r, a) ==
    IF a.found THEN [r EXCEPT !.tags = MirrorAWSTags(@, env.tags)] ELSE r

\* The reconciliation ends with resource r and error e: what is left is to
\* write the status.
Return(r, e) == latest' = r /\ err' = e /\ pc' = "finish"

Fail(r, e) == Return(OnError(r, e).res, OnError(r, e).err)

Forget == desired' = Blank /\ latest' = Blank /\ err' = "none" /\ patch' = NoPatch

\* The runtime tries again after every outcome but ackerr.Terminal; after a
\* success when the resync period is over.
Retry(e) == queued' = (crPhase # "absent" /\ (queued \/ e # "Terminal"))

------------------------------------------------------------------------------
\* The controller: a sync.

\* Reconcile gets the CR.  A sync starts with empty conditions and with the
\* controller's tags in the copy it works on.
Start ==
    /\ pc = "idle" /\ queued
    /\ queued' = FALSE
    /\ \/ /\ crPhase = "live"
          /\ desired' = [WithConds(cr, NoConds) EXCEPT !.tags = EnsureTags(@)]
          /\ pc' = "read"
       \/ /\ crPhase = "deleting"
          /\ desired' = cr
          /\ pc' = "delread"
    /\ UNCHANGED <<crVars, env, latest, err, patch, edits, faults>>

\* failOnResourceUnmanaged
NotManaged(r) == WithConds(r, [r.stat.conds EXCEPT !["Terminal"] = "True"])

\* A faulty variant: an environment that is there is taken over.
TakeOver(r) == TRUE

\* containsFinalizer
IsManaged(r) == r.fin

\* A faulty variant: the environment is created before the finalizer is set.
CreateUnmanaged(r) == "create"

\* createResource: the finalizer first.
AfterNotFound(r) == IF IsManaged(r) THEN "create" ELSE "manage"

\* Sync reads the environment.  It creates one only after NotFound, and never
\* touches one when the CR has no finalizer of ours.
Read ==
    /\ pc = "read"
    /\ \E a \in Answers(desired) :
           /\ ReadBy(desired, a)
           /\ desired' = Mirrored(desired, a)
           /\ \/ /\ a.out.err = "NotFound"
                 /\ pc' = AfterNotFound(desired)
                 /\ UNCHANGED <<latest, err>>
              \/ /\ a.out.err \in {"Terminal", "Requeue"}
                 /\ Return(a.out.res, a.out.err)
              \/ /\ a.out.err = "none" /\ ~IsManaged(desired)
                 /\ Return(NotManaged(a.out.res), "Terminal")
              \/ /\ a.out.err = "none" /\ IsManaged(desired)
                 /\ latest' = a.out.res
                 /\ pc' = "update"
                 /\ UNCHANGED err
    /\ UNCHANGED <<crVars, env, patch, queued, edits>>

\* The finalizer is patched onto the CR, by name.
Manage ==
    /\ pc = "manage"
    /\ \/ /\ crPhase # "absent"
          /\ cr' = [cr EXCEPT !.fin = TRUE]
          /\ desired' = [desired EXCEPT !.fin = TRUE]
          /\ pc' = "create"
          /\ UNCHANGED <<latest, err, faults>>
       \/ /\ \/ crPhase = "absent" /\ UNCHANGED faults
             \/ Fault("api")
          /\ Return(desired, "Requeue")
          /\ UNCHANGED <<cr, desired>>
    /\ UNCHANGED <<crPhase, env, patch, queued, edits>>

\* rm.Create.  The service refuses a name that an environment has: see
\* CreateOnlyWhenAbsent for one controller, and Rollout for two.
Create ==
    /\ pc = "create"
    /\ \/ /\ OutOfRange(desired.spec)
          /\ Fail(desired, "Range")
          /\ UNCHANGED <<env, faults>>
       \/ /\ ~OutOfRange(desired.spec)
          /\ env.status = "ABSENT"
          /\ \E cfg \in {CreatePayload(desired.spec),
                         WithDefaults(CreatePayload(desired.spec), DefaultVal)} :
                 env' = [status |-> "CREATING", cfg |-> cfg, tried |-> cfg,
                         last |-> "unset", tags |-> desired.tags]
          /\ \/ /\ latest' = OnSuccess(desired)
                /\ pc' = "readback"
                /\ UNCHANGED <<err, faults>>
             \/ Fault("lostReply") /\ Fail(desired, "Api")
       \/ /\ ~OutOfRange(desired.spec)
          /\ \/ env.status # "ABSENT" /\ Fail(desired, "Validation") /\ UNCHANGED faults
             \/ Fault("api") /\ Fail(desired, "Api")
             \/ Fault("reject") /\ Fail(desired, "Validation")
          /\ UNCHANGED env
    /\ UNCHANGED <<crVars, desired, patch, queued, edits>>

\* The runtime reads what it created, for its status only.
ReadBack ==
    /\ pc = "readback"
    /\ \E a \in Answers(latest) :
           /\ ReadBy(latest, a)
           /\ \/ /\ a.out.err = "none"
                 /\ latest' = [Mirrored(latest, a) EXCEPT !.stat = a.out.res.stat]
                 /\ pc' = "late"
                 /\ UNCHANGED err
              \/ /\ a.out.err # "none"
                 /\ Return(Mirrored(latest, a),
                           IF a.out.err = "Terminal" THEN "Terminal" ELSE "Requeue")
    /\ UNCHANGED <<crVars, env, desired, patch, queued, edits>>

------------------------------------------------------------------------------
\* The controller: rm.Update.

SpecDelta == Delta(desired.spec, latest.spec)
AddKeys == ToAdd(desired.tags, latest.tags)
DeleteKeys == ToDelete(desired.tags, latest.tags)

\* What follows the calls for the tags: an Update, or desired is returned.
AfterTags ==
    IF SpecDelta # {} THEN pc' = "send" /\ UNCHANGED latest
    ELSE pc' = "late" /\ latest' = OnSuccess(desired)

\* updateResource: nothing differs, or the guard of sdkUpdate.
Decide ==
    /\ pc = "update"
    /\ LET inSync == SpecDelta = {} /\ AddKeys = {} /\ DeleteKeys = {}
       IN  \/ /\ inSync
              /\ pc' = "late"
              /\ UNCHANGED <<latest, err>>
           \/ /\ ~inSync /\ latest.stat.st # "AVAILABLE"
              /\ Fail(latest, "NotAvailable")
           \/ /\ ~inSync /\ latest.stat.st = "AVAILABLE"
              /\ pc' = IF AddKeys # {} THEN "tag"
                       ELSE IF DeleteKeys # {} THEN "untag" ELSE "send"
              /\ UNCHANGED <<latest, err>>
    /\ UNCHANGED <<crVars, env, desired, patch, queued, edits, faults>>

\* The service refuses keys that begin with aws:, and does not know the
\* environment when it is gone.
TagCallOK(keys) == keys \cap AwsKeys = {} /\ env.status # "ABSENT"

TagCallFails(keys) ==
    \/ Fault("api") /\ Fail(latest, "Api")
    \/ env.status = "ABSENT" /\ Fail(latest, "Api") /\ UNCHANGED faults
    \/ keys \cap AwsKeys # {} /\ Fail(latest, "Validation") /\ UNCHANGED faults

TagResource ==
    /\ pc = "tag"
    /\ \/ /\ TagCallOK(AddKeys)
          /\ env' = [env EXCEPT !.tags = Tagged(@, desired.tags, AddKeys)]
          /\ \/ /\ DeleteKeys # {}
                /\ pc' = "untag"
                /\ UNCHANGED <<latest, err, faults>>
             \/ /\ DeleteKeys = {}
                /\ AfterTags
                /\ UNCHANGED <<err, faults>>
             \/ Fault("lostReply") /\ Fail(latest, "Api")
       \/ TagCallFails(AddKeys) /\ UNCHANGED env
    /\ UNCHANGED <<crVars, desired, patch, queued, edits>>

UntagResource ==
    /\ pc = "untag"
    /\ \/ /\ TagCallOK(DeleteKeys)
          /\ env' = [env EXCEPT !.tags = Untagged(@, DeleteKeys)]
          /\ \/ AfterTags /\ UNCHANGED <<err, faults>>
             \/ Fault("lostReply") /\ Fail(latest, "Api")
       \/ TagCallFails(DeleteKeys) /\ UNCHANGED env
    /\ UNCHANGED <<crVars, desired, patch, queued, edits>>

\* newUpdateRequestPayload and UpdateEnvironment.  The service takes an update
\* only when it is AVAILABLE; the method returns a copy of desired.
SendUpdate ==
    /\ pc = "send"
    /\ \/ /\ OutOfRange(desired.spec)
          /\ Fail(latest, "Range")
          /\ UNCHANGED <<env, faults>>
       \/ /\ ~OutOfRange(desired.spec)
          /\ env.status = "AVAILABLE"
          /\ env' = [env EXCEPT !.status = "UPDATING", !.last = "PENDING",
                                !.tried = UpdatePayload(desired.spec)]
          /\ \/ /\ latest' = OnSuccess(desired)
                /\ pc' = "late"
                /\ UNCHANGED <<err, faults>>
             \/ Fault("lostReply") /\ Fail(latest, "Api")
       \/ /\ ~OutOfRange(desired.spec)
          /\ \/ env.status \notin {"AVAILABLE", "ABSENT"} /\ Fail(latest, "Validation") /\ UNCHANGED faults
             \/ env.status = "ABSENT" /\ Fail(latest, "Api") /\ UNCHANGED faults
             \/ Fault("api") /\ Fail(latest, "Api")
             \/ Fault("reject") /\ Fail(latest, "Validation")
          /\ UNCHANGED env
    /\ UNCHANGED <<crVars, desired, patch, queued, edits>>

------------------------------------------------------------------------------
\* The controller: late initialization and the end of a sync.

\* lateInitializeFromReadOneOutput on a copy of r, and the conditions that
\* LateInitialize gives it.
LateInitialized(r, a) ==
    LET filled == FillFromObserved(a.out.res.spec, r.spec)
        conds == IF IncompleteLateInit(filled) THEN LateInitFailed(r.stat.conds)
                 ELSE LateInitDone(r.stat.conds)
    IN  [WithConds(Mirrored(r, a), conds) EXCEPT !.spec = filled]

\* What the runtime's merge patch from old to new writes.
PatchedFields(old, new) == {f \in Fields : new.spec[f] # old.spec[f]}

PatchedTags(old, new) ==
    {k \in TagKeys : IgnoreSystemTags(new.tags)[k] # IgnoreSystemTags(old.tags)[k]}

\* LateInitialize reads once more and fills the fields that are still nil.
Late ==
    /\ pc = "late"
    /\ \E a \in Answers(latest) :
           /\ ReadBy(latest, a)
           /\ \/ /\ a.out.err # "none"
                 /\ Return(WithConds(latest, LateInitFailed(latest.stat.conds)),
                           IF a.out.err = "Terminal" THEN "Terminal" ELSE "Requeue")
                 /\ UNCHANGED patch
              \/ /\ a.out.err = "none"
                 /\ LET new == LateInitialized(latest, a)
                        missing == IncompleteLateInit(new.spec)
                    IN  /\ latest' = new
                        /\ patch' = [fields |-> PatchedFields(latest, new),
                                     tags |-> PatchedTags(latest, new)]
                        /\ err' = IF missing THEN "Requeue" ELSE "none"
                        /\ pc' = IF patch' = NoPatch THEN "finish" ELSE "latepatch"
    /\ UNCHANGED <<crVars, env, desired, queued, edits>>

\* The runtime writes the difference as a merge patch, without a
\* resourceVersion: it lands on whatever the CR has become.
LatePatch ==
    /\ pc = "latepatch"
    /\ \/ /\ crPhase # "absent"
          /\ cr' = [cr EXCEPT
                !.spec = [f \in Fields |-> IF f \in patch.fields THEN latest.spec[f] ELSE cr.spec[f]],
                !.tags = [k \in TagKeys |-> IF k \in patch.tags THEN latest.tags[k] ELSE cr.tags[k]]]
          /\ queued' = TRUE
          /\ UNCHANGED <<err, faults>>
       \/ /\ \/ crPhase = "absent" /\ UNCHANGED faults
             \/ Fault("api")
          /\ err' = "Requeue"
          /\ UNCHANGED <<cr, queued>>
    /\ pc' = "finish"
    /\ UNCHANGED <<crPhase, env, desired, latest, patch, edits>>

IsSynced(r) == r.stat.st = "AVAILABLE"

\* The status is written, and the key is put back on the queue.
Finish ==
    /\ pc = "finish"
    /\ \E onTerminal \in {"True", "False"} :
           cr' = IF crPhase = "absent" THEN cr
                 ELSE [cr EXCEPT !.stat = WithConds(latest,
                         EnsureConditions(latest.stat.conds, err,
                             IsSynced(latest), onTerminal)).stat]
    /\ Retry(err)
    /\ pc' = "idle"
    /\ Forget
    /\ UNCHANGED <<crPhase, env, edits, faults>>

------------------------------------------------------------------------------
\* The controller: a deletion.

DeleteRead ==
    /\ pc = "delread"
    /\ \E a \in Answers(desired) :
           /\ ReadBy(desired, a)
           /\ \/ /\ a.out.err = "none"
                 /\ pc' = "delcall"
                 /\ latest' = a.out.res
                 /\ UNCHANGED <<desired, err, patch, queued>>
              \/ /\ a.out.err = "NotFound"
                 /\ pc' = "unmanage"
                 /\ UNCHANGED <<locals, queued>>
              \/ /\ a.out.err \in {"Terminal", "Requeue"}
                 /\ pc' = "idle"
                 /\ Retry(a.out.err)
                 /\ Forget
    /\ UNCHANGED <<crVars, env, edits>>

\* sdkDelete gives no resource back, so the runtime takes the deletion to be
\* over once the service has taken the call.  A deletion is refused while the
\* service is busy, or taken: its documentation leaves that open.
Busy == env.status \in {"CREATING", "UPDATING", "MAINTENANCE", "DELETING"}

DeleteFails(e) ==
    latest' = OnError(latest, e).res /\ err' = OnError(latest, e).err /\ pc' = "delfinish"

DeleteCall ==
    /\ pc = "delcall"
    /\ \/ /\ env.status # "ABSENT"
          /\ env' = [env EXCEPT !.status = "DELETING"]
          /\ \/ /\ pc' = "unmanage"
                /\ UNCHANGED <<latest, err, faults>>
             \/ /\ Fault("lostReply")
                /\ DeleteFails("Api")
       \/ /\ \/ Busy /\ DeleteFails("Validation") /\ UNCHANGED faults
             \/ env.status = "ABSENT" /\ DeleteFails("Api") /\ UNCHANGED faults
             \/ Fault("api") /\ DeleteFails("Api")
          /\ UNCHANGED env
    /\ UNCHANGED <<crVars, desired, patch, queued, edits>>

\* The conditions of a failed deletion are written as they are.
DeleteFinish ==
    /\ pc = "delfinish"
    /\ cr' = IF crPhase = "absent" THEN cr ELSE [cr EXCEPT !.stat = latest.stat]
    /\ Retry(err)
    /\ pc' = "idle"
    /\ Forget
    /\ UNCHANGED <<crPhase, env, edits, faults>>

\* The finalizer is removed, by name, and Kubernetes removes the CR: unless
\* another controller has done so, and the user has made the CR again.
Unmanage ==
    /\ pc = "unmanage"
    /\ \/ /\ crPhase = "deleting"
          /\ crPhase' = "absent" /\ cr' = Blank /\ queued' = FALSE
          /\ UNCHANGED faults
       \/ /\ crPhase # "deleting"
          /\ cr' = [cr EXCEPT !.fin = FALSE]
          /\ UNCHANGED <<crPhase, queued, faults>>
       \/ Fault("api") /\ queued' = (crPhase # "absent") /\ UNCHANGED crVars
    /\ pc' = "idle"
    /\ Forget
    /\ UNCHANGED <<env, edits>>

------------------------------------------------------------------------------
\* A crash loses the running reconciliation; the new process lists every CR.
Crash ==
    /\ Fault("crash")
    /\ pc' = "idle"
    /\ Forget
    /\ queued' = (crPhase # "absent")
    /\ UNCHANGED <<crVars, env, edits>>

Controller ==
    \/ Start \/ Read \/ Manage \/ Create \/ ReadBack
    \/ Decide \/ TagResource \/ UntagResource \/ SendUpdate
    \/ Late \/ LatePatch \/ Finish
    \/ DeleteRead \/ DeleteCall \/ DeleteFinish \/ Unmanage

Next == User \/ Service \/ Controller \/ Crash

Spec == Init /\ [][Next]_vars

\* The work queue hands out its key and a call returns; the service ends what
\* it has begun.  Nobody owes a user's action or a fault.
Fairness ==
    /\ WF_vars(Controller)
    /\ WF_vars(Complete /\ UNCHANGED <<crVars, pc, locals, queued, edits>>)

FairSpec == Spec /\ Fairness
------------------------------------------------------------------------------
\* Safety.

\* Every environment that the service runs belongs to a CR our finalizer
\* holds: a crash, a lost reply or a deletion between two steps leaves no
\* environment behind that nobody will delete (MarkManaged before Create,
\* MarkUnmanaged after Delete).
NoOrphan ==
    env.status \notin {"ABSENT", "DELETING"} => crPhase # "absent" /\ cr.fin

\* CreateEnvironment is called only when no environment has the name: a read
\* that failed, or a reply that was lost, is not taken for "not found".
CreateOnlyWhenAbsent == pc = "create" => env.status = "ABSENT"

\* The "***" that GetEnvironment shows for sensitive options is written
\* neither to the CR nor to the service, by no path of an update or of late
\* initialization.
SecretsStayPut ==
    \A f \in Fields : Redacted \notin {cr.spec[f], env.cfg[f], env.tried[f]}

\* What a field may be, by the wish of the user or of the service.
Requested(f) == {Nil, DefaultVal} \cup PatchVals[f] \cup {s[f] : s \in InitSpecs}

\* Every setting the service has or tries is one that the user chose or the
\* service's default: no number is truncated to another on its way.
OnlyRequestedValues ==
    \A f \in Fields : {env.cfg[f], env.tried[f]} \subseteq Requested(f)

\* Nothing but the user changes a field of the CR's spec outside the late
\* initialized ones.
OnlyLateInitPatched ==
    [][edits' = edits /\ crPhase' # "absent" =>
          \A f \in Fields \ LateInitFields : cr'.spec[f] = cr.spec[f]]_vars

\* No call for tags names a key that AWS owns, whenever AWS adds it: the
\* service would refuse the whole call.
NoAwsTagCalls == pc \in {"tag", "untag"} => (AddKeys \cup DeleteKeys) \cap AwsKeys = {}

\* The tags of the CR are those of its user: tags of AWS that appear between
\* two reads are not written to the cluster.
ClusterTagsAreTheUsers == \A k \in AwsKeys : cr.tags[k] = NoTag

\* The verdict on a CR is one: an error that is Terminal is not left standing
\* beside a Recoverable one of an earlier call, although updateConditions does
\* not touch Recoverable when it sets Terminal.
OneVerdict ==
    cr.stat.conds["Terminal"] = "True" => cr.stat.conds["Recoverable"] # "True"

\* A sync that ends without an error and says ResourceSynced=True has brought
\* everything the CR asked for to the service: the settings are applied or the
\* update that carries them was accepted, and the tags are set.  The status that
\* IsSynced looks at is one read older than the calls.  Without drift.
SyncedMeansTaken ==
    [][Finish /\ err = "none" /\ cr'.stat.conds["Synced"] = "True" =>
          /\ \A f \in Fields \ (CreateOnlyFields \cup {Opts}) :
                 desired.spec[f] \in {Nil, env.cfg[f], env.tried[f]}
          /\ \A k \in TagKeys \ AwsKeys : env.tags[k] = desired.tags[k]]_vars

\* The states of Lifecycle that the CR and the environment are in.
CrState ==
    IF crPhase = "absent" THEN "absent"
    ELSE IF crPhase = "deleting" THEN "leaving"
    ELSE IF cr.fin THEN "held"
    ELSE "unheld"

EnvState ==
    IF env.status = "ABSENT" THEN "none"
    ELSE IF env.status = "DELETING" THEN "going"
    ELSE "there"

Life == INSTANCE Lifecycle WITH crState <- CrState, envState <- EnvState

\* Whatever fails, crashes or is overtaken, the CR and the environment go
\* through the abstract lifecycle: no step takes over an environment that the
\* CR did not make, takes one away from under a CR, or lets a CR go before it.
ImplementsLifecycle == Life!Spec

------------------------------------------------------------------------------
\* Liveness.

\* States in which the code leaves the environment as it is until somebody
\* changes something: a failure state, a failed update, a terminal error after
\* which the controller has stopped.
Failed == env.status \in {"CREATE_FAILED", "UNAVAILABLE"} \/ env.last = "FAILED"

Blocked ==
    \/ Failed
    \/ pc = "idle" /\ ~queued /\ cr.stat.conds["Terminal"] = "True"

\* The environment has the user's tags and the controller's.
TagsInPlace == \A k \in TagKeys \ AwsKeys : env.tags[k] = EnsureTags(cr.tags)[k]

\* A value the user sets for a field that can be updated reaches the service,
\* whatever the service was busy with, and after drift.
SettingsApplied ==
    \A f \in Fields \ (CreateOnlyFields \cup {Opts}) :
        \A v \in PatchVals[f] \ {Nil} :
            (crPhase = "live" /\ cr.spec[f] = v)
                ~> (\/ env.cfg[f] = v
                    \/ crPhase # "live" \/ cr.spec[f] # v
                    \/ Blocked \/ OutOfRange(cr.spec))

\* What no update can bring about: UpdateEnvironment cannot unset a setting
\* (a nil member is left out of its payload) and does not know the fields that
\* only CreateEnvironment accepts.
Unreconcilable ==
    \E f \in Fields :
        LET filled == f \in LateInitFields /\ Unset(cr.spec, f)
        IN  \/ cr.spec[f] = Nil /\ env.cfg[f] \notin {Nil, EmptyMap} /\ ~filled
            \/ f \in CreateOnlyFields /\ cr.spec[f] # env.cfg[f] /\ ~filled

\* Updates come to an end, unless the CR asks for what no update can bring
\* about: nothing else the service reports is taken for a difference again
\* and again.
UpdatesCease == <>[](env.status # "UPDATING") \/ []<>Unreconcilable

\* A failed update is shown to the user as ResourceSynced=False.
FailureSurfaced ==
    (crPhase = "live" /\ env.status = "AVAILABLE" /\ env.last = "FAILED")
        ~> (\/ cr.stat.conds["Synced"] = "False"
            \/ crPhase # "live" \/ env.status # "AVAILABLE" \/ env.last # "FAILED")

\* The conversion int32(v) would change a number of the spec.
TooWide(s) == \E f \in Int32Fields : Narrow(s, f) # s[f]

\* A number that no int32 holds stays on the CR until somebody takes it away: from
\* some moment on the user sees Recoverable=True beside it, and the tags that came
\* with it, which are applied before the payload is built, are on the environment;
\* or there is none, its creation being refused.  It must hold from then on: the
\* Recoverable of another error, such as that of a busy environment, passes.
RangeErrorShown ==
    <>[](crPhase = "live" /\ TooWide(cr.spec) /\ ~Blocked)
        => <>[](/\ cr.stat.conds["Recoverable"] = "True"
                /\ \/ env.status = "ABSENT"
                   \/ env.status = "AVAILABLE" /\ TagsInPlace)

\* A deleted CR goes away, with the environment deleted or on its way.
DeletionCompletes ==
    (crPhase = "deleting")
        ~> (\/ crPhase # "deleting" /\ env.status \in {"ABSENT", "DELETING"}
            \/ Blocked)

\* The tags the user sets, and the controller's, reach the environment, also when
\* another part of the patch is refused for a number out of range; but for an
\* environment whose creation is.
TagsApplied ==
    \A k \in TagKeys \ AwsKeys : \A v \in TagVals \cup {NoTag} :
        (crPhase = "live" /\ cr.tags[k] = v)
            ~> (\/ env.tags[k] = EnsureTags(cr.tags)[k]
                \/ crPhase # "live" \/ cr.tags[k] # v
                \/ Blocked \/ (OutOfRange(cr.spec) /\ env.status = "ABSENT"))
==============================================================================
