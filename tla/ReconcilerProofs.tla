--------------------------- MODULE ReconcilerProofs ---------------------------
(***************************************************************************)
(* The safety of Reconciler for every set of fields, values, tags and      *)
(* faults: no environment is orphaned, none is created while one has the   *)
(* name, and nobody but the user changes a field that is not late          *)
(* initialized.                                                            *)
(***************************************************************************)
EXTENDS ReconcilerTypes

\* The steps that touch the environment of a live CR, and those of a deletion.
Touching == {"create", "readback", "update", "tag", "untag", "send", "late", "latepatch"}
Removing == {"delread", "delcall", "delfinish", "unmanage"}

\* The finalizer that a reconciliation relies on is on the stored CR: only its
\* own last step takes it off.
Held ==
    /\ crPhase = "absent" => ~cr.fin
    /\ crPhase = "deleting" => cr.fin
    /\ desired.fin => cr.fin
    /\ pc \in Touching => desired.fin
    /\ pc \in Removing => desired.fin /\ crPhase = "deleting"

\* The CR and the copy have a name: late initialization does not write it.
Named ==
    /\ "Name" \in Fields => /\ crPhase # "absent" => cr.spec["Name"] # Nil
                            /\ pc # "idle" => desired.spec["Name"] # Nil
    /\ patch.fields \subseteq LateInitFields

\* What a reconciliation has found out about the environment stays true: it takes the
\* finalizer where there is none, and gives it up when there is none any more.
Known ==
    /\ pc = "manage" => env.status = "ABSENT" \/ cr.fin
    /\ pc = "unmanage" => env.status \in {"ABSENT", "DELETING"}

\* The only process that there is finds nothing in the place of what it creates.
Vacant == pc \in {"manage", "create"} => env.status = "ABSENT"

CInv == TypeOK /\ Held /\ Named /\ Known
HInv == CInv /\ NoOrphan

\* What no step does to the finalizer and the environment: it makes an environment
\* for no CR that the finalizer does not hold, lets go of none while there is one,
\* and takes the finalizer only where there is none.
There == env.status \notin {"ABSENT", "DELETING"}
Holds == crPhase # "absent" /\ cr.fin

Lawful ==
    /\ There' => There \/ Holds'
    /\ Holds /\ There' => Holds'
    /\ cr'.fin /\ ~cr.fin => env.status = "ABSENT"
    /\ env' # env => cr' = cr

------------------------------------------------------------------------------
\* What an answer of ReadOne says: NotFound is returned for a named resource only
\* when the service has no environment, and never when the call has failed.
LEMMA NotFoundMeansAbsent ==
    ASSUME NEW r \in Resource, "Name" \in Fields => r.spec["Name"] # Nil,
           NEW a \in Answers(r), a.out.err = "NotFound"
    PROVE  env.status = "ABSENT"
<1>1. \A q, e : OnError(q, e).err = "NotFound" => e = "NotFound"
  BY DEF OnError, ErrorOf
<1>2. FindError(Observed(r)) # "NotFound"
  BY DEF FindError
<1>3. a = ReadOne(r)
  BY <1>1 DEF Answers, ReadFailed
<1>4. ~NameMissing(r)
  BY DEF NameMissing
<1>5. QED
  BY <1>1, <1>2, <1>3, <1>4 DEF ReadOne

\* Late initialization changes nothing but the fields that have it.
LEMMA FillsLateFields ==
    ASSUME NEW r \in Resource, env \in Environment, NEW a \in Answers(r)
    PROVE  PatchedFields(r, LateInitialized(r, a)) \subseteq LateInitFields
<1>1. LateInitialized(r, a).spec = FillFromObserved(a.out.res.spec, r.spec)
  BY LateInitializedType
<1>2. \A f \in Fields \ LateInitFields :
          FillFromObserved(a.out.res.spec, r.spec)[f] = r.spec[f]
  BY DEF FillFromObserved
<1>3. QED
  BY <1>1, <1>2 DEF PatchedFields

\* The name is not late initialized.
LEMMA NameNotLate == "Name" \notin LateInitFields
BY DEF LateInitFields, LoggingModules

\* A CR that does not exist holds nothing.
LEMMA BlankFacts == Blank.fin = FALSE /\ (\A s, t : [Blank EXCEPT !.spec = s, !.tags = t].spec = s
                        /\ [Blank EXCEPT !.spec = s, !.tags = t].fin = FALSE)
BY DEF Blank

\* Conditions, tags and status of a resource have no part in the invariant.
LEMMA KeepsHold ==
    ASSUME NEW r \in Resource
    PROVE  /\ \A c : WithConds(r, c).spec = r.spec /\ WithConds(r, c).fin = r.fin
           /\ \A c : \A t :
                  /\ [WithConds(r, c) EXCEPT !.tags = t].spec = r.spec
                  /\ [WithConds(r, c) EXCEPT !.tags = t].fin = r.fin
           /\ \A s : [r EXCEPT !.stat = s].spec = r.spec /\ [r EXCEPT !.stat = s].fin = r.fin
           /\ [r EXCEPT !.fin = TRUE].spec = r.spec /\ [r EXCEPT !.fin = TRUE].fin = TRUE
BY DEF WithConds, Resource

------------------------------------------------------------------------------
LEMMA InitHold == Init => HInv
<1> SUFFICES ASSUME Init
             PROVE  HInv
  OBVIOUS
<1>1. TypeOK
  BY InitType
<1>2. Held /\ Named /\ Known
  BY BlankFacts DEF Init, Held, Named, Known, Touching, Removing, NoPatch
<1>3. NoOrphan
  BY DEF Init, NoEnvironment, NoOrphan
<1>4. QED
  BY <1>1, <1>2, <1>3 DEF HInv, CInv

\* The user cannot take a CR away that holds an environment.
LEMMA UserHold == ASSUME CInv, User PROVE Held' /\ Named' /\ Known' /\ Lawful
<1> USE DEF CInv
<1>1. CASE CreateCR
  <2>1. PICK s \in InitSpecs, t \in InitTags : cr' = [Blank EXCEPT !.spec = s, !.tags = t]
    BY <1>1 DEF CreateCR
  <2>2. cr'.spec = s /\ cr'.fin = FALSE
    BY <2>1, BlankFacts
  <2>3. "Name" \in Fields => s["Name"] # Nil
    BY ReconcilerConstants
  <2>4. QED
    BY <1>1, <2>2, <2>3
       DEF CreateCR, Held, Named, Known, Lawful, There, Holds, locals, Touching, Removing
<1>2. ASSUME NEW f \in Fields, NEW v \in PatchVals[f], PatchSpec(f, v)
      PROVE  Held' /\ Named' /\ Known' /\ Lawful
  <2>1. cr'.fin = cr.fin /\ cr'.spec = [cr.spec EXCEPT ![f] = v]
    BY <1>2 DEF PatchSpec, TypeOK, Resource
  <2>2. f = "Name" => v # Nil
    BY ReconcilerConstants
  <2>3. cr.spec \in [Fields -> Value]
    BY DEF TypeOK, Resource, SpecType
  <2>4. "Name" \in Fields /\ cr.spec["Name"] # Nil => cr'.spec["Name"] # Nil
    BY <2>1, <2>2, <2>3
  <2>5. QED
    BY <1>2, <2>1, <2>4
       DEF PatchSpec, Held, Named, Known, Lawful, There, Holds, locals, Touching, Removing
<1>3. ASSUME NEW k, NEW v, PatchTag(k, v)
      PROVE  Held' /\ Named' /\ Known' /\ Lawful
  <2>1. cr'.fin = cr.fin /\ cr'.spec = cr.spec
    BY <1>3 DEF PatchTag, TypeOK, Resource
  <2>2. QED
    BY <1>3, <2>1 DEF PatchTag, Held, Named, Known, Lawful, There, Holds, locals, Touching, Removing
<1>4. CASE DeleteCR
  <2>1. CASE cr.fin
    BY <1>4, <2>1 DEF DeleteCR, Held, Named, Known, Lawful, There, Holds, locals, Touching, Removing
  <2>2. CASE ~cr.fin
    <3>1. crPhase' = "absent" /\ ~cr'.fin /\ UNCHANGED <<env, pc, desired, patch>>
      BY <1>4, <2>2, BlankFacts DEF DeleteCR, locals
    <3>2. QED
      BY <1>4, <2>2, <3>1 DEF DeleteCR, Held, Named, Known, Lawful, There, Holds, Touching, Removing
  <2>3. QED
    BY <2>1, <2>2
<1>5. QED
  BY <1>1, <1>2, <1>3, <1>4 DEF User

\* By itself the service makes no environment and brings none back.
Fades ==
    /\ env.status = "ABSENT" => env'.status = "ABSENT"
    /\ env.status = "DELETING" => env'.status \in {"ABSENT", "DELETING"}

LEMMA ServiceFades == ASSUME TypeOK, Service PROVE Fades
BY DEF TypeOK, Service, Complete, FinishCreate, FinishUpdate, FinishDelete, EndMaintenance,
       BecomeUnavailable, StartMaintenance, Drift, AddAwsTag, Environment, NoEnvironment, Fades

\* So the service's steps are lawful.
LEMMA ServiceHold == ASSUME CInv, Service PROVE Held' /\ Named' /\ Known' /\ Lawful
<1> USE DEF CInv
<1>1. Fades
  BY ServiceFades
<1>2. UNCHANGED <<crPhase, cr, pc, desired, patch>>
  BY DEF Service, crVars, locals
<1>3. QED
  BY <1>1, <1>2 DEF Fades, Held, Named, Known, Lawful, There, Holds

\* A sync begins with a copy of the CR, or a deletion does.
LEMMA StartHold == ASSUME CInv, Start PROVE Held' /\ Named' /\ Known' /\ Lawful
<1> USE DEF CInv
<1>1. cr \in Resource
  BY DEF TypeOK
<1>2. desired'.fin = cr.fin /\ desired'.spec = cr.spec
  <2>1. \/ desired' = cr
        \/ \E t : desired' = [WithConds(cr, NoConds) EXCEPT !.tags = t]
    BY DEF Start
  <2>2. QED
    BY <1>1, <2>1 DEF WithConds, Resource
<1>3. QED
  BY <1>2 DEF Start, Held, Named, Known, Lawful, There, Holds, crVars, Touching, Removing

\* A read leads to a creation only when there is nothing to read, and to an
\* update only when the finalizer is set.
LEMMA ReadHold == ASSUME CInv, Read PROVE Held' /\ Named' /\ Known' /\ Lawful
<1> USE DEF CInv
<1>1. desired \in Resource /\ env \in Environment
  BY DEF TypeOK
<1>2. PICK a \in Answers(desired) :
          /\ desired' = Mirrored(desired, a)
          /\ \/ a.out.err = "NotFound" /\ pc' = AfterNotFound(desired)
             \/ pc' = "finish"
             \/ desired.fin /\ pc' = "update"
  BY DEF Read, Return, IsManaged
<1>3. desired'.fin = desired.fin /\ desired'.spec = desired.spec
  BY <1>1, <1>2, AnswerType
<1>4. a.out.err = "NotFound" => env.status = "ABSENT"
  BY <1>1, NotFoundMeansAbsent DEF Named, Read
<1>5. pc = "read" /\ UNCHANGED <<crPhase, cr, env, patch>>
  BY DEF Read, crVars
<1>6. CASE a.out.err = "NotFound" /\ pc' = AfterNotFound(desired)
  BY <1>3, <1>4, <1>5, <1>6
     DEF AfterNotFound, IsManaged, Held, Named, Known, Lawful, There, Holds, Touching, Removing
<1>7. CASE pc' = "finish"
  BY <1>3, <1>5, <1>7 DEF Held, Named, Known, Lawful, There, Holds, Touching, Removing
<1>8. CASE desired.fin /\ pc' = "update"
  BY <1>3, <1>5, <1>8 DEF Held, Named, Known, Lawful, There, Holds, Touching, Removing
<1>9. QED
  BY <1>2, <1>6, <1>7, <1>8

\* The finalizer is on the CR before the environment is created.
LEMMA ManageHold == ASSUME CInv, Manage PROVE Held' /\ Named' /\ Known' /\ Lawful
<1> USE DEF CInv
<1>1. cr \in Resource /\ desired \in Resource
  BY DEF TypeOK
<1>2. CASE pc' = "create"
  <2>1. /\ crPhase # "absent" /\ cr' = [cr EXCEPT !.fin = TRUE]
        /\ desired' = [desired EXCEPT !.fin = TRUE]
    BY <1>2 DEF Manage, Return
  <2>2. /\ cr'.spec = cr.spec /\ cr'.fin = TRUE
        /\ desired'.spec = desired.spec /\ desired'.fin = TRUE
    BY <1>1, <2>1, KeepsHold
  <2>3. QED
    BY <1>2, <2>1, <2>2 DEF Manage, Held, Named, Known, Lawful, There, Holds, Touching, Removing
<1>3. CASE pc' = "finish"
  BY <1>3 DEF Manage, Return, Held, Named, Known, Lawful, There, Holds, Touching, Removing
<1>4. QED
  BY <1>2, <1>3 DEF Manage, Return

\* The new environment belongs to a CR that the finalizer holds.
LEMMA CreateHold == ASSUME CInv, Create PROVE Held' /\ Named' /\ Known' /\ Lawful
<1> USE DEF CInv
<1>1. /\ pc = "create" /\ pc' \in {"readback", "finish"}
      /\ UNCHANGED <<crPhase, cr, desired, patch>>
  BY DEF Create, Fail, Return, crVars
<1>2. cr.fin /\ crPhase # "absent"
  BY <1>1 DEF Held, Touching
<1>3. QED
  BY <1>1, <1>2 DEF Held, Named, Known, Lawful, There, Holds, Touching, Removing

\* Calls for an environment that is there: none of them gives up the CR, and
\* those of late initialization patch late initialized fields.
LEMMA TouchHold ==
    ASSUME CInv, ReadBack \/ Decide \/ TagResource \/ UntagResource \/ SendUpdate \/ Late
    PROVE  Held' /\ Named' /\ Known' /\ Lawful
<1> USE DEF CInv
<1>1. /\ pc \in Touching
      /\ pc' \in (Touching \cup {"finish"}) \ {"create"}
      /\ UNCHANGED <<crPhase, cr, desired>>
  BY DEF ReadBack, Decide, TagResource, UntagResource, SendUpdate, Late, AfterTags,
         TagCallFails, Fail, Return, crVars, Touching
<1>2. desired.fin /\ cr.fin /\ crPhase # "absent"
  BY <1>1 DEF Held
<1>3. patch'.fields \subseteq LateInitFields
  <2>1. CASE ReadBack \/ Decide \/ TagResource \/ UntagResource \/ SendUpdate
    BY <2>1 DEF ReadBack, Decide, TagResource, UntagResource, SendUpdate, Named
  <2>2. CASE Late
    <3>1. latest \in Resource /\ env \in Environment
      BY DEF TypeOK
    <3>2. PICK a \in Answers(latest) :
              \/ UNCHANGED patch
              \/ patch' = [fields |-> PatchedFields(latest, LateInitialized(latest, a)),
                           tags |-> PatchedTags(latest, LateInitialized(latest, a))]
      BY <2>2 DEF Late
    <3>3. QED
      BY <3>1, <3>2, FillsLateFields DEF Named
  <2>3. QED
    BY <2>1, <2>2
<1>4. QED
  BY <1>1, <1>2, <1>3 DEF Held, Named, Known, Lawful, There, Holds, Touching, Removing

\* The late patch leaves the name and the finalizer as they are.
LEMMA LatePatchHold == ASSUME CInv, LatePatch PROVE Held' /\ Named' /\ Known' /\ Lawful
<1> USE DEF CInv
<1>1. cr \in Resource
  BY DEF TypeOK
<1>2. /\ cr'.fin = cr.fin
      /\ \A f \in Fields \ patch.fields : cr'.spec[f] = cr.spec[f]
  <2>1. CASE UNCHANGED cr
    BY <2>1
  <2>2. CASE cr' = [cr EXCEPT
                !.spec = [f \in Fields |-> IF f \in patch.fields THEN latest.spec[f]
                                           ELSE cr.spec[f]],
                !.tags = [k \in TagKeys |-> IF k \in patch.tags THEN latest.tags[k]
                                            ELSE cr.tags[k]]]
    BY <1>1, <2>2 DEF Resource
  <2>3. QED
    BY <2>1, <2>2 DEF LatePatch
<1>3. /\ pc = "latepatch" /\ pc' = "finish"
      /\ UNCHANGED <<crPhase, env, desired, patch>>
  BY DEF LatePatch
<1>4. cr.fin /\ crPhase # "absent"
  BY <1>3 DEF Held, Touching
<1>5. "Name" \in Fields => cr'.spec["Name"] # Nil
  BY <1>2, <1>4, NameNotLate DEF Named
<1>6. QED
  BY <1>2, <1>3, <1>4, <1>5 DEF Held, Named, Known, Lawful, There, Holds, Touching, Removing

\* The end of a sync writes a status and forgets the copy.
LEMMA FinishHold ==
    ASSUME CInv, Finish \/ DeleteFinish
    PROVE  Held' /\ Named' /\ Known' /\ Lawful
<1> USE DEF CInv
<1>1. cr \in Resource
  BY DEF TypeOK
<1>2. cr'.fin = cr.fin /\ cr'.spec = cr.spec
  <2>1. cr' = cr \/ \E s : cr' = [cr EXCEPT !.stat = s]
    BY DEF Finish, DeleteFinish
  <2>2. QED
    BY <1>1, <2>1 DEF WithConds, Resource
<1>3. pc' = "idle" /\ desired' = Blank /\ patch' = NoPatch /\ UNCHANGED <<crPhase, env>>
  BY DEF Finish, DeleteFinish, Forget
<1>4. QED
  BY <1>2, <1>3, BlankFacts DEF Held, Named, Known, Lawful, There, Holds, NoPatch, Touching, Removing

\* The finalizer goes only when the environment is gone or going.
LEMMA DeletionHold ==
    ASSUME CInv, DeleteRead \/ DeleteCall \/ Unmanage
    PROVE  Held' /\ Named' /\ Known' /\ Lawful
<1> USE DEF CInv
<1>1. CASE DeleteRead
  <2>1. desired \in Resource
    BY DEF TypeOK
  <2>2. /\ pc = "delread" /\ UNCHANGED <<crPhase, cr, env>>
        /\ \/ pc' = "delcall" /\ UNCHANGED <<desired, patch>>
           \/ /\ pc' = "unmanage" /\ UNCHANGED <<desired, patch>>
              /\ \E a \in Answers(desired) : a.out.err = "NotFound"
           \/ pc' = "idle" /\ desired' = Blank /\ patch' = NoPatch
    BY <1>1 DEF DeleteRead, crVars, locals, Forget
  <2>3. pc' = "unmanage" => env.status = "ABSENT"
    BY <2>1, <2>2, NotFoundMeansAbsent DEF Named
  <2>4. QED
    BY <2>2, <2>3, BlankFacts
       DEF Held, Named, Known, Lawful, There, Holds, NoPatch, Touching, Removing
<1>2. CASE DeleteCall
  <2>1. env \in Environment
    BY DEF TypeOK
  <2>2. /\ pc = "delcall" /\ UNCHANGED <<crPhase, cr, desired, patch>>
        /\ \/ pc' = "unmanage" /\ env'.status = "DELETING"
           \/ pc' = "delfinish" /\ env'.status \in {env.status, "DELETING"}
    BY <1>2, <2>1 DEF DeleteCall, DeleteFails, crVars, Environment
  <2>3. QED
    BY <2>2 DEF Held, Named, Known, Lawful, There, Holds, Touching, Removing
<1>3. CASE Unmanage
  <2>1. /\ pc = "unmanage" /\ pc' = "idle" /\ desired' = Blank /\ patch' = NoPatch
        /\ UNCHANGED env
        /\ \/ crPhase' = "absent" /\ cr' = Blank
           \/ UNCHANGED <<crPhase, cr>>
    BY <1>3 DEF Unmanage, Forget, crVars, Held, Removing
  <2>2. QED
    BY <2>1, BlankFacts DEF Held, Named, Known, Lawful, There, Holds, NoPatch, Touching, Removing
<1>4. QED
  BY <1>1, <1>2, <1>3

\* A crash forgets the reconciliation and nothing else.
LEMMA CrashHold == ASSUME CInv, Crash PROVE Held' /\ Named' /\ Known' /\ Lawful
BY BlankFacts DEF CInv, Crash, Forget, crVars, Held, Named, Known, Lawful, There, Holds, NoPatch,
                  Touching, Removing

\* The steps of the controller are lawful and keep the invariant of its CR, whoever
\* else has an environment of that name.
LEMMA ControllerHold == ASSUME CInv, Controller PROVE CInv' /\ Lawful
<1>1. TypeOK'
  BY NextType DEF CInv, Next
<1>2. Held' /\ Named' /\ Known' /\ Lawful
  BY StartHold, ReadHold, ManageHold, CreateHold, TouchHold, LatePatchHold,
     FinishHold, DeletionHold DEF Controller
<1>3. QED
  BY <1>1, <1>2 DEF CInv

\* Those of the user, the service and the process as well.
LEMMA WorldHold == ASSUME CInv, User \/ Service \/ Crash PROVE CInv' /\ Lawful
<1>1. TypeOK'
  BY NextType DEF CInv, Next
<1>2. Held' /\ Named' /\ Known' /\ Lawful
  BY UserHold, ServiceHold, CrashHold
<1>3. QED
  BY <1>1, <1>2 DEF CInv

\* Another CR's steps keep the invariant of this one, when it is not being reconciled
\* or when they are no more than the service may do.
LEMMA BesideHold ==
    ASSUME CInv, UNCHANGED <<crPhase, cr, pc, desired, latest, err, patch, queued>>,
           env' \in Environment, edits' \in Nat, faults' \in Nat,
           pc = "idle" \/ Fades
    PROVE  CInv'
BY DEF CInv, TypeOK, Held, Named, Known, Fades, Touching, Removing

\* The part of the invariant that is about the CR and its environment alone.
Shared ==
    /\ crPhase \in {"absent", "live", "deleting"} /\ cr \in Resource
    /\ env \in Environment /\ edits \in Nat /\ faults \in Nat
    /\ crPhase = "absent" => ~cr.fin
    /\ crPhase = "deleting" => cr.fin
    /\ "Name" \in Fields /\ crPhase # "absent" => cr.spec["Name"] # Nil

LEMMA SharedHolds == CInv => Shared
BY DEF CInv, TypeOK, Held, Named, Shared

\* A step on the same CR that is not its controller's own: what the controller has
\* found out stays true when it is at rest, or when the finalizer stays, an environment
\* is made for a CR that is held only, and a deletion that is over stays so.
Spares ==
    /\ cr.fin => cr'.fin
    /\ crPhase = "deleting" => crPhase' = "deleting"
    /\ env.status = "ABSENT" => env'.status = "ABSENT" \/ cr'.fin
    /\ crPhase = "deleting" => Fades

LEMMA ApartHold ==
    ASSUME CInv, Shared', UNCHANGED <<pc, desired, latest, err, patch>>, queued' \in BOOLEAN,
           (pc = "idle" /\ ~desired.fin) \/ Spares
    PROVE  CInv'
<1>1. TypeOK'
  BY DEF CInv, TypeOK, Shared
<1>2. CASE pc = "idle" /\ ~desired.fin
  BY <1>1, <1>2 DEF CInv, Shared, Held, Named, Known, Touching, Removing
<1>3. CASE Spares
  BY <1>1, <1>3 DEF CInv, Shared, Held, Named, Known, Fades, Spares, Touching, Removing
<1>4. QED
  BY <1>2, <1>3

\* A process that goes forgets what it was at.
LEMMA ForgetHold ==
    ASSUME CInv, UNCHANGED <<crPhase, cr, env, edits, faults>>, pc' = "idle", Forget,
           queued' \in BOOLEAN
    PROVE  CInv'
<1>1. Blank \in Resource /\ NoPatch \in Patch
  BY BlankType
<1>2. TypeOK'
  BY <1>1 DEF CInv, TypeOK, Forget, Steps, Errors
<1>3. QED
  BY <1>2, BlankFacts DEF CInv, Held, Named, Known, Forget, NoPatch, Touching, Removing

\* A controller changes the phase and gives up the finalizer when the CR is being
\* deleted, and makes an environment for a CR that is held.
LEMMA ControllerSpares == ASSUME CInv, Controller, crPhase # "deleting" PROVE Spares
<1> USE DEF CInv
<1>1. cr \in Resource /\ pc \notin Removing
  BY DEF TypeOK, Held
<1>2. CASE Manage
  BY <1>1, <1>2, KeepsHold DEF Manage, Spares
<1>3. CASE Create
  BY <1>3 DEF Create, crVars, Spares, Held, Touching
<1>4. CASE LatePatch
  BY <1>1, <1>4 DEF LatePatch, Resource, Spares
<1>5. CASE Finish
  BY <1>1, <1>5 DEF Finish, Resource, Spares
<1>6. CASE TagResource \/ UntagResource \/ SendUpdate
  <2>1. env \in Environment
    BY DEF TypeOK
  <2>2. UNCHANGED cr /\ (env.status = "ABSENT" => env'.status = "ABSENT")
    BY <1>6, <2>1 DEF TagResource, UntagResource, SendUpdate, TagCallOK, crVars, Environment
  <2>3. QED
    BY <2>2 DEF Spares
<1>7. CASE Start \/ Read \/ ReadBack \/ Decide \/ Late
  BY <1>7 DEF Start, Read, ReadBack, Decide, Late, crVars, Spares
<1>8. ~(DeleteRead \/ DeleteCall \/ DeleteFinish \/ Unmanage)
  BY <1>1 DEF DeleteRead, DeleteCall, DeleteFinish, Unmanage, Removing
<1>9. QED
  BY <1>2, <1>3, <1>4, <1>5, <1>6, <1>7, <1>8 DEF Controller

\* So do the service and, as long as the CR is there, its user.
LEMMA WorldSpares == ASSUME CInv, User \/ Service PROVE Spares
<1> USE DEF CInv
<1>1. cr \in Resource /\ crPhase \in {"absent", "live", "deleting"}
  BY DEF TypeOK
<1>2. CASE Service
  <2>1. Fades /\ UNCHANGED <<crPhase, cr>>
    BY <1>2, ServiceFades DEF Service, crVars
  <2>2. QED
    BY <2>1 DEF Fades, Spares
<1>3. CASE CreateCR
  BY <1>3 DEF CreateCR, Spares, Held
<1>4. CASE DeleteCR
  BY <1>4 DEF DeleteCR, Spares
<1>5. ASSUME NEW f, NEW v, PatchSpec(f, v) PROVE Spares
  BY <1>1, <1>5 DEF PatchSpec, Resource, Spares
<1>6. ASSUME NEW k, NEW v, PatchTag(k, v) PROVE Spares
  BY <1>1, <1>6 DEF PatchTag, Resource, Spares
<1>7. QED
  BY <1>2, <1>3, <1>4, <1>5, <1>6 DEF User

\* Every step preserves the invariant.
LEMMA NextHold == HInv /\ [Next]_vars => HInv'
<1> SUFFICES ASSUME HInv, [Next]_vars
             PROVE  HInv'
  OBVIOUS
<1>1. CASE Next
  <2>1. CInv' /\ Lawful
    BY <1>1, ControllerHold, WorldHold DEF HInv, Next
  <2>2. QED
    BY <2>1 DEF HInv, NoOrphan, Lawful, There, Holds
<1>2. CASE UNCHANGED vars
  BY <1>2, NextType DEF vars, HInv, CInv, Held, Named, Known, NoOrphan
<1>3. QED
  BY <1>1, <1>2

THEOREM HoldInv == Spec => []HInv
<1>1. QED
  BY InitHold, NextHold, PTL DEF Spec

\* Nobody but its one process makes an environment for the CR.
LEMMA NextVacant == CInv /\ Vacant /\ [Next]_vars => Vacant'
<1> SUFFICES ASSUME CInv, Vacant, [Next]_vars
             PROVE  Vacant'
  OBVIOUS
<1>1. CASE User \/ Crash
  BY <1>1 DEF User, CreateCR, PatchSpec, PatchTag, DeleteCR, Crash, Vacant
<1>2. CASE Service
  BY <1>2, ServiceFades DEF CInv, Service, Fades, Vacant
<1>3. CASE Read
  <2>1. desired \in Resource /\ pc = "read" /\ env' = env
    BY <1>3 DEF CInv, TypeOK, Read
  <2>2. PICK a \in Answers(desired) :
            a.out.err = "NotFound" \/ pc' \in {"finish", "update"}
    BY <1>3 DEF Read, Return
  <2>3. a.out.err = "NotFound" => env.status = "ABSENT"
    BY <2>1, <2>2, NotFoundMeansAbsent DEF CInv, Named
  <2>4. QED
    BY <2>1, <2>2, <2>3 DEF Vacant
<1>4. CASE Manage
  BY <1>4 DEF Manage, Vacant
<1>5. CASE \/ Start \/ Create \/ ReadBack \/ Decide \/ TagResource \/ UntagResource
           \/ SendUpdate \/ Late \/ LatePatch \/ Finish
           \/ DeleteRead \/ DeleteCall \/ DeleteFinish \/ Unmanage
  BY <1>5 DEF Start, Create, ReadBack, Decide, TagResource, UntagResource, SendUpdate, Late,
              LatePatch, Finish, DeleteRead, DeleteCall, DeleteFinish, Unmanage, AfterTags,
              TagCallFails, Fail, Return, DeleteFails, Vacant
<1>6. CASE UNCHANGED vars
  BY <1>6 DEF vars, Vacant
<1>7. QED
  BY <1>1, <1>2, <1>3, <1>4, <1>5, <1>6 DEF Next, Controller

\* No environment is left behind without a CR whose finalizer holds it, whatever
\* crashes, fails or is lost: MarkManaged precedes Create, and MarkUnmanaged
\* follows a deletion the service has accepted or a NotFound.
THEOREM NoOrphanTheorem == Spec => []NoOrphan
<1>1. HInv => NoOrphan
  BY DEF HInv
<1>2. QED
  BY <1>1, HoldInv, PTL

\* CreateEnvironment is called only when the service has no environment of that
\* name.
THEOREM CreateOnlyWhenAbsentTheorem == Spec => []CreateOnlyWhenAbsent
<1>1. Init => Vacant
  BY DEF Init, Vacant
<1>2. HInv => CInv
  BY DEF HInv
<1>3. Vacant => CreateOnlyWhenAbsent
  BY DEF Vacant, CreateOnlyWhenAbsent
<1>4. QED
  BY <1>1, <1>2, <1>3, HoldInv, NextVacant, PTL DEF Spec

\* The fields whose change is an edit of the user's.
OthersKept == \A f \in Fields \ LateInitFields : cr'.spec[f] = cr.spec[f]

\* Only a user's edit, a late patch, the finalizer and the status change the CR.
LEMMA ControllerKeepsSpec == ASSUME HInv, Controller PROVE OthersKept \/ crPhase' = "absent"
<1> USE DEF HInv, CInv
<1>1. cr \in Resource
  BY DEF TypeOK
<1>2. CASE LatePatch
  BY <1>1, <1>2 DEF LatePatch, Resource, Named, OthersKept
<1>3. CASE Manage
  BY <1>1, <1>3, KeepsHold DEF Manage, OthersKept
<1>4. CASE Finish \/ DeleteFinish
  <2>1. cr' = cr \/ \E s : cr' = [cr EXCEPT !.stat = s]
    BY <1>4 DEF Finish, DeleteFinish
  <2>2. cr'.spec = cr.spec
    BY <1>1, <2>1 DEF Resource
  <2>3. QED
    BY <2>2 DEF OthersKept
<1>5. CASE Unmanage
  BY <1>5 DEF Unmanage, OthersKept, crVars, Held, Removing
<1>6. CASE \/ Start \/ Read \/ Create \/ ReadBack \/ Decide \/ TagResource \/ UntagResource
           \/ SendUpdate \/ Late \/ DeleteRead \/ DeleteCall
  BY <1>6 DEF Start, Read, Create, ReadBack, Decide, TagResource, UntagResource,
              SendUpdate, Late, DeleteRead, DeleteCall, OthersKept, crVars
<1>7. QED
  BY <1>2, <1>3, <1>4, <1>5, <1>6 DEF Controller

\* Nothing but the user changes a field of the CR's spec that is not late
\* initialized, however late a patch of LateInitialize reaches the cluster.
THEOREM OnlyLateInitPatchedTheorem == Spec => OnlyLateInitPatched
<1>1. ASSUME HInv, [Next]_vars
      PROVE  [edits' = edits /\ crPhase' # "absent" => OthersKept]_vars
  <2>1. CASE User
    <3>1. edits \in Nat /\ edits' = edits + 1
      BY <1>1, <2>1 DEF User, CreateCR, PatchSpec, PatchTag, DeleteCR, Edit, HInv, CInv, TypeOK
    <3>2. QED
      BY <3>1
  <2>2. CASE Service \/ Crash
    BY <2>2 DEF Service, Crash, OthersKept, crVars
  <2>3. CASE Controller
    BY <1>1, <2>3, ControllerKeepsSpec
  <2>4. CASE UNCHANGED vars
    BY <2>4
  <2>5. QED
    BY <1>1, <2>1, <2>2, <2>3, <2>4 DEF Next
<1>2. QED
  BY <1>1, HoldInv, PTL DEF Spec, OnlyLateInitPatched, OthersKept
===============================================================================
