------------------------------ MODULE References ------------------------------
(***************************************************************************)
(* Resolution of the references of an Environment to other custom          *)
(* resources.  A field that can be given by reference has identifiers and  *)
(* references; a pointer is a list of at most one.  Every reference is     *)
(* read from the Kubernetes API by a Get of its own, and the referenced    *)
(* resources change between two of them.                                   *)
(***************************************************************************)
EXTENDS Naturals, Sequences, FiniteSets

CONSTANTS
    Order,       \* the fields, in the order ResolveReferences takes them
    ListFields,  \* those that are lists: SecurityGroupIDs, SubnetIDs
    Required,    \* those that need an identifier or a reference
    CreateOnly,  \* those an update leaves out: KMSKey, SubnetIDs
    Targets,     \* referenced resources
    Bare,        \* a reference without From
    OwnId,       \* <<OwnId, 0>> is an identifier the user wrote
    Refs, Ids,   \* [fields -> sets of lists]: what the user may write
    MaxChanges   \* bound: changes of the referenced resources

RefFields == {Order[i] : i \in DOMAIN Order}

ASSUME ReferenceConstants ==
    /\ ListFields \cup Required \cup CreateOnly \subseteq RefFields
    /\ Bare \notin Targets
    /\ \A f \in RefFields : Refs[f] \subseteq Seq(Targets \cup {Bare})
    /\ \A f \in RefFields : Ids[f] \subseteq Seq({<<OwnId, 0>>})
    /\ \A f \in RefFields \ ListFields :
           (\A r \in Refs[f] : Len(r) <= 1) /\ (\A i \in Ids[f] : Len(i) <= 1)

VARIABLES
    spec,     \* the stored spec: its refs and its ids
    target,   \* each referenced resource: its state and its number
    pc,
    ko,       \* the copy that is being resolved: its ids
    todo,     \* for each field, the places of the references still to read
    invalid,  \* what validateReferenceFields said at the start
    managed,  \* the finalizer is set
    env,      \* the environment's identifiers, once it is created
    began,    \* the numbers of the targets when the sync began (history)
    changes

NoEnv == [f \in {} |-> <<>>]
NothingToRead == [f \in RefFields |-> {}]

vars == <<spec, target, pc, ko, todo, invalid, managed, env, began, changes>>

\* A resource is missing; it exists without ResourceSynced, in a terminal
\* condition, or without the identifier in its status; or it is usable.
TargetStates == {"missing", "unsynced", "terminal", "noId", "synced"}

Init ==
    /\ spec \in [refs : {r \in [RefFields -> UNION {Refs[f] : f \in RefFields}] :
                            \A f \in RefFields : r[f] \in Refs[f]},
                 ids  : {i \in [RefFields -> UNION {Ids[f] : f \in RefFields}] :
                            \A f \in RefFields : i[f] \in Ids[f]}]
    /\ target \in [Targets -> [state : {"missing", "synced"}, num : {0}]]
    /\ pc = "idle" /\ ko = spec.ids /\ todo = NothingToRead
    /\ invalid = FALSE /\ managed = FALSE /\ env = NoEnv
    /\ began = [t \in Targets |-> 0]
    /\ changes = 0

------------------------------------------------------------------------------
\* The resource manager.

\* validateReferenceFields, over the references of the spec and ids.
Invalid(ids) ==
    \E f \in RefFields :
        \/ spec.refs[f] # <<>> /\ ids[f] # <<>>
        \/ f \in Required /\ spec.refs[f] = <<>> /\ ids[f] = <<>>

\* The references that have a From are read.
Reads == [f \in RefFields |-> {j \in DOMAIN spec.refs[f] : spec.refs[f][j] # Bare}]

\* Field by field, and those of a list in their order.
IsNext(f, j) ==
    /\ j \in todo[f] /\ \A k \in todo[f] : j <= k
    /\ \E i \in DOMAIN Order : Order[i] = f /\ \A h \in 1 .. (i - 1) : todo[Order[h]] = {}

\* getReferencedResourceState
Usable(t) == target[t].state = "synced"

\* Faulty variants: a list is overwritten like a pointer; the identifier of the
\* first resource of that name is remembered.
Overwrite(ids, f, t) == [ids EXCEPT ![f] = <<<<t, target[t].num>>>>]
SetFirst(ids, f, t) == [ids EXCEPT ![f] = <<<<t, 0>>>>]

\* A pointer is set, a list is appended to.
SetId(ids, f, t) ==
    LET id == <<t, target[t].num>>
    IN  [ids EXCEPT ![f] = IF f \in ListFields THEN Append(@, id) ELSE <<id>>]

ClearResolvedReferences(ids) ==
    [f \in RefFields |-> IF spec.refs[f] # <<>> THEN <<>> ELSE ids[f]]

\* Faulty variants: the validation error is shadowed; the fields are validated
\* when the references have been resolved.
IgnoreInvalid(bad) == TRUE
ValidateAfter(bad) == ~Invalid(ko)

\* The error of validateReferenceFields is returned last.
Passes(bad) == ~bad

------------------------------------------------------------------------------
\* A sync: resolve; set the finalizer of a new CR, after which the runtime goes
\* on with the resolved copy, or takes the stored CR and resolves again; use the
\* identifiers.

Resolve(ids) ==
    /\ ko' = ids /\ todo' = Reads
    /\ invalid' = Invalid(ids)
    /\ pc' = "resolve"

Start ==
    /\ pc = "idle"
    /\ Resolve(spec.ids)
    /\ began' = [t \in Targets |-> target[t].num]
    /\ UNCHANGED <<spec, target, managed, env, changes>>

Idle == pc' = "idle" /\ ko' = spec.ids /\ todo' = NothingToRead /\ invalid' = FALSE

ReadTarget ==
    /\ pc = "resolve"
    /\ \E f \in RefFields : \E j \in todo[f] :
           LET t == spec.refs[f][j]
           IN  /\ IsNext(f, j)
               /\ \/ /\ Usable(t)
                     /\ ko' = SetId(ko, f, t)
                     /\ todo' = [todo EXCEPT ![f] = @ \ {j}]
                     /\ UNCHANGED <<pc, invalid>>
                  \/ ~Usable(t) /\ Idle
    /\ UNCHANGED <<spec, target, managed, env, began, changes>>

Resolved ==
    /\ pc = "resolve" /\ todo = NothingToRead
    /\ IF Passes(invalid) THEN pc' = "resolved" /\ UNCHANGED <<ko, todo, invalid>>
       ELSE Idle
    /\ UNCHANGED <<spec, target, managed, env, began, changes>>

\* What was resolved is cleared before the runtime writes to the cluster.
SetManaged ==
    /\ pc = "resolved" /\ ~managed
    /\ managed' = TRUE
    /\ \/ Resolve(ClearResolvedReferences(ko))
       \/ UNCHANGED <<pc, ko, todo, invalid>>
    /\ UNCHANGED <<spec, target, env, began, changes>>

\* A faulty variant: the environment keeps what it was created with.
CreatedWith(old, ids) == old

\* newUpdateRequestPayload: an empty member is left out, and the service keeps
\* what it has.
Updated(old, ids) ==
    [f \in RefFields |-> IF f \in CreateOnly \/ ids[f] = <<>> THEN old[f] ELSE ids[f]]

\* The environment is created with the identifiers, or brought to them.  Every
\* call of a sync by itself, and its faults, are in Reconciler.
Use ==
    /\ pc = "resolved" /\ managed
    /\ env' = IF env = NoEnv THEN ko ELSE Updated(env, ko)
    /\ Idle
    /\ UNCHANGED <<spec, target, managed, began, changes>>

\* Other controllers and users change the referenced resources; a resource that
\* is made again has another identifier.
ChangeTarget(t, state) ==
    /\ changes < MaxChanges /\ changes' = changes + 1
    /\ target[t].state # state
    /\ target' = [target EXCEPT ![t] = [state |-> state,
                     num |-> @.num + IF @.state = "missing" THEN 1 ELSE 0]]
    /\ UNCHANGED <<spec, pc, ko, todo, invalid, managed, env, began>>

Sync == Start \/ ReadTarget \/ Resolved \/ SetManaged \/ Use

Next == Sync \/ \E t \in Targets, s \in TargetStates : ChangeTarget(t, s)

Spec == Init /\ [][Next]_vars

\* The work queue tries again after every error.
FairSpec == Spec /\ WF_vars(Sync)

------------------------------------------------------------------------------
InUse == pc = "resolved" /\ managed

\* The place that the identifier of a reference has among the field's: those without
\* a From have none.
Place(f, j) == Cardinality({i \in Reads[f] : i <= j})

\* What a sync goes on with is one identifier for each reference, in their
\* order, and the user's own identifiers of the other fields: resolving a second
\* time after the finalizer is set adds nothing.
OneIdPerReference ==
    InUse => \A f \in RefFields :
        IF spec.refs[f] = <<>> THEN ko[f] = spec.ids[f]
        ELSE /\ Len(ko[f]) = Cardinality(Reads[f])
             /\ \A j \in Reads[f] : ko[f][Place(f, j)][1] = spec.refs[f][j]

\* No identifier is older than the sync that uses it: a resource that was made
\* again is not used under its former identifier.
IdsAreFresh ==
    InUse => \A f \in {g \in RefFields : spec.refs[g] # <<>>} :
        \A i \in DOMAIN ko[f] : ko[f][i][2] >= began[ko[f][i][1]]

\* A spec that gives a field twice, or leaves a required one out, is never used,
\* although its references are read and set before the error is returned.
InvalidNeverUsed == InUse => ~Invalid(spec.ids)

\* When the referenced resources are usable at last, so is the environment.
UsedAtLast ==
    <>[](\A t \in Targets : Usable(t)) /\ [](~Invalid(spec.ids)) => []<>InUse

\* The environment's identifiers of f are those of the resources f names.
Follows(f) ==
    /\ env # NoEnv /\ Len(env[f]) = Cardinality(Reads[f])
    /\ \A j \in Reads[f] :
           LET t == spec.refs[f][j] IN env[f][Place(f, j)] = <<t, target[t].num>>

\* When the referenced resources stay as they are, the environment comes to have
\* their present identifiers, whatever it was created with: a resource that was
\* made again is taken up, where an update can.
IdsFollow ==
    <>[](\A t \in Targets : Usable(t)) /\ [](~Invalid(spec.ids)) =>
        \A f \in RefFields \ CreateOnly : [](Reads[f] # {}) => <>[]Follows(f)
===============================================================================
