# A TLA+ model of the MWAA controller

The repository is an ACK controller for Amazon Managed Workflows for Apache
Airflow: it reconciles `Environment` custom resources (CRs) with environments of
the MWAA service. This directory models the resource manager in
`pkg/resource/environment` together with the world it works in, checks it with
TLC on small instances, and proves its safety properties with TLAPS for instances of
any size.

## 1. Inventory

| Component | State | Operations | Right when |
|---|---|---|---|
| Spec functions (`sdk.go`, `delta.go`, `manager.go`, `hooks.go`) | none | delta, Create and Update payloads, overlay of a read, late initialization | nothing redacted or truncated is written; differences go away |
| Tags (`tags.go`, `manager.go`, `pkg/tags/sync.go`) | none | EnsureTags, mirrorAWSTags, FilterSystemTags, SyncTags | the tags of the user, the controller and AWS stay apart |
| Conditions (`sdk.go`, `manager.go`, `hooks.go`) | the condition list of a CR | updateConditions, onError, onSuccess, handleUpdateFailed | a failure is shown; a terminal one ends the retries |
| Resource manager (`sdk.go`, `manager.go`) | the copies of a running reconciliation | ReadOne, Create, Update, Delete, LateInitialize, IsSynced | no environment is orphaned or made twice; patches are applied; deletions end |
| Manager factory (`manager_factory.go`) | `rmCache`, an RWMutex | ManagerFor | calls return a manager of their own role; the map is guarded |
| References (`references.go`) | the copy being resolved | validate, resolve, clear | one fresh identifier for each reference; an invalid spec is not used |
| Descriptor, resource wrapper (`descriptor.go`, `resource.go`, `identifiers.go`) | finalizer, annotations | MarkManaged, MarkUnmanaged, SetStatus, MarkAdopted, SetIdentifiers | the finalizer is set before the environment exists |
| Process and deployment (`cmd/controller/main.go`, `helm/values.yaml`, `helm/templates`) | the processes there are, the lease | start, stop, leader election | an upgrade loses and breaks nothing |
| Wiring (`registry.go`, flags, schemes, `config`) | none | start | outside the model |

The controller's only shared state is the CR in the Kubernetes API, the
environment in the service and the factory's cache. The order in which the
resource manager's methods are called is that of the ACK runtime (v0.58.0 in
`go.mod`), which the repository imports and does not contain: the runtime, the
service, the Kubernetes API and the user are modelled as external.

What is hard: every method is a remote call, and between two of them the user
patches or deletes the CR, the service ends what it has begun or starts
maintenance, AWS adds tags, the process crashes or is replaced by another one, and
another CR may name the same environment. Errors, lost replies, terminal
conditions and retries decide whether the next reconciliation does the right
thing. `PROJECT.json` lists these hazards at the lines where they bite.

## 2. Modules

| Module | What it is |
|---|---|
| `EnvironmentSpec` | specs as functions from fields to values; delta, payloads, what a read shows, late initialization |
| `Tags` | tag maps; the functions of `tags.go`, `manager.go` and `pkg/tags` |
| `Conditions` | conditions, errors, and the functions that move them |
| `Lifecycle` | the abstract specification: what a user may rely on of one CR and its environment |
| `Reconciler` | the state machine of one CR, its controller, its user and the service; the properties; the refinement of `Lifecycle` |
| `MCReconciler` | instances of it for TLC |
| `Documented` | what comments and documents promise and the code does not do |
| `Rollout`, `MCRollout` | two controller processes, of an upgrade, on one CR |
| `Neighbours`, `MCNeighbours` | one controller, two CRs that name one environment |
| `ManagerFactory` | ManagerFor under concurrent callers |
| `References`, `MCReferences` | resolution of references, and the environment that is made and updated with them, while the referenced resources change |
| `ReconcilerTypes`, `ReconcilerProofs` | proofs about `Reconciler`: types; the finalizer and the environment |
| `ContentProofs` | proofs about `Reconciler`: settings, conditions, tags, what "synced" means |
| `LifecycleProofs` | `Reconciler` implements `Lifecycle` |
| `RolloutProofs`, `NeighboursProofs` | proofs about `Rollout` and `Neighbours` |
| `ManagerFactoryProofs`, `ReferencesProofs` | proofs about `ManagerFactory` and `References` |

`Reconciler` extends the three pure modules, and is composed of the controller,
the user (`User`), the service (`Service`) and the process (`Crash`). `Rollout` and
`Neighbours` extend it and instantiate it a second time: the second process is
Reconciler's controller over local variables of its own and the same CR and
environment, the second CR is Reconciler over another CR and the same environment.

### Reconciler

`pc` names the controller's next call that leaves the process; one action is one
such call with everything the code does until the next. `desired` and `latest`
are the runtime's variables of those names, `cr` and `crPhase` the object in the
Kubernetes API, `env` the environment: its status, its configuration `cfg`, the
configuration of the last update `tried`, the status of that update and its tags.

| `pc` | Action | Code |
|---|---|---|
| idle | `Start` | the runtime gets the CR, resets its conditions, calls EnsureTags |
| read | `Read` | ReadOne: sdkFind, mirrorAWSTags, onError / onSuccess |
| manage | `Manage` | MarkManaged and its patch |
| create | `Create` | sdkCreate, newCreateRequestPayload |
| readback | `ReadBack` | the read after a creation; only its status is kept (SetStatus) |
| update | `Decide` | newResourceDelta, the guard of sdkUpdate |
| tag, untag | `TagResource`, `UntagResource` | the two calls of SyncTags |
| send | `SendUpdate` | newUpdateRequestPayload, UpdateEnvironment |
| late, latepatch | `Late`, `LatePatch` | LateInitialize and the merge patch of what it filled in |
| finish | `Finish` | the status is patched, the key is queued again |
| delread, delcall, delfinish, unmanage | `DeleteRead` ... `Unmanage` | ReadOne, sdkDelete, the conditions of a failure, MarkUnmanaged |

Choices of the model, each on the side of more behaviours where there is a doubt:

- A deletion is accepted or refused while the environment is busy: the service's
  documentation leaves it open. The `Synced` status that the runtime gives a
  terminal outcome is either of two.
- `MAINTENANCE` stands for every status of the service that is neither final nor
  one of the named ones (`PENDING`, `CREATING_SNAPSHOT`, `ROLLING_BACK`): the code
  treats them alike. `UPDATE_FAILED` as a status of the environment is left out:
  the comments of the code say that the environment is AVAILABLE again with
  `LastUpdate.Status` FAILED.
- Reads are consistent with the writes before them. A read of the CR at the start
  of a reconciliation shows what is stored. Failures of the status patch are left
  out: the runtime tries again, and the CR's status is written in full each time.
- A terminal error is not queued again; every other outcome is, after a success
  when the resync period is over. Delays have no duration in the model.
- The nested structs of the spec are flattened to their members. A nil pointer and
  a zero value differ, as they do in the code; formats of strings are left out.
  An int32 has the values -4 .. 3, so that 11 wraps to 3 as `int32(v)` does.
- The references of a spec are not part of `Reconciler`: `References` models them
  on their own.

### Lifecycle

Two variables, seven actions, no calls, copies, errors or retries. The mapping is
`CrState` (absent; without the finalizer, "unheld"; with it, "held"; deleted but
still there, "leaving") and `EnvState` ("none", "there", and "going" once the
service deletes it). What the abstract actions forbid is what the code must not do
through any interleaving: `Hold` only while there is no environment (a CR does not
take over what it did not make), `Make` only for a CR that holds the name, `Remove`
only for a CR that is being deleted, `Release` only when the environment is gone or
going. Settings, tags and the status are below this level.

### Rollout

`Deployment` and leader election: `StartNew`, `AcquireLease`, `StopOld`, and a step
of either process (`OldStep`, `NewStep`). The chart sets no strategy of its own, so
a new pod is started before the old one is stopped (Kubernetes' RollingUpdate, 25%
rounded up: one pod more, none less); `leaderElection.enabled` is false. `election` is
the flag, either way. `StopOld` comes between any two steps of the old process: what
it was doing is lost, as in `Crash`. With election the new process waits for the lease
(`LeaseFree`). A process that begins lists every CR; each sees the other's change of
the CR's spec or tags. The status is written by name, so the last writer wins, as
in `Reconciler`.

### Neighbours

One process and, as `defaultMaxConcurrentSyncs: 1` has it, one reconciliation at a
time (`FirstStep`, `SecondStep`); users, service and `Restart` come between any two
steps. `IsManaged` looks at the finalizer of the CR at hand and at nothing else:
that is all the code has to tell its own environment from another CR's. `owners` is
history: the CRs that had the finalizer when the environment was made.

### ManagerFactory

One action is one section of ManagerFor between two operations on the mutex; the
lookup with RUnlock and the store with the deferred Unlock are one step each. A
waiting writer keeps new readers out, as sync.RWMutex does. `served` and `had` are
history: for which ids a call has returned, and whether that was so when the
call of a goroutine began.

### References

Each Get of a referenced resource is one step (`ReadTarget`). After the finalizer
has been set the runtime goes on with the resolved copy or resolves the stored CR
once more; the model allows both. A field is a list of references and a list of
identifiers, a pointer is a list of at most one. `todo` holds, for each field, the places of the
references that are still to be read; `IsNext` is the order of `ResolveReferences`. `Use` is the part of Create and Update
that sends the identifiers: an update leaves out `CreateOnly` fields and empty members,
and the service keeps what it has. `began` is history: the identities
of the referenced resources when the sync began.

## 3. Runs

| Run | Question | Bounds | States |
|---|---|---|---|
| `reconciler_safety` | is anything orphaned, made twice, leaked, truncated or overwritten; does the lifecycle hold | 4 fields (options, an int32 that is late initialized, a plain one, the name), 3 edits, 1 fault of any kind | 262242 |
| `reconciler_live` | do patches, failures and deletions come through; do updates end | 8 fields, one of each class that the delta, the payload or late initialization treats differently, options that are removed among them; 2 edits, 1 fault of any kind | 66639 |
| `reconciler_tags` | are the tags of user, controller and AWS kept apart; is "synced" true; what becomes of tags that come with a number out of range | one key of each, 2 values, an int32 that may be out of range; 3 edits, 1 fault of any kind that bears on it | 112302 |
| `rollout` | what an upgrade may break, with leader election and without | one setting, 2 edits, the upgrade | 104033 |
| `neighbours` | two CRs, one environment | one setting, valid or out of range; 4 edits (two creations, two patches or deletions), 1 failed or lost call or crash | 417740 |
| `manager_factory` | mutex and cache | 3 callers, 2 roles, 3 calls | 8138 |
| `references` | resolution, and what the environment has in the end | a required pointer, an optional one that only a creation sends, a list of up to 3; 2 resources in 5 states, 3 changes | 304496 |
| `doc_*` | a sentence of the repository that the code refutes | as small as the counterexample allows | |

Why the bounds are enough: a reconciliation reads the CR once, so three edits put
one before it (the creation), one between any two of its calls and one after it;
one fault is enough to interrupt any call, and what it leaves behind is what the
next, faultless reconciliations start from. Where two edits are allowed, the question
is what becomes of the last of them. In `reconciler_tags` the three are the creation, a
tag and a number: both reach one sync when they fall before it reads the CR, as a single
patch of both would. `rollout` has no other fault than the upgrade,
which stops a process between any two of its calls: an upgrade with another failure
besides it is beyond the run. `neighbours` has the edits that
make both CRs and change each once. The proofs of section 5 hold without the bounds.
Deadlock is not checked where a system with no work in the queue and no edit left stops.

What the properties say:

- `ImplementsLifecycle`: the refinement; every step of the reconciler is a step of
  `Lifecycle` or none.
- `NoOrphan`, `CreateOnlyWhenAbsent`: finalizer and environment keep their order
  through crashes, lost replies and deletions in the middle of a sync.
- `SecretsStayPut`, `OnlyRequestedValues`, `OnlyLateInitPatched`: what is written
  to the CR and to the service is what somebody asked for.
- `OneVerdict`, `SyncedMeansTaken`: what the status says. A CR is never told at
  once that it is hopeless and that it is being retried; a CR that is shown as
  synced has had its tags set and its settings taken. (Taken, not applied: the
  status that IsSynced looks at is one read older than the update.) The property is about
  the step `Finish` alone: a CR may keep an older `Synced` while the next sync is at
  its end and the service or the user moves.
- `SettingsApplied`, `FailureSurfaced`, `DeletionCompletes`, `UpdatesCease`,
  `TagsApplied`, `RangeErrorShown`: what must eventually happen. Their exceptions are named
  operators (`Blocked`, `Unreconcilable`): states in which the code waits for
  the user, and requests that UpdateEnvironment cannot express (a setting taken
  away again, fields of a creation only). A hazard that is such an exception is
  listed in `PROJECT.json` with a note and no property.
- `TagsApplied` and `RangeErrorShown` also answer for a tag and a number patched together: the
  tags are applied before the payload is refused (`TagsApplied` excepts only an environment whose
  creation is refused), and the refusal is shown. Conditions have no reason in the model,
  so `RangeErrorShown` does not ask that `Recoverable` is seen once, which a busy environment
  brings about as well; it asks that it stays, beside the tags, as long as the number does.
- `NoAwsTagCalls`, `ClusterTagsAreTheUsers`: tags of AWS that appear at any time.
- `LockDiscipline`, `NoCreateAfterServed`, `ManagerOfOwnRole`, `CallsReturn`.
- `OneIdPerReference`, `IdsAreFresh`, `InvalidNeverUsed`, `UsedAtLast`, and `IdsFollow`:
  when the referenced resources are left alone, the environment ends up with their
  present identifiers, although they were made again after its creation.
- `LifecycleKept`, `SettingsOutliveUpgrade`, `DeletionOutlivesUpgrade`: with leader
  election an upgrade is no more than a crash. Without it they have exceptions: see below.
  The two liveness properties excuse a terminal error, and an overlap, only when nobody will
  act any more (`AtRest`: one process is there, has the lease and has nothing to do).
- `OwnEnvironmentOnly`, `SomebodyHolds`, `LatecomerIsTold`: the CR that comes second
  leaves the environment alone and says why; the environment never is without a
  finalizer behind it.

Each has a faulty variant of some definition (named so in the modules) under which
TLC finds it violated.

### What the properties leave open

The exceptions are what a maintainer should know of the code as it is:

- The default deployment overlaps (`raced` in `Rollout`). If the two processes overlap
  before the environment is made, the one that comes too late finds an environment
  without its finalizer, or is refused the creation, and stops with a terminal error
  that the other one's status hides; a patch of that time stays unsent if this is the process
  that is left. If they overlap while the CR is being deleted, a creation or a deletion of one may land
  after the other has let go, and a deletion is given up when the process that is left was refused it.
- The finalizer is taken for the ownership (`OwnEnvironmentOnly`). A CR whose creation
  failed after its finalizer was set, or that has still to take the finalizer off
  after its deletion, treats an environment that another CR has made since as its
  own; it then updates or deletes it. `SomebodyHolds` is true of such a CR as well.
- More than one concurrent reconciliation (`reconcile.defaultMaxConcurrentSyncs` above 1)
  is not modelled in `Neighbours`: there a retried deletion may reach the
  environment that the other CR has just made.
- A CR that is made again while its former environment is being deleted stops with a
  terminal error and does not start again by itself (part of `Blocked`).
- A removed setting differs from the service's for ever and is sent in every
  reconciliation (exception of `UpdatesCease`), because the payload leaves nil members out
  and the service keeps what it has.

### Where the code differs from what it says

1. `OptionsPatchApplied` (sdk.go:340-343): a patch of AirflowConfigurationOptions
   alone is never sent, because the desired options are copied onto the observed
   resource before the two are compared.
2. `FailedUpdateRetried` (hooks.go:65-67): after a failed update the read of every
   later sync ends in an error, so a new patch is not sent either.
3. `DeletionReachesEnvironment` (helm/values.yaml:132-133): an environment in a
   failure state, or after a failed update, is not deleted with its CR.
4. `LateInitKeepsUserValues` (manager.go:203-205): a value set during a
   reconciliation is overwritten by late initialization.
5. `FailureStateShown` (sdk.go:355): a failure state that late initialization, or the
   read after a creation, is the first to see ends the retries, and the resource
   that carries its Terminal condition is thrown away.

## 4. Fairness

`FairSpec` of `Reconciler` assumes that the controller takes its next step when it
has one (the runtime's workers and work queue) and that the service ends what it
has begun. Nothing is assumed of users and faults. Weak fairness of the whole
controller is enough, since at most one of its actions is enabled at a time; the
outcome of a call (a fault, a refusal) stays free, and faults are bounded. The
factory's callers are scheduled, and sync.RWMutex lets a waiter in although other
callers come and go (strong fairness of the two acquisitions). In `References` the
sync is tried again after every error, as the work queue does.

`FairRollout` has weak fairness of either process, of the service and of what ends an
overlap (the Deployment stops the old pod, and a lease that is not renewed runs out);
nobody owes the upgrade itself. In `Neighbours` the two CRs share one worker, and a step
of one is disabled while the other is being reconciled: `FairNeighbours` asks for strong
fairness of both, which the work queue gives, for it is first in, first out and a
reconciliation is finite.

## 5. Proofs

All theorems are for arbitrary constants: any set of fields, tags, values and
faults, any number of edits, callers, references and calls. They assume the named
assumptions of the modules (`SpecConstants`, `TagConstants`, `ReconcilerConstants`,
`FactoryConstants`, `ReferenceConstants`): that the markers of missing values are no values, that int32
fields hold numbers, that a pointer has at most one reference and, from the CRD, that the
name is required. Three theorems have a hypothesis of their own, which is named in
them and below. Every inductive invariant was first checked by TLC on the
instance of its run (`HInv` and those of `ContentProofs` on those of
`MCReconciler`, `NInv`, `RolloutInv` and `RInv` on `MCNeighbours`, `MCRollout` with
a fault, and `MCReferences`).

### One CR

- `ReconcilerTypeOK`: one lemma on each operator's result, one for each action.
- `NoOrphanTheorem`: `NoOrphan` is not inductive: that a step `Create` keeps it needs
  that the CR of a copy with a finalizer still has it (`Held`), that `Unmanage` keeps it
  needs that the environment is gone or going at that step (`Known`), and that NotFound
  means "no environment" needs that the copy has a name, which late initialization cannot
  take away (`Named`). `CInv` is the conjunction of these with the types; it is inductive
  without `NoOrphan`, and it does not say that an environment is this CR's own. The lemmas
  on the actions are proved from `CInv`, and each says besides what its step
  does not do to the finalizer and the environment (`Lawful`: it makes no environment for
  a CR that is not held, lets go of none while there is one, takes the finalizer only where
  there is none). `NoOrphan` follows from `Lawful`, and so do the theorems on
  two CRs.
- `CreateOnlyWhenAbsentTheorem`: by `Vacant`, which holds only as long as
  there is one process for one CR.
- `OnlyLateInitPatchedTheorem`: an action property, from the part of `Named` that
  says what a late patch holds.
- `OnlyRequestedValuesTheorem`, `SecretsStayPutTheorem`: from `Chosen`. The CR, the copy
  and the service hold requested values in every field, and `latest`, which is what a
  read shows, in every field but the options: these may be redacted, and that late
  initialization does not copy them, and that a payload is built from `desired` and not from
  `latest`, is what keeps the rest. That `int32(v)` is the identity on a
  payload that was not refused is arithmetic (`OutOfRange`). Hypothesis of the
  second: nobody requests the marker "***" itself.
- `OneVerdictTheorem`: from `Verdicts`: the resources that a reconciliation works on
  carry no `Recoverable` until the call that ends it, because `Start` empties the
  conditions and every error returns; updateConditions is applied once to such a list.
- `NoAwsTagCallsTheorem`, `ClusterTagsAreTheUsersTheorem`: from `AwsTagsApart`: the two
  sides of a comparison have the same tags of AWS, since mirrorAWSTags writes those of the
  read to the copy; a late patch leaves them out. Hypothesis: no CR is created with a tag
  of AWS (`UsersTags`), as `PatchTag` sets none.
- `SyncedMeansTakenTheorem`: from `Taken` and `NoneSynced`: what is observed AVAILABLE stays
  as it was read until a call of this reconciliation changes it (`Seen`), each call for tags
  or for an update adds its part, and `Synced` is set by none but `Finish`. Hypothesis: no
  drift, which may follow the read. In its first form the property spoke of every step that begins
  at `finish`; the proof failed at the steps of the user and the service
  there, which larger instances have and the run's does not. It now speaks of the step `Finish`.
- `LifecycleTheorem`: `Spec => ImplementsLifecycle`. Under `CInv` each action
  maps to a step of `Lifecycle` or to none, with one lemma for each action that moves
  `CrState` or `EnvState` (`Manage`, `Create`, `DeleteCall`, `Unmanage`, users and
  service), and shared ones for those that move neither. The instance's definitions are
  expanded over the mapping; no abstract variable is hidden.

### Two processes, two CRs

- `LifecycleKeptTheorem` (`RolloutProofs`): the invariant is that `CInv` holds for
  either process as long as `"leaving"` is not in `raced`, together with which processes run
  (`Upgrade`) and what is on record (`Recorded`). A controller that works on a CR that
  is not being deleted leaves it its finalizer and its phase and makes environments for a held CR only
  (`Spares`, from `CInv`), and that is all the other process's `CInv` needs (`ApartHold`); one
  that works on a CR that is being deleted is alone, or it is on record. With
  leader election there never are two (`election /\ leading => pods = "new"`). The lemmas on the
  new process are those of `LifecycleProofs`, instantiated over its variables (`P2`);
  `NewIsP2` says that it is the process of `Rollout`.
- `OwnEnvironmentOnlyTheorem`, `SomebodyHoldsTheorem` (`NeighboursProofs`): `NInv` is `CInv` of
  both CRs, that one is reconciled at a time, and `Cared`: an environment that is there has a
  CR that holds it, and the CRs with a finalizer are among those that had it when it was
  made. A step for one CR is `Lawful`, which gives `Cared`, and touches the other
  CR's `Known` only when that is at rest (`BesideHold`).

### The other components

- `FactoryTypeOK`, `FactoryLocks`, `NoSecondManagerLater`, `OwnRole`: from `IInv` of
  `ManagerFactoryProofs`; `CacheInv` says that nothing leaves the cache and that an entry
  has its own id.
- `OneIdPerReferenceTheorem`, `IdsAreFreshTheorem`, `InvalidNeverUsedTheorem`
  (`ReferencesProofs`): `RInv` says that the references read so far come before the others
  in their field (`Progress`), and that a field of a valid spec has an identifier for each
  of them at its place (`Filled`). The place is a cardinality, so that no
  induction over the list is needed; `NextPlace` is the lemma on it. An invalid spec may be
  filled with anything, and is caught by `invalid` at the end. That resolving a second
  time adds nothing follows from `ClearResolvedReferences` and from the first validation: a
  field that still has identifiers has no references.

Every safety property that a passing run checks, invariant or action property, is stated by a
theorem. Only model-checked: the liveness properties, because fairness is out of the
prover's reach (the exceptions of `SettingsOutliveUpgrade` and `DeletionOutlivesUpgrade`
with them), and the violations of section 3, which are counterexamples.

## 6. Not modelled, and the plan

- Adoption, read-only CRs and the retain policy: the repository passes annotations and
  a flag on, and holds `MarkAdopted`, `SetIdentifiers` and `PopulateResourceFromAnnotation`;
  which of them the runtime calls, when, and what it does between them cannot be seen in it.
- Flags, schemes, webhooks, probes, the registry (filled before `main` runs), manifests
  other than the Deployment's replicas and election, deep copies, end-to-end tests: no
  state that changes.
- Calls that are still under way when a process is told to stop: `StopOld` ends it
  between two calls. A call whose reply is lost is a fault of `Reconciler`.
- Eventual consistency of the service (`sdk.go:82`), which a comment of the end-to-end tests
  (`test/e2e/tests/test_environment.py:117-118`) reckons with: the service is modelled as
  consistent. `NoOrphan`, `CreateOnlyWhenAbsent` and the refinement rest on it. A stale NotFound in the
  read before a deletion would take the finalizer off a CR whose environment is there.
- An answer without an ARN, which `sdk.go:655` would dereference.
- The error return of `manager_factory.go:74-76`, which is never other than nil; a reference without
  a name (`references.go:183`) is a reference to a resource that is missing.
- A required reference without From (`references.go:142`) is in `References`, with no
  property of its own: nothing in the repository says what should come of it.

Done, in this order: the core (`EnvironmentSpec`, `Tags`, `Conditions`, `Reconciler`),
`ManagerFactory`, `References`, their proofs; then `Lifecycle` with its refinement and its
proof, the identifiers that change under a live environment, `Rollout` and `Neighbours`.
The proofs followed: the contents of the CR and the service, two CRs, two processes, references.

What is left:

1. In `Neighbours`, that either CR by itself goes through the steps of `Lifecycle` as long as
   it is the only one that holds the name.
2. In `References`, that what `Use` sends is the identifiers of the last sync: the safety part of
   `IdsFollow`.
