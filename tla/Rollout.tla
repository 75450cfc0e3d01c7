-------------------------------- MODULE Rollout --------------------------------
(***************************************************************************)
(* An upgrade of the controller's Deployment: a second process is started  *)
(* beside the first, and the first is stopped when the second is ready.    *)
(* That is the strategy of a Deployment that names none, and the chart's   *)
(* default is one replica and no leader election, so for a while two       *)
(* controllers reconcile the same CR.  With leader election the second one *)
(* begins when the lease of the first, which has stopped, runs out.        *)
(*                                                                         *)
(* The variables pc, desired ... queued of Reconciler are those of the old *)
(* process; New is Reconciler's controller over variables of its own.      *)
(***************************************************************************)
EXTENDS Reconciler

VARIABLES
    pc2, desired2, latest2, err2, patch2, queued2,
    election,   \* the flag --enable-leader-election; it never changes
    pods,       \* "old", "both" or "new": the processes there are
    leading,    \* the new process reconciles
    raced       \* what two processes reconciled at once (history): a CR whose
                \* environment was "unmade", or that was "leaving"

New == INSTANCE Reconciler
       WITH pc <- pc2, desired <- desired2, latest <- latest2, err <- err2,
            patch <- patch2, queued <- queued2

locals2 == <<desired2, latest2, err2, patch2>>
old == <<pc, locals, queued>>
new == <<pc2, locals2, queued2>>
world == <<crVars, env, edits, faults>>
deployment == <<election, pods, leading>>
rolloutVars == <<vars, new, deployment, raced>>

RolloutInit ==
    /\ Init
    /\ pc2 = "idle" /\ desired2 = Blank /\ latest2 = Blank
    /\ err2 = "none" /\ patch2 = NoPatch /\ queued2 = FALSE
    /\ election \in BOOLEAN
    /\ pods = "old" /\ leading = FALSE
    /\ raced = {}

OldRuns == pods # "new"
TwoRun == OldRuns /\ leading

\* A faulty variant: the new process begins with nothing to do.
NothingListed == FALSE

\* A process that begins lists the CRs.
Listed == crPhase # "absent"

\* A faulty variant: the lease is not waited for.
NoLease == TRUE

\* The holder renews its lease as long as it runs, and stops before the lease
\* runs out when it cannot.
LeaseFree == ~OldRuns

------------------------------------------------------------------------------
\* What a running process sees of another one's step on the CR: a change of its
\* spec or its tags puts the key on the queue.
Seen(queue, runs) ==
    runs /\ crPhase' # "absent"
         /\ (queue \/ <<cr'.spec, cr'.tags>> # <<cr.spec, cr.tags>>)

Exposed == {s \in {"unmade", "leaving"} :
    /\ crPhase # "absent"
    /\ s = "unmade" => EnvState # "there"
    /\ s = "leaving" => crPhase = "deleting"}

Track == raced' = raced \cup IF TwoRun' THEN Exposed' ELSE {}

OldStep ==
    /\ OldRuns
    /\ Controller
    /\ queued2' = Seen(queued2, leading)
    /\ UNCHANGED <<pc2, locals2, deployment>>
    /\ Track

NewStep ==
    /\ leading
    /\ New!Controller
    /\ queued' = Seen(queued, OldRuns)
    /\ UNCHANGED <<pc, locals, deployment>>
    /\ Track

UserStep ==
    /\ User
    /\ queued2' = (leading /\ queued')
    /\ UNCHANGED <<pc2, locals2, deployment>>
    /\ Track

ServiceStep == Service /\ UNCHANGED <<new, deployment>> /\ Track

StartNew ==
    /\ pods = "old" /\ pods' = "both"
    /\ leading' = ~election
    /\ queued2' = (leading' /\ Listed)
    /\ UNCHANGED <<world, old, pc2, locals2, election>>
    /\ Track

AcquireLease ==
    /\ election /\ pods # "old" /\ ~leading
    /\ LeaseFree
    /\ leading' = TRUE
    /\ queued2' = Listed
    /\ UNCHANGED <<world, old, pc2, locals2, election, pods>>
    /\ Track

\* The old process goes in the middle of what it does.
StopOld ==
    /\ pods = "both" /\ pods' = "new"
    /\ pc' = "idle" /\ Forget /\ queued' = FALSE
    /\ UNCHANGED <<world, new, election, leading>>
    /\ Track

RolloutNext ==
    \/ OldStep \/ NewStep \/ UserStep \/ ServiceStep
    \/ StartNew \/ AcquireLease \/ StopOld

RolloutSpec == RolloutInit /\ [][RolloutNext]_rolloutVars

\* As in Reconciler; the Deployment stops the old process, and the lease runs
\* out.  Nobody owes the upgrade itself.
RolloutFairness ==
    /\ WF_rolloutVars(OldStep)
    /\ WF_rolloutVars(NewStep)
    /\ WF_rolloutVars(Complete /\ ServiceStep)
    /\ WF_rolloutVars(AcquireLease \/ StopOld)

FairRollout == RolloutSpec /\ RolloutFairness

------------------------------------------------------------------------------
\* An upgrade keeps the lifecycle with leader election.  Without it the two
\* controllers may break it only when they overlap while the CR is being deleted:
\* then a creation or a deletion of one lands after the other has let go.
LifecycleKept ==
    [][Life!Next \/ ("leaving" \in raced' /\ ~election)]_Life!lifecycle

\* Nothing is done for the CR any more: there is one process, it has the lease and
\* nothing to do.  Nobody owes an upgrade that has not begun; one that has goes on.
AtRest ==
    \/ pods = "old" /\ pc = "idle" /\ ~queued
    \/ pods = "new" /\ leading /\ pc2 = "idle" /\ ~queued2

\* The process that is left has stopped with a terminal error, which the CR shows;
\* or which, after an overlap without leader election, the other's status has hidden.
GivenUp(overlap) ==
    /\ AtRest
    /\ \/ cr.stat.conds["Terminal"] = "True"
       \/ overlap \in raced /\ ~election

\* What the user sets before, during or after an upgrade reaches the service
\* through the process that is left.  Without leader election it may be lost when
\* the two overlap before the environment is made: the one that comes too late
\* finds it without a finalizer, or is refused its creation, and stops with a
\* terminal error; the setting is lost when it is the one that is left.
SettingsOutliveUpgrade ==
    \A f \in Fields \ (CreateOnlyFields \cup {Opts}) :
        \A v \in PatchVals[f] \ {Nil} :
            (crPhase = "live" /\ cr.spec[f] = v)
                ~> (\/ env.cfg[f] = v
                    \/ crPhase # "live" \/ cr.spec[f] # v
                    \/ Failed \/ GivenUp("unmade") \/ OutOfRange(cr.spec))

\* A deletion that the old process has begun is brought to its end, but for the
\* overlap: there the one whose deletion was refused stops with a terminal error,
\* and if it is the one that is left the CR stays as it is.
DeletionOutlivesUpgrade ==
    (crPhase = "deleting")
        ~> (crPhase # "deleting" \/ Failed \/ GivenUp("leaving"))
===============================================================================
