------------------------------ MODULE Documented ------------------------------
(***************************************************************************)
(* What comments and documents of the repository say of the program and    *)
(* the code does not do.  Each property is refuted by a run of its own.    *)
(***************************************************************************)
EXTENDS MCReconciler

\* sdk.go:340-343: a patch of AirflowConfigurationOptions is seen as a diff and
\* sent.  The code copies the desired options onto the observed resource before
\* it compares the two.
OptionsPatchApplied ==
    \A v \in PatchVals[Opts] \ {Nil} :
        (crPhase = "live" /\ cr.spec[Opts] = v)
            ~> (\/ v \in {env.cfg[Opts], env.tried[Opts]}
                \/ crPhase # "live" \/ cr.spec[Opts] # v
                \/ Blocked \/ OutOfRange(cr.spec))

\* hooks.go:65-67: after a failed update the next patch of the CR triggers a new
\* one.  The code returns the failure as an error of the read, and the runtime
\* never comes to the update.
FailedUpdateRetried ==
    \A f \in Fields \ (CreateOnlyFields \cup {Opts}) :
        LET patched == cr.spec[f] \notin {Nil, env.tried[f]}
        IN  (crPhase = "live" /\ env.status = "AVAILABLE" /\ env.last = "FAILED" /\ patched)
                ~> (~patched \/ crPhase # "live" \/ env.status # "AVAILABLE"
                    \/ env.last # "FAILED")

\* helm/values.yaml:132-133: the controller deletes the AWS resource of a deleted
\* CR.  It does not while the environment is in a failure state or its last
\* update has failed: the read before the deletion ends in an error.
DeletionReachesEnvironment ==
    (crPhase = "deleting") ~> (env.status \in {"DELETING", "ABSENT"})

\* manager.go:203-207: late initialization fills the fields the user did not
\* provide.  The patch is computed from the CR as it was read and lands on a value
\* the user has set since.
LateInitKeepsUserValues ==
    [][pc = "latepatch" /\ pc' = "finish" =>
          \A f \in Fields : cr.spec[f] # Nil => cr'.spec[f] = cr.spec[f]]_vars

\* sdk.go:355: the terminal error of a failure state is returned so that
\* updateConditions preserves it.  When LateInitialize, or the read after a
\* creation, is the first to see the state, the resource that carries the
\* condition is thrown away and its error ends the retries.
FailureStateShown ==
    LET failed == crPhase = "live" /\ env.status \in {"CREATE_FAILED", "UNAVAILABLE"}
    IN  failed ~> (cr.stat.conds["Terminal"] = "True" \/ ~failed)
===============================================================================
