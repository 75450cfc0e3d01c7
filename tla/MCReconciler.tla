----------------------------- MODULE MCReconciler -----------------------------
(***************************************************************************)
(* Small instances of Reconciler for TLC.  Numbers stand for values: 1 and *)
(* 2 are values of the user, 0 is the service's default, 11 is a number    *)
(* no int32 of the instance holds (-4 .. 3) and that wraps to 3.           *)
(***************************************************************************)
EXTENDS Reconciler

MCMinInt32 == -4

\* The fields of one instance: one option map, one late initialized int32, one
\* plain field.
CoreFields == {"Name", "AirflowConfigurationOptions", "MaxWorkers", "DagS3Path"}

Core(opts, workers) ==
    [f \in CoreFields |-> CASE f = "AirflowConfigurationOptions" -> opts
                            [] f = "MaxWorkers" -> workers
                            [] OTHER -> 1]

CoreSpecs == {Core(Nil, Nil), Core(2, 1)}

CorePatches == [f \in CoreFields |->
    CASE f = "AirflowConfigurationOptions" -> {1, 2}
      [] f = "MaxWorkers" -> {2, 11}
      [] f = "DagS3Path" -> {2}
      [] OTHER -> {}]

NoTagMaps == {NoTags}

\* Fields of every kind that matters to convergence: two modules of the logging
\* configuration, a field of CreateEnvironment only, one that is also late
\* initialized, an int32, an optional plain field, and options that the user may
\* take away again.
LoopFields == {"Name", "MaxWorkers", "KMSKey", "EndpointManagement", "TaskLogs",
               "WorkerLogs", "PluginsS3Path", "AirflowConfigurationOptions"}

Loop(kms, endpoint, task, plugins, opts) ==
    [f \in LoopFields |-> CASE f = "KMSKey" -> kms
                            [] f = "EndpointManagement" -> endpoint
                            [] f = "TaskLogs" -> task
                            [] f = "WorkerLogs" -> Nil
                            [] f = "PluginsS3Path" -> plugins
                            [] f = "MaxWorkers" -> Nil
                            [] f = "AirflowConfigurationOptions" -> opts
                            [] OTHER -> 1]

LoopSpecs == {Loop(Nil, Nil, Nil, Nil, Nil), Loop(1, Nil, 1, 1, 2)}

LoopPatches == [f \in LoopFields |->
    CASE f = "KMSKey" -> {1}
      [] f = "EndpointManagement" -> {1}
      [] f = "TaskLogs" -> {2}
      [] f = "PluginsS3Path" -> {Nil}
      [] f = "MaxWorkers" -> {2, 11}
      [] f = "AirflowConfigurationOptions" -> {Nil}
      [] OTHER -> {}]

\* One setting beside the name, for two processes.
PlainFields == {"Name", "DagS3Path"}
PlainSpecs == {[f \in PlainFields |-> 1]}
PlainPatches == [f \in PlainFields |-> IF f = "DagS3Path" THEN {2} ELSE {}]

\* Tags: the user's, the controller's and AWS's.
MCTagKeys == {"owner", "controller", "aws:stack"}
\* With the tags, an int32: a tag and a number out of range reach one sync together
\* when both are patched before it reads the CR.
TaggedFields == {"Name", "MaxWorkers"}
TaggedSpecs == {[f \in TaggedFields |-> 1]}
TaggedPatches == [f \in TaggedFields |-> IF f = "MaxWorkers" THEN {2, 11} ELSE {}]
MCInitTags == {NoTags, [NoTags EXCEPT !["owner"] = "x"]}
===============================================================================
