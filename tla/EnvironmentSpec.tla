--------------------------- MODULE EnvironmentSpec ---------------------------
(***************************************************************************)
(* The Spec of an Environment custom resource and the pure functions the   *)
(* resource manager applies to it: the delta, the Create and Update        *)
(* payloads, what GetEnvironment shows, and late initialization.           *)
(*                                                                         *)
(* A spec is a function from Fields to values; Nil is the nil pointer.     *)
(* Fields is the subset of the real fields an instance keeps.  The nested  *)
(* structs LoggingConfiguration and NetworkConfiguration are flattened to  *)
(* their members.  Every value is an integer (an identity that stands for  *)
(* a string, a map or a number), Nil, EmptyMap or Redacted.                *)
(***************************************************************************)
EXTENDS Integers, FiniteSets

CONSTANTS
    Fields,         \* the fields of EnvironmentSpec the instance keeps
    Nil,            \* a nil pointer
    EmptyMap,       \* an empty, non-nil AirflowConfigurationOptions
    Redacted,       \* the options as GetEnvironment shows them: "***"
    SensitiveVals,  \* option values that GetEnvironment redacts
    MinInt32,       \* the narrowest and ...
    MaxInt32        \* ... the widest value of an int32, scaled down for TLC

Opts == "AirflowConfigurationOptions"

LoggingModules == {"DagProcessingLogs", "SchedulerLogs", "TaskLogs",
                   "WebserverLogs", "WorkerLogs"}

\* int64 in the custom resource, int32 in the service's API.
Int32Fields ==
    Fields \cap {"MaxWebservers", "MaxWorkers", "MinWebservers", "MinWorkers",
                 "Schedulers"}

Value == Int \cup {Nil, EmptyMap, Redacted}
SpecType == {s \in [Fields -> Value] : \A f \in Int32Fields : s[f] \in Int \cup {Nil}}

ASSUME SpecConstants ==
    /\ Nil \notin Int /\ EmptyMap \notin Int /\ Redacted \notin Int
    /\ Nil # EmptyMap /\ Nil # Redacted
    /\ SensitiveVals \subseteq Int
    /\ MinInt32 \in Int /\ MaxInt32 \in Int /\ MinInt32 <= MaxInt32

------------------------------------------------------------------------------
\* Classes of fields.

\* lateInitializeFieldNames; LoggingConfiguration stands for its modules.
LateInitFields ==
    Fields \cap ({"AirflowVersion", "EndpointManagement", "EnvironmentClass",
                  "MaxWebservers", "MaxWorkers", "MinWebservers", "MinWorkers",
                  "Schedulers", "WebserverAccessMode",
                  "WeeklyMaintenanceWindowStart"} \cup LoggingModules)

\* Accepted by CreateEnvironment only: the Update payload leaves them out.
CreateOnlyFields == Fields \cap {"EndpointManagement", "KMSKey", "SubnetIDs"}

------------------------------------------------------------------------------
\* newResourceDelta: the fields at which desired spec a differs from b.

\* MapStringStringPEqual after the length test: nil and empty are the same.
OptionsDiffer(a, b) ==
    LET None == {Nil, EmptyMap}
    IN  Opts \in Fields /\ a[Opts] # b[Opts] /\ ~(a[Opts] \in None /\ b[Opts] \in None)

ScalarDelta(a, b) ==
    {f \in Fields \ (LoggingModules \cup {Opts, "SecurityGroupIDs", "SubnetIDs"}) :
        a[f] # b[f]}

LoggingDelta(a, b) == {m \in Fields \cap LoggingModules : a[m] # b[m]}

NetworkDelta(a, b) ==
    {f \in Fields \cap {"SecurityGroupIDs", "SubnetIDs"} : a[f] # b[f]}

Delta(a, b) ==
    ScalarDelta(a, b) \cup LoggingDelta(a, b) \cup NetworkDelta(a, b)
        \cup {f \in {Opts} : OptionsDiffer(a, b)}

------------------------------------------------------------------------------
\* Payloads.

\* A faulty variant: numbers are converted without a check.
NoRangeCheck(s) == FALSE

\* The error return of both payload constructors: a number that no int32 holds.
OutOfRange(s) ==
    \E f \in Int32Fields : s[f] # Nil /\ (s[f] > MaxInt32 \/ s[f] < MinInt32)

\* Go's conversion int32(v) of an int64.
ToInt32(v) == ((v - MinInt32) % (MaxInt32 - MinInt32 + 1)) + MinInt32

Narrow(s, f) == IF f \in Int32Fields /\ s[f] # Nil THEN ToInt32(s[f]) ELSE s[f]

CreatePayload(s) == [f \in Fields |-> Narrow(s, f)]

UpdatePayload(s) ==
    [f \in Fields |-> IF f \in CreateOnlyFields THEN Nil ELSE Narrow(s, f)]

------------------------------------------------------------------------------
\* What ReadOne makes of the service's answer.

\* The fields of GetEnvironmentOutput; the service hides sensitive options.
Reported(cfg) ==
    [f \in Fields |-> IF f = Opts /\ cfg[f] \in SensitiveVals THEN Redacted
                      ELSE cfg[f]]

\* A faulty variant: every field that the caller has is laid over the observed
\* one.
KeepDesired(s, cfg) ==
    [f \in Fields |-> IF s[f] # Nil THEN s[f] ELSE Reported(cfg)[f]]

\* sdkFind: observed fields, with the caller's own options laid over them.
FindSpec(s, cfg) ==
    [f \in Fields |-> IF f = Opts /\ s[f] # Nil THEN s[f] ELSE Reported(cfg)[f]]

------------------------------------------------------------------------------
\* Late initialization.

\* The members of the pointer that must be nil for f to be filled in.
NilGroup(f) == IF f \in LoggingModules THEN Fields \cap LoggingModules ELSE {f}

Unset(s, f) == \A g \in NilGroup(f) : s[g] = Nil

IncompleteLateInit(s) == \E f \in LateInitFields : Unset(s, f)

\* Faulty variants: every nil field is filled, or none.
FillAnyNil(observed, s) ==
    [f \in Fields |-> IF Unset(s, f) THEN observed[f] ELSE s[f]]

FillNothing(observed, s) == s

FillFromObserved(observed, s) ==
    [f \in Fields |-> IF f \in LateInitFields /\ Unset(s, f) THEN observed[f]
                      ELSE s[f]]

------------------------------------------------------------------------------
\* The MWAA service's side of Create and Update.

\* A member that a payload leaves out keeps its value.
Applied(cfg, payload) ==
    [f \in Fields |-> IF payload[f] = Nil THEN cfg[f] ELSE payload[f]]

\* The service picks a value for every optional setting it was not given.
WithDefaults(cfg, default) ==
    [f \in Fields |-> IF f \in LateInitFields /\ cfg[f] = Nil THEN default
                      ELSE cfg[f]]
==============================================================================
