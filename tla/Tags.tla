--------------------------------- MODULE Tags ---------------------------------
(***************************************************************************)
(* The tags of an Environment: pure functions of the resource manager and  *)
(* of pkg/tags.  A tag map is a function from TagKeys to values, NoTag     *)
(* where the key is missing.                                               *)
(***************************************************************************)
EXTENDS FiniteSets

CONSTANTS
    TagKeys,        \* every tag key of the instance
    AwsKeys,        \* those that begin with "aws:"
    ControllerKeys, \* those of the --resource-tags flag
    TagVals,        \* tag values
    NoTag,          \* the key is not in the map
    ControllerVal   \* what the flag gives ControllerKeys

TagMap == [TagKeys -> TagVals \cup {NoTag}]

ASSUME TagConstants ==
    /\ AwsKeys \subseteq TagKeys /\ ControllerKeys \subseteq TagKeys
    /\ AwsKeys \cap ControllerKeys = {}
    /\ NoTag \notin TagVals /\ ControllerVal \in TagVals

NoTags == [k \in TagKeys |-> NoTag]

\* GetDefaultTags: the controller's own tags.
DefaultTags == [k \in TagKeys |-> IF k \in ControllerKeys THEN ControllerVal ELSE NoTag]

\* EnsureTags: the controller's tags are added, the user's win.
EnsureTags(t) == [k \in TagKeys |-> IF t[k] = NoTag THEN DefaultTags[k] ELSE t[k]]

\* A faulty variant: AWS's tags are left out of the desired ones.
NoMirror(a, b) == a

\* mirrorAWSTags: aws: tags of the observed map b are copied onto a.
MirrorAWSTags(a, b) ==
    [k \in TagKeys |-> IF k \in AwsKeys /\ b[k] # NoTag THEN b[k] ELSE a[k]]

\* A faulty variant: only the controller's own tags are filtered.
IgnoreControllerTags(t) ==
    [k \in TagKeys |-> IF k \in ControllerKeys THEN NoTag ELSE t[k]]

\* ignoreSystemTags: what is never written to the custom resource.
IgnoreSystemTags(t) ==
    [k \in TagKeys |-> IF k \in AwsKeys \cup ControllerKeys THEN NoTag ELSE t[k]]

\* A faulty variant: only keys that are missing are set.
AddMissing(desired, existing) ==
    {k \in TagKeys : desired[k] # NoTag /\ existing[k] = NoTag}

\* SyncTags: keys to set with TagResource, keys to drop with UntagResource.
ToAdd(desired, existing) ==
    {k \in TagKeys : desired[k] # NoTag /\ desired[k] # existing[k]}

ToDelete(desired, existing) ==
    {k \in TagKeys : existing[k] # NoTag /\ desired[k] = NoTag}

\* The service's side of TagResource and UntagResource.
Tagged(existing, desired, keys) ==
    [k \in TagKeys |-> IF k \in keys THEN desired[k] ELSE existing[k]]

Untagged(existing, keys) ==
    [k \in TagKeys |-> IF k \in keys THEN NoTag ELSE existing[k]]
===============================================================================
