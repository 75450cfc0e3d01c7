SPECIFICATION FairSpec
CONSTANTS
    Nil = Nil
    EmptyMap = EmptyMap
    Redacted = Redacted
    NoTag = NoTag
    Fields <- TaggedFields
    InitSpecs <- TaggedSpecs
    PatchVals <- TaggedPatches
    DefaultVal = 0
    SensitiveVals = {2}
    MinInt32 <- MCMinInt32
    MaxInt32 = 3
    TagKeys <- MCTagKeys
    AwsKeys = {"aws:stack"}
    ControllerKeys = {"controller"}
    TagVals = {"x", "y"}
    ControllerVal = "y"
    InitTags <- MCInitTags
    FaultKinds = {"awsTag", "api", "lostReply", "updateFails", "createFails", "reject", "crash", "unavailable", "maintenance"}
    MaxEdits = 3
    MaxFaults = 1
CHECK_DEADLOCK FALSE
INVARIANTS
    NoAwsTagCalls
    ClusterTagsAreTheUsers
PROPERTIES
    TagsApplied
    RangeErrorShown
    SyncedMeansTaken
