SPECIFICATION FairSpec
CONSTANTS
    Nil = Nil
    EmptyMap = EmptyMap
    Redacted = Redacted
    NoTag = NoTag
    Fields <- LoopFields
    InitSpecs <- LoopSpecs
    PatchVals <- LoopPatches
    DefaultVal = 0
    SensitiveVals = {2}
    MinInt32 <- MCMinInt32
    MaxInt32 = 3
    TagKeys = {}
    AwsKeys = {}
    ControllerKeys = {}
    TagVals = {"x"}
    ControllerVal = "x"
    InitTags <- NoTagMaps
    FaultKinds = {"api", "lostReply", "reject", "crash", "createFails", "updateFails", "unavailable", "maintenance", "drift"}
    MaxEdits = 2
    MaxFaults = 1
CHECK_DEADLOCK FALSE
PROPERTIES
    SettingsApplied
    FailureSurfaced
    DeletionCompletes
    UpdatesCease
