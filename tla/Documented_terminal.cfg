SPECIFICATION FairSpec
CONSTANTS
    Nil = Nil
    EmptyMap = EmptyMap
    Redacted = Redacted
    NoTag = NoTag
    Fields <- CoreFields
    InitSpecs <- CoreSpecs
    PatchVals <- CorePatches
    DefaultVal = 0
    SensitiveVals = {2}
    MinInt32 <- MCMinInt32
    MaxInt32 = 3
    TagKeys = {}
    AwsKeys = {}
    ControllerKeys = {}
    TagVals = {"x"}
    ControllerVal = "x"
    InitTags <- NoTagMaps
    FaultKinds = {"createFails", "unavailable"}
    MaxEdits = 2
    MaxFaults = 1
CHECK_DEADLOCK FALSE
PROPERTIES
    FailureStateShown
