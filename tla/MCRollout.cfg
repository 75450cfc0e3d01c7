SPECIFICATION FairRollout
CONSTANTS
    Nil = Nil
    EmptyMap = EmptyMap
    Redacted = Redacted
    NoTag = NoTag
    Fields <- PlainFields
    InitSpecs <- PlainSpecs
    PatchVals <- PlainPatches
    DefaultVal = 0
    SensitiveVals = {2}
    MinInt32 <- MCMinInt32
    MaxInt32 = 3
    TagKeys = {}
    AwsKeys = {}
    ControllerKeys = {}
    TagVals = {"x"}
    ControllerVal = "x"
    InitTags <- NoTagMaps
    FaultKinds = {}
    MaxEdits = 2
    MaxFaults = 0
CHECK_DEADLOCK FALSE
PROPERTIES
    LifecycleKept
    SettingsOutliveUpgrade
    DeletionOutlivesUpgrade
