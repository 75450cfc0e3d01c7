SPECIFICATION FairNeighbours
CONSTANTS
    Nil = Nil
    EmptyMap = EmptyMap
    Redacted = Redacted
    NoTag = NoTag
    Fields <- SharedFields
    InitSpecs <- SharedSpecs
    PatchVals <- SharedPatches
    DefaultVal = 0
    SensitiveVals = {2}
    MinInt32 <- MCMinInt32
    MaxInt32 = 3
    TagKeys = {}
    AwsKeys = {}
    ControllerKeys = {}
    TagVals = {"x"}
    ControllerVal = "x"
    InitTags <- NoTagMaps
    FaultKinds = {"api", "lostReply", "crash"}
    MaxEdits = 4
    MaxFaults = 1
CHECK_DEADLOCK FALSE
INVARIANTS
    OwnEnvironmentOnly
    SomebodyHolds
PROPERTIES
    LatecomerIsTold
