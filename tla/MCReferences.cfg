SPECIFICATION FairSpec
CONSTANTS
    Order <- MCOrder
    ListFields = {"SecurityGroupIDs"}
    CreateOnly = {"KMSKey"}
    Required = {"ExecutionRoleARN"}
    Targets = {"role", "sg"}
    Bare = "bare"
    OwnId = "own"
    Refs <- MCRefs
    Ids <- MCIds
    MaxChanges = 3
INVARIANTS
    OneIdPerReference
    IdsAreFresh
    InvalidNeverUsed
PROPERTIES
    UsedAtLast
    IdsFollow
