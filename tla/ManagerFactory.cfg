SPECIFICATION FairSpec
CONSTANTS
    Callers = {c1, c2, c3}
    Accounts = {"a"}
    Regions = {"r"}
    Roles = {"p", "q"}
    NoManager = NoManager
    MaxCalls = 3
CHECK_DEADLOCK FALSE
INVARIANTS
    LockDiscipline
    NoCreateAfterServed
    ManagerOfOwnRole
PROPERTIES
    CallsReturn
