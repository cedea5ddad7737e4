\* The feed changes between restarts: predefined directories are removed,
\* broken and reinstalled; the startup reconciliation keeps the formats
\* without owner in step with the feed.
CONSTANTS
    u1 = u1  u2 = u2  x1 = x1  x2 = x2  x3 = x3
    NoValue = NoValue
    NoOwner = NoOwner
    IntWidth = 3
    Users <- MCOneUser
    Uuids <- MCUuids
    Predefined <- MCPredefined
    Names = {"n"}
    MaxNameSuffix = 2
    MaxTrashId = 2
    ParamNames = {"p"}
    ParamInputs <- MCFewParamInputs
    FileInputs <- MCFileInputs
    ModifyNames = {}
    ModifyValues <- MCModifyValues
    ModifyMarks = {FALSE}
    LiveRefs <- MCLiveRefs
    TrashRefs <- MCTrashRefs
    Failures <- MCSafeFailures
    FeedStates = {"none", "partial", "intact"}
INIT Init
NEXT Next
INVARIANTS
    TypeOK
    RowHasDir
    NameUnique
    FeedMirrored
