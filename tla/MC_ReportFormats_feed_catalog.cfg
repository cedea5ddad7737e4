\* The feed drops a predefined format that a live alert attaches while the
\* daemon is stopped: the startup reconciliation deletes it all the same.
CONSTANTS
    u1 = u1  u2 = u2  x1 = x1  x2 = x2  x3 = x3
    NoValue = NoValue
    NoOwner = NoOwner
    IntWidth = 3
    Users <- MCOneUser
    Uuids <- MCUuids
    Predefined <- MCPredefined
    Names = {"n"}
    MaxNameSuffix = 2
    MaxTrashId = 2
    ParamNames = {"p"}
    ParamInputs <- MCFewParamInputs
    FileInputs <- MCFileInputs
    ModifyNames = {}
    ModifyValues <- MCModifyValues
    ModifyMarks = {FALSE}
    LiveRefs <- MCFeedLiveRefs
    TrashRefs <- MCTrashRefs
    Failures <- MCSafeFailures
    FeedStates = {"none", "partial", "intact"}
INIT Init
NEXT Next
PROPERTY CatalogRefined
