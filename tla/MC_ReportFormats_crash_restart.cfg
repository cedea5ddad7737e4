\* A crash between the directory operation and the commit, then a
\* restart: the startup checks do not give the row its files back.
CONSTANTS
    u1 = u1  u2 = u2  x1 = x1  x2 = x2  x3 = x3
    NoValue = NoValue
    NoOwner = NoOwner
    IntWidth = 3
    Users <- MCUsers
    Uuids <- MCUuids
    Predefined <- MCPredefined
    Names = {"n"}
    MaxNameSuffix = 2
    MaxTrashId = 2
    ParamNames = {"p"}
    ParamInputs <- MCParamInputs
    FileInputs <- MCFileInputs
    ModifyNames = {}
    ModifyValues <- MCModifyValues
    ModifyMarks = {FALSE}
    LiveRefs <- MCLiveRefs
    TrashRefs <- MCTrashRefs
    Failures = {"crash"}
    FeedStates = {"intact"}
SYMMETRY MCSymmetry
INIT Init
NEXT Next
PROPERTY RecoveryRestoresConsistency
