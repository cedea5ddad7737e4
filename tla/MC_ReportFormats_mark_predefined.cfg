\* modify_report_format lets the owner mark a format predefined; the
\* generator then runs the script of the feed directory of its uuid.
CONSTANTS
    u1 = u1  u2 = u2  x1 = x1  x2 = x2  x3 = x3
    NoValue = NoValue
    NoOwner = NoOwner
    IntWidth = 3
    Users <- MCUsers
    Uuids <- MCUuids
    Predefined <- MCPredefined
    Names = {"n"}
    MaxNameSuffix = 2
    MaxTrashId = 2
    ParamNames = {"p"}
    ParamInputs <- MCParamInputs
    FileInputs <- MCFileInputs
    ModifyNames = {}
    ModifyValues <- MCModifyValues
    ModifyMarks = {TRUE}
    LiveRefs <- MCLiveRefs
    TrashRefs <- MCTrashRefs
    Failures = {}
    FeedStates = {"intact"}
SYMMETRY MCSymmetry
INIT Init
NEXT Next
INVARIANT RowHasDir
