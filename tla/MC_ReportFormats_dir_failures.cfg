\* A removal or a move across devices that fails part way, or a failed
\* chmod or file write in create or copy, or a crash before the commit:
\* the rollback keeps rows whose directories are half removed or half
\* moved, and leaves new directories without rows.
CONSTANTS
    u1 = u1  u2 = u2  x1 = x1  x2 = x2  x3 = x3
    NoValue = NoValue
    NoOwner = NoOwner
    IntWidth = 3
    Users <- MCUsers
    Uuids <- MCUuids
    Predefined <- MCPredefined
    Names = {"n"}
    MaxNameSuffix = 2
    MaxTrashId = 2
    ParamNames = {"p"}
    ParamInputs <- MCParamInputs
    FileInputs <- MCFileInputs
    ModifyNames = {}
    ModifyValues <- MCModifyValues
    ModifyMarks = {FALSE}
    LiveRefs <- MCLiveRefs
    TrashRefs <- MCTrashRefs
    Failures = {"remove", "xdev", "chmod", "write", "crash"}
    FeedStates = {"intact"}
SYMMETRY MCSymmetry
INIT Init
NEXT Next
INVARIANT StoresAgree
