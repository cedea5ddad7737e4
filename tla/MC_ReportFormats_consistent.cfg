\* Disk and repository agree when the only failures are the ones the code
\* rolls back cleanly (mkdir and rename).
CONSTANTS
    u1 = u1  u2 = u2  x1 = x1  x2 = x2  x3 = x3
    NoValue = NoValue
    NoOwner = NoOwner
    IntWidth = 3
    Users <- MCUsers
    Uuids <- MCUuids
    Predefined <- MCPredefined
    Names = {"n"}
    MaxNameSuffix = 2
    MaxTrashId = 2
    ParamNames = {"p"}
    ParamInputs <- MCParamInputs
    FileInputs <- MCFileInputs
    ModifyNames = {}
    ModifyValues <- MCModifyValues
    ModifyMarks = {FALSE}
    LiveRefs <- MCLiveRefs
    TrashRefs <- MCTrashRefs
    Failures <- MCSafeFailures
    FeedStates = {"intact"}
SYMMETRY MCSymmetry
INIT Init
NEXT Next
INVARIANTS
    TypeOK
    RowHasDir
    NoOrphanDir
    IdentitiesUnique
    NameUnique
    ParamValuesValid
PROPERTIES
    LiveRefProtected
    CatalogRefined
