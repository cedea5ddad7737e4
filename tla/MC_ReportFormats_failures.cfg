\* Under every failure and crash the handlers allow, the repository stays
\* consistent: identities, names, parameter values, in-use protection.
CONSTANTS
    u1 = u1  u2 = u2  x1 = x1  x2 = x2  x3 = x3
    NoValue = NoValue
    NoOwner = NoOwner
    IntWidth = 3
    Users <- MCOneUser
    Uuids <- MCUuids
    Predefined <- MCPredefined
    Names = {"n"}
    MaxNameSuffix = 2
    MaxTrashId = 2
    ParamNames = {"p"}
    ParamInputs <- MCFewParamInputs
    FileInputs <- MCFileInputs
    ModifyNames = {}
    ModifyValues <- MCModifyValues
    ModifyMarks = {FALSE}
    LiveRefs <- MCLiveRefs
    TrashRefs <- MCTrashRefs
    Failures <- MCAllFailures
    FeedStates = {"intact"}
INIT Init
NEXT Next
INVARIANTS
    TypeOK
    IdentitiesUnique
    NameUnique
    ParamValuesValid
    FreshTrashIdsUnused
PROPERTIES
    LiveRefProtected
    CatalogRefined
