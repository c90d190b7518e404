CONSTANTS
    Workflows <- MCWorkflows
    Items <- MCItems
    wfOf <- MCWfOf
    priority <- MCPriority
    createdOrder <- MCCreatedOrder
    identity <- MCIdentity
    deps <- MCDeps
    Legacy = {}
    BlockKinds = {"WAITING_EXTERNAL"}
    Scopes <- MCScopes
    NoItem = NoItem
    MaxVersion = 5
    MaxCheckpoints = 3
    projOf <- MCProjOf
    projectRank <- MCProjectRank
    MaxTasks = 2
    OperatorActs = TRUE
SPECIFICATION RuntimeSpec
INVARIANTS
    RuntimeTypeOK
    OneJobAtATime
    RunStrandsNothing
    DoneMeansAllCompleted
PROPERTIES
    RunReturns
CHECK_DEADLOCK FALSE
