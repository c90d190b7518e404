CONSTANTS
    Workflows <- MCWorkflows
    Items <- MCItems
    wfOf <- MCWfOf
    priority <- MCPriority
    createdOrder <- MCCreatedOrder
    identity <- MCIdentity
    deps <- MCDeps
    Legacy = {}
    BlockKinds = {"WAITING_EXTERNAL"}
    Scopes <- MCScopes
    NoItem = NoItem
    MaxVersion = 2
    MaxCheckpoints = 3
    projOf <- MCProjOf
    projectRank <- MCProjectRank
    MaxTasks = 2
    OperatorActs = FALSE
SPECIFICATION RuntimeSpec
PROPERTIES
    ClosedStaysClosed
CHECK_DEADLOCK FALSE
