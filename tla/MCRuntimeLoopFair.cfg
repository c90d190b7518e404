CONSTANTS
    Workflows <- MCWorkflows
    Items <- FairItems
    wfOf <- FairWfOf
    priority <- FairPriority
    createdOrder <- FairCreatedOrder
    identity <- FairIdentity
    deps <- FairDeps
    Legacy = {}
    BlockKinds = {"WAITING_EXTERNAL"}
    Scopes <- AllScope
    NoItem = NoItem
    MaxVersion = 2
    MaxCheckpoints = 6
    projOf <- MCProjOf
    projectRank <- MCProjectRank
    MaxTasks = 3
    OperatorActs = FALSE
SPECIFICATION RuntimeSpec
PROPERTIES
    NoThirdHandoffInARow
CHECK_DEADLOCK FALSE
