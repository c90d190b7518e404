CONSTANTS
    Workflows <- MCWorkflows
    Items <- MCItems
    wfOf <- MCWfOf
    priority <- MCPriority
    createdOrder <- MCCreatedOrder
    identity <- MCIdentity
    deps <- MCDeps
    Legacy = {}
    BlockKinds = {"WAITING_EXTERNAL"}
    Scopes = {}
    NoItem = NoItem
    MaxVersion = 3
    MaxCheckpoints = 1
    WaitClasses = {"RESOURCE_LONG", "AUTHORITY"}
    Delays = {0, 1}
    MaxWaits = 2
    MaxTime = 2
SPECIFICATION MissionSpec
PROPERTIES
    AuthorityIsImmutable
CHECK_DEADLOCK FALSE
