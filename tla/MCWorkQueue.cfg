CONSTANTS
    Workflows <- MCWorkflows
    Items <- MCItems
    wfOf <- MCWfOf
    priority <- MCPriority
    createdOrder <- MCCreatedOrder
    identity <- MCIdentity
    deps <- MCDeps
    Legacy = {}
    BlockKinds = {"WAITING_EXTERNAL"}
    Scopes <- MCScopes
    NoItem = NoItem
    MaxVersion = 4
    MaxCheckpoints = 2
SPECIFICATION Spec
INVARIANTS
    TypeOK
    ActiveTaskIsRunning
    BlockedByCurrentCheckpoint
    EveryRunIsAccountedFor
    StartedAfterDependencies
    LedgerIsExact
PROPERTIES
    StaleEvidenceStaysStale
    CompletedStaysCompleted
    ImplementsExecutionSlot
CHECK_DEADLOCK FALSE
