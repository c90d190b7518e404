CONSTANTS
    Workflows <- MCWorkflows
    Items <- MixedItems
    wfOf <- MixedWfOf
    priority <- MixedPriority
    createdOrder <- MixedCreatedOrder
    identity <- MixedIdentity
    deps <- MixedDeps
    Legacy <- MixedLegacy
    BlockKinds = {"WAITING_EXTERNAL"}
    Scopes <- MCScopes
    NoItem = NoItem
    MaxVersion = 3
    MaxCheckpoints = 2
SPECIFICATION Spec
INVARIANTS
    SelectionIsDetermined
CHECK_DEADLOCK FALSE
