SPECIFICATION PromotionSpec
CONSTANTS
    Workflows = {"W1", "W2"}
    NoWorkflow = "none"
    Paths <- MCPaths
    Content <- MCContent
    Absent = "absent"
    firstTree <- MCFirstTree
    humanFiles <- MCHumanFiles
    taskOutputs <- MCTaskOutputs
    authorized <- MCAuthorized
    editorWrites <- MCEditorWrites
    accepts <- MCAccepts
    RunsCommands = {"W1"}
    CommitAuthority = {"W1"}
    max_tasks = 2
    max_commits = 1
    MaxEdits = 2
    MaxCalls = 2
INVARIANTS
    PromotionTypeOK
    RecordedCommitIsVerified
    OneCommitPerFreeze
PROPERTIES
    FailedIntegrationRestores
    CleanShiftHidesNothing
CHECK_DEADLOCK FALSE
