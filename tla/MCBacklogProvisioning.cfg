CONSTANTS
    Repositories = {"repo"}
    Criteria = {"c1"}
    Targets = {"guide", "documentation"}
    firstLedgers <- MCFirstLedgers
    contracts <- MCContracts
    completions <- MCCompletions
    authorities = {0}
    NoContract = NoContract
    NoCompletion = NoCompletion
    MaxTasks = 3
    MaxCalls = 4
    Clients = {"client"}
    This = "own"
    NoProject = "none"
    observed <- MCObserved
    learned <- MCLearned
    promotions = {"GLOBAL", "DFG"}
    MaxMemories = 2
    MaxCandidates = 1
    Evidence = {"e1"}
    Paths = {"src"}
    manifest = {}
    proposals <- MCProposals
    MaxPlans = 4
    Procs = {p1, p2}
    Nobody = Nobody
    Heads = {"h1", "h2"}
    firstHead = "h1"
    specs <- MCSpecs
    NoSpec = NoSpec
SYMMETRY ProcsAlike
SPECIFICATION Spec
INVARIANTS
    ProvisionedWholeAndOnce
    LineageIsForward
    WorkIsBacked
    ClientKnowledgeStays
CHECK_DEADLOCK FALSE
