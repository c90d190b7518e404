CONSTANTS
    Procs = {s1, s2}
    Entries = {"d"}
    Gates = {}
    authority <- MCAuthority
    withRefs = {"d"}
    rejected = {}
    rank <- MCRank
    InitialMax = 1
    SessionMax = 2
    MaxCycles = 2
    MaxConsecutive = 1
    MaxTotal = 2
    MaxFlows = 2
    MaxWaits = 1
    Watchdogs = {w1, w2}
    MinDuration = 2
    MaxClock = 2
    MaxLaunches = 2
SYMMETRY ProcessesAlike
SPECIFICATION HandoffSpec
INVARIANTS
    HandoffTypeOK
    EntryFedOnce
    RestIsJustified
    HandoffIsEarned
    SecondShiftOnlyByRace
CHECK_DEADLOCK FALSE
