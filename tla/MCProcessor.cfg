SPECIFICATION ProcessorSpec
CONSTANTS
    Pairs <- MCPairs
    Groups = {3, 5}
    Levels = {0, 3}
    Periods <- MCPeriods
    MaxCalls = 2
    Changes <- MCChanges
    Tables <- MCTables
INVARIANTS
    ReadsBack
    RunsOwnHandler
    AsAsked
PROPERTY
    UrgentFirst
