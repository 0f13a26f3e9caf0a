\* Two requests, one completion and one fault: the chain the flow promises.
CONSTANTS
    BatchSize = 2
    MaxAttempts = 3
    MaxExpenses = 2
    MaxCompletions = 1
    MaxFaults = 1
SPECIFICATION FairSpec
INVARIANTS
    OneChainPerTask
    DispatchedOnlyIfApproved
PROPERTIES
    GrantReachesOrder
CHECK_DEADLOCK FALSE
