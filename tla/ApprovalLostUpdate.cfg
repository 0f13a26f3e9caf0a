\* Two calls at a time and no fault: whether a signed chain ends approved.
CONSTANTS
    Slots = {s1, s2}
    Users = {u1}
    Roles <- MCRolesTwo
    StepRole <- MCTwoSteps
    StepCount = 2
    IsSpend = TRUE
    Amount = 20000
    MaxFaults = 0
SYMMETRY MCSlotSymmetry
SPECIFICATION Spec
INVARIANTS
    CompleteChainIsApproved
CHECK_DEADLOCK FALSE
