\* Two calls at a time on the chain ppm submits, with substitutes and a fault.
CONSTANTS
    Slots = {s1, s2}
    Users = {u1}
    Roles <- MCRolesTwo
    StepRole <- MCTwoSteps
    StepCount = 2
    IsSpend = TRUE
    Amount = 30000
    MaxFaults = 1
SYMMETRY MCSlotSymmetry
SPECIFICATION Spec
INVARIANTS
    ApprovedMeansAllSteps
    SignedInOrder
    SignedWithAuthority
CHECK_DEADLOCK FALSE
