\* Two calls at a time by two managers, one call cut short.
CONSTANTS
    s1 = s1
    s2 = s2
    u1 = u1
    u2 = u2
    Slots = {s1, s2}
    Users = {u1, u2}
    Amounts = {100, 103}
    Costs = {100, 103}
    MaxOrders = 1
    MaxCompletions = 3
    MaxFaults = 1
SYMMETRY MCSymmetry
SPECIFICATION Spec
INVARIANTS
    EvidenceBound
    ApprovedOnOthersMatch
    OverAmountIsUnworked
CHECK_DEADLOCK FALSE
