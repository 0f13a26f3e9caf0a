\* Two calls at a time, one of them cut short.
CONSTANTS
    Users = {u1, u2}
    Slots = {s1, s2}
    Mode = "ad_hoc_approved"
    MaxRequests = 2
    MaxFaults = 1
SPECIFICATION Spec
INVARIANTS
    OrderedMeansApproved
    AttachedIsApproved
PROPERTIES
    TerminalIsFinal
CHECK_DEADLOCK FALSE
