\* Two calls of the API at a time beside the dispatcher, two roles, at most one fault.
CONSTANTS
    Slots = {s1, s2}
    Roles = {member, admin}
    MaxInvites = 2
    MaxEvents = 3
    MaxFaults = 1
SPECIFICATION FairSpec
INVARIANTS
    SpendBound
    DeliveredMeansMember
PROPERTIES
    PublishedIsSettled
CHECK_DEADLOCK FALSE
