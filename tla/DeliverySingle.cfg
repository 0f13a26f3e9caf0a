\* One worker, three deliveries, two attempts, three faults.
CONSTANTS
    mail = mail
    inbox = inbox
    push = push
    Deliveries = {mail, inbox, push}
    Channel <- MCChannel
    Deliverable <- MCDeliverable
    Priority <- MCPriority
    Workers = {w1}
    BatchSize = 2
    MaxAttempts = 2
    MaxFaults = 3
SPECIFICATION FairSpec
INVARIANTS
    CopiesBound
PROPERTIES
    SettledUnlessLost
CHECK_DEADLOCK FALSE
