\* Two workers claiming from one table.
CONSTANTS
    mail = mail
    inbox = inbox
    push = push
    Deliveries = {mail, push}
    Channel <- MCChannelTwo
    Deliverable <- MCDeliverable
    Priority <- MCPriorityTwo
    Workers = {w1, w2}
    BatchSize = 2
    MaxAttempts = 2
    MaxFaults = 2
SYMMETRY MCWorkerSymmetry
SPECIFICATION Spec
INVARIANTS
    ExclusiveClaim
    SentMeansReceived
CHECK_DEADLOCK FALSE
