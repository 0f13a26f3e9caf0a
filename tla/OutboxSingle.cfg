\* One process, three events, a batch of two, two attempts, two cut ticks.
CONSTANTS
    e1 = e1
    e2 = e2
    e3 = e3
    Events = {e1, e2, e3}
    Processes = {p1}
    HandlerCount <- MCHandlerCount
    BatchSize = 2
    MaxAttempts = 2
    MaxAborts = 2
SPECIFICATION FairSpec
INVARIANTS
    RedeliveryBound
    FirstAttemptInOrder
PROPERTIES
    ImplementsPromise
    EventuallySettled
CHECK_DEADLOCK FALSE
