\* The comment of outbox.service.ts:5-7 against the code's two writes.
CONSTANTS
    e1 = e1
    e2 = e2
    e3 = e3
    Events = {e1, e2}
    Processes = {p1}
    HandlerCount <- MCHandlerCount2
    BatchSize = 1
    MaxAttempts = 2
    MaxAborts = 1
SPECIFICATION Spec
INVARIANTS
    PublishedIffCommitted
CHECK_DEADLOCK FALSE
