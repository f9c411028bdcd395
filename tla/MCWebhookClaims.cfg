SPECIFICATION Spec
CONSTANTS
    w1 = w1
    w2 = w2
    e1 = e1
    e2 = e2
    d1 = d1
    d2 = d2
    Workers <- MCWorkers
    Events <- MCEvents
    Deliveries <- MCDeliveries
    Batch <- MCBatch
    Lease = 1
    MaxClock = 2
    MaxFaults = 2
INVARIANTS
    FreshClaimsExclude
    AckedIsCompleted
PROPERTIES
    ClaimsAreFenced
    ImplementsInbox
    EveryDeliveryAcked
CHECK_DEADLOCK FALSE
