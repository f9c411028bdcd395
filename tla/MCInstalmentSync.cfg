SPECIFICATION Spec
CONSTANTS
    w1 = w1
    w2 = w2
    k1 = k1
    r1 = r1
    r2 = r2
    Workers <- MCWorkers
    Reconcilers <- MCReconcilers
    Requesters <- MCNobody
    RetryLimit = 1
    MaxEvents = 3
    MaxClock = 3
    MaxCrashes = 0
INVARIANTS
    AutomaticRetryIsOfFailure
PROPERTIES
    Converges
CHECK_DEADLOCK FALSE
