SPECIFICATION Spec
CONSTANTS
    w1 = w1
    w2 = w2
    k1 = k1
    r1 = r1
    r2 = r2
    Workers <- MCOneWorker
    Reconcilers <- MCNobody
    Requesters <- MCRequesters
    RetryLimit = 1
    MaxEvents = 4
    MaxClock = 5
    MaxCrashes = 1
INVARIANTS
    OneRetryAtATime
PROPERTIES
    ReservationIsKept
    LastEventKept
CHECK_DEADLOCK FALSE
