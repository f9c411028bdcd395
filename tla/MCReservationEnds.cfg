SPECIFICATION Spec
CONSTANTS
    w1 = w1
    w2 = w2
    k1 = k1
    r1 = r1
    r2 = r2
    Workers <- MCOneWorker
    Reconcilers <- MCReconcilers
    Requesters <- MCOneRequester
    RetryLimit = 1
    MaxEvents = 3
    MaxClock = 4
    MaxCrashes = 0
PROPERTIES
    ReservationEnds
CHECK_DEADLOCK FALSE
