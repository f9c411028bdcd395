SPECIFICATION Spec
CONSTANTS
    r1 = r1
    w1 = w1
    p1 = p1
    p2 = p2
    Requests <- MCRequests
    Workers <- MCWorkers
    Procs <- MCProcs
    Companies = {1}
    MaxSubs = 1
    MaxChanges = 2
    MaxBusy = 2
SYMMETRY MCSymmetry
INVARIANTS
    PlanFollowsStripe
    ClosedOwnsNothingActive
PROPERTIES
    CompletedIsFinal
    RenewalStopped
CHECK_DEADLOCK FALSE
