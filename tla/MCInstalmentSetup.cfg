SPECIFICATION Spec
CONSTANTS
    r1 = r1
    r2 = r2
    c1 = c1
    c2 = c2
    w1 = w1
    w2 = w2
    Requests <- MCRequests
    Clients <- MCClients
    Workers <- MCWorkers
    MaxLinks = 2
    MaxFlows = 3
    MaxBusy = 2
    MaxCrashes = 1
    MaxEdits = 1
    Totals <- MCTotals
    FirstDates <- MCFirstDates
    Direct = {FALSE, TRUE}
SYMMETRY MCSymmetry
INVARIANTS
    OneLiveFlow
    OneSchedule
    OpenableLinkHasPayment
    PlanFromDelivery
    DeliveredIsPayable
    ScheduleIsExact
    SettledBeforeDone
CHECK_DEADLOCK FALSE
