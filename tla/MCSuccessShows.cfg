SPECIFICATION Spec
CONSTANTS
    c1 = c1
    c2 = c2
    p1 = p1
    w1 = w1
    w2 = w2
    s1 = s1
    u1 = u1
    Modes <- MCOneTimeOnly
    Collections <- MCCollections
    Payments <- MCPayments
    PaymentOf <- MCPaymentOf
    NextProvider <- MCMoves
    Workers <- MCOneWorker
    Sweepers <- MCNobody
    Users <- MCNobody
    Tries = 2
    MaxCrashes <- MCOneCrash
PROPERTIES
    SuccessShows
CHECK_DEADLOCK FALSE
