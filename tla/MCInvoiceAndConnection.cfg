SPECIFICATION MCSpec
CONSTANTS
    c1 = c1
    c2 = c2
    p1 = p1
    w1 = w1
    w2 = w2
    s1 = s1
    u1 = u1
    Modes <- MCBothModes
    Collections <- MCCollections
    Payments <- MCPayments
    PaymentOf <- MCPaymentOf
    NextProvider <- MCMoves
    Workers <- MCWorkers
    Sweepers <- MCNobody
    Users <- MCUsers
    Tries = 2
    MaxCrashes <- MCNoCrash
    a1 = a1
    a2 = a2
    o1 = o1
    o2 = o2
    Companies = {a1, a2}
    Organisations = {o1, o2}
    Approved = {o1}
    Merchants <- MCMerchants
    Before <- MCBefore
    Tasks = {t1, t2}
    Jobs = {j1}
    MaxTokens = 2
    MaxStates = 2
    MaxBusy = 2
INVARIANTS
    OneReceiptPerSuccess
    OneConfirmationPerPayment
    VerifiedIsOfAccount
PROPERTIES
    OnlyRevokedIsCut
    RevokedIsSeen
CHECK_DEADLOCK FALSE
