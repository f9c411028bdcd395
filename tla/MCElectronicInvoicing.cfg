SPECIFICATION MCSpec
CONSTANTS
    u1 = u1
    u2 = u2
    invoice = invoice
    sale = sale
    payment = payment
    Users <- MCUsers
    Invoices <- MCInvoices
    Sales <- MCSales
    Payments <- MCPayments
    Tasks <- MCTasks
    MaxRotations = 2
    MaxKeys = 1
    MaxPosts = 2
    MaxBusy = 2
    f1 = f1
    f2 = f2
    Documents = {d1}
    Received = {i1}
    Files <- MCFiles
    Nothing = Nothing
    Writers <- MCUsers
    MaxVersions = 2
SYMMETRY MCSymmetry
INVARIANTS
    TypeOK
    TokenSurvives
    PostedAgainOnlyBlind
    KnownIsFollowed
    EvidenceUnlessInterrupted
    OneRetainedVersion
    ReceivedIsAccountedFor
PROPERTIES
    ArchiveIsKept
CHECK_DEADLOCK FALSE
