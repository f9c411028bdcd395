SPECIFICATION MCSpec
CONSTANTS
    Created = {"ESTIMATE"}
    MaxDocs = 3
    MaxLinks = 2
    r1 = r1
    r2 = r2
    c1 = c1
    c2 = c2
    s1 = s1
    s2 = s2
    Requests <- MCRequests
    Clients <- MCClients
    Sweeps <- MCSweeps
    MaxBusy = 2
    MaxReminders = 3
    MaxStops = 1
SYMMETRY MCSymmetry
INVARIANTS
    OneLineagePerNumber
    InvoiceHasAcceptedEstimate
    SecondInvoiceOnlyByOverlap
    RemindedOncePerStop
PROPERTIES
    AcceptanceIsFinal
CHECK_DEADLOCK FALSE
