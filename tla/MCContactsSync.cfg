SPECIFICATION Spec
CONSTANTS
    Contacts = {c1, c2}
    Kinds <- HitsAndStatuses
    NoContact = NoContact
    Settle = 1
    StatusSettle = 1
    Latch = 1
    Iframe = 3
    BlockWindow = 1
    Skew = 0
    PollGap = 1
    EndpointReady = FALSE
    MaxTime = 4
    MaxUpsets = 1
INVARIANTS ReportIsScheduled
SYMMETRY ContactSymmetry
CHECK_DEADLOCK FALSE
