SPECIFICATION Spec
CONSTANTS
    Contacts = {c1, c2}
    Kinds <- Hits
    NoContact = NoContact
    Settle = 2
    StatusSettle = 1
    Latch = 3
    Iframe = 5
    BlockWindow = 2
    Skew = 1
    PollGap = 1
    EndpointReady = TRUE
    MaxTime = 8
    MaxUpsets = 1
INVARIANTS TypeOK EnemyHitStaysEnemy EnemyLabelIsFresh
PROPERTIES ContactSpacing
SYMMETRY ContactSymmetry
CHECK_DEADLOCK FALSE
