SPECIFICATION FairSpec
CONSTANTS
    Avatars <- AllAvatars
    StaticFields <- Fields
    Marker <- AllMarkers
    Threads = 2
    MaxLoads = 1
    MaxToggles = 2
    MaxLosses = 1
    MaxUpsets = 3
INVARIANTS TypeOK QuietAgreement AdmittedIsMarked
PROPERTIES CurrentIsRecognised
CHECK_DEADLOCK FALSE
