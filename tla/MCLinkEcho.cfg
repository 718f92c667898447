SPECIFICATION FairSpec
CONSTANTS
    Avatars = {"new"}
    StaticFields <- Fields
    Marker <- NewMarker
    Threads = 1
    MaxLoads = 0
    MaxToggles = 2
    MaxLosses = 0
    MaxUpsets = 2
PROPERTIES ToggleConverges
CHECK_DEADLOCK FALSE
