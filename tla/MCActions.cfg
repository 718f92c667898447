SPECIFICATION Spec
CONSTANTS
    DirectFields <- MCDirectFields
    KoFields <- MCKoFields
    Ids = {1}
    Bits = {b0, b1}
    Active = Active
    BusSettle = 3
    Skew = 1
    Work = 1
    MaxPresses = 2
    MaxRepeats = 1
    MaxTouches = 2
    MaxTime = 5
    MaxInputs = 3
SYMMETRY BitSymmetry
INVARIANTS TypeOK UsedAtMostOnce ContactReportedOnce
CHECK_DEADLOCK FALSE
