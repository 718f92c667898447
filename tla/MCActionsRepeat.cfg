SPECIFICATION Spec
CONSTANTS
    DirectFields <- MCDirectFields
    KoFields <- MCKoFields
    Ids = {1}
    Bits = {b0, b1}
    Active = Active
    BusSettle = 3
    Skew = 1
    Work = 1
    MaxPresses = 2
    MaxRepeats = 1
    MaxTouches = 0
    MaxTime = 0
    MaxInputs = 4
SYMMETRY BitSymmetry
INVARIANTS OneUsePerPress
CHECK_DEADLOCK FALSE
