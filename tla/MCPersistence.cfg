SPECIFICATION Spec
CONSTANTS
    Absent = Absent
    MaxHp = 2
    DefaultMaximum = 1
    StartingHp = 1
    Sources = {s1}
    Edits = {e1}
    FirstStates <- States
    FirstSettings <- Profiles
    Interval = 2
    MaxChanges = 2
    MaxFailures = 1
    MaxMisreads = 1
INVARIANT UnsavedIsRemembered
PROPERTIES RestartRestores SettingsSurvive
CHECK_DEADLOCK FALSE
