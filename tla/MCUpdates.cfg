SPECIFICATION FairSpec
CONSTANTS
    None = None
    Installed <- First
    FirstStamps = {None}
    Releases <- Published
    MaxBacklog = 1
    MaxLosses = 1
INVARIANT SuccessIsWhole
PROPERTIES NeverDowngraded ButtonComesBack InstallerRestarts
CHECK_DEADLOCK FALSE
