SPECIFICATION Spec
CONSTANTS
    Links = {l1, l2}
    None = None
    MaxEdits = 1
    MaxRemote = 1
    MaxFailures = 1
    MaxRestarts = 1
    MaxCommands = 2
    MaxBacklog = 1
    CommandKinds <- LinkCommands
INVARIANTS DirtyHasCarrier MarkerHasCommand NoStateSwallowed AckSupersedesDeferred
PROPERTIES PollSparesEdits
SYMMETRY LinkSymmetry
CHECK_DEADLOCK FALSE
